--------------------------- MODULE ProviderProofs ---------------------------
(***************************************************************************)
(* The life of the provider and of its contexts, for every set of          *)
(* providers and contexts: nothing leaks and nothing dangles on any path.  *)
(***************************************************************************)
EXTENDS Provider, TLAPS

-----------------------------------------------------------------------------
(* The orders of release.                                                  *)

(* A provider goes after its child, ...                                    *)
LEMMA ProviderOrderFacts ==
  /\ DOMAIN ProviderOrder = 1..2
  /\ ProviderOrder[1] = "child_libctx" /\ ProviderOrder[2] = "provctx"
  /\ \A i \in DOMAIN ProviderOrder : ProviderOrder[i] \in ProviderKinds
  BY DEF ProviderOrder, ProviderKinds

(* ... the inner structure after what it points to, ...                    *)
LEMMA InnerOrderFacts ==
  /\ DOMAIN InnerOrder = 1..3
  /\ InnerOrder[1] = "evp_cipher_ctx" /\ InnerOrder[2] = "evp_cipher"
  /\ InnerOrder[3] = "evp_inner"
  /\ \A i \in DOMAIN InnerOrder : InnerOrder[i] \in ContextKinds
  BY DEF InnerOrder, ContextKinds

(* ... and the context last.                                               *)
LEMMA ContextOrderFacts ==
  /\ DOMAIN ContextOrder = 1..5
  /\ ContextOrder[1] = "evp_cipher_ctx" /\ ContextOrder[2] = "evp_cipher"
  /\ ContextOrder[3] = "evp_inner" /\ ContextOrder[4] = "usage_lock"
  /\ ContextOrder[5] = "cipher_ctx"
  /\ \A i \in DOMAIN ContextOrder : ContextOrder[i] \in ContextKinds
  BY DEF ContextOrder, InnerOrder, ContextKinds

-----------------------------------------------------------------------------
(* The invariant.  What is held is not inductive by itself: what a step    *)
(* allocates must not be held yet, what it releases must be, and a         *)
(* provider may only go when no context refers to it, so every step of a   *)
(* life says what is held at it.                                           *)

Kinds == ProviderKinds \union ContextKinds
Loaded == {"ready", "unloaded"}

Counted == \A r \in Resources : live[r] = 1 <=> r[1] \in holds[r[2]]

ProviderHolds(s, h) ==
  /\ s \in ProviderSteps /\ h \subseteq ProviderKinds
  /\ s = "none" => h = {}
  /\ s \in {"callbacks", "child"} => h = {"provctx"}
  /\ s \in Loaded => h = ProviderKinds
  /\ "child_libctx" \in h => "provctx" \in h

ContextHolds(s, h) ==
  /\ s \in ContextSteps /\ h \subseteq ContextKinds
  /\ s = "none" => h = {}
  /\ s \notin {"none", "release"} \/ h # {} => "cipher_ctx" \in h
  /\ "evp_cipher" \in h \/ "evp_cipher_ctx" \in h => "evp_inner" \in h
  /\ s = "lock" => "usage_lock" \notin h
  /\ s \in {"lock", "inner"} => "evp_inner" \notin h
  /\ s \in {"cipher", "cipher_ctx", "inner_check"} => "evp_inner" \in h
  /\ s = "cipher" => "evp_cipher" \notin h
  /\ s \in {"cipher", "cipher_ctx"} => "evp_cipher_ctx" \notin h
  /\ s = "check" /\ "evp_inner" \in h => {"evp_cipher", "evp_cipher_ctx"} \subseteq h
  /\ s = "ready" => h = ContextKinds

(* A provider that got past the dispatch table reports errors, and only a  *)
(* loaded one has a cipher fetched.                                        *)
ProviderOK(p) ==
  /\ ProviderHolds(step[p], holds[p])
  /\ step[p] \in Loaded \union {"child"} => errors[p] = CoreErrorFunctions
  /\ fetched[p] => step[p] \in Loaded

(* A context belongs to a loaded provider as long as it exists.            *)
ContextOK(c) ==
  /\ ContextHolds(step[c], holds[c])
  /\ IF step[c] = "none" THEN of[c] = NoProvider
                         ELSE of[c] \in Providers /\ step[of[c]] \in Loaded
  /\ evp[c].initialized => evp[c].bound

LifeInv ==
  /\ TypeOK
  /\ Counted
  /\ \A p \in Providers : ProviderOK(p)
  /\ \A c \in Contexts : ContextOK(c)

-----------------------------------------------------------------------------
(* What a step of one owner leaves alone.                                  *)

Frame(o) ==
  /\ step' \in [Owners -> ProviderSteps \union ContextSteps]
  /\ holds' \in [Owners -> SUBSET Kinds]
  /\ live' \in [Resources -> 0..1]
  /\ Counted'
  /\ \A q \in Owners : q # o => step'[q] = step[q] /\ holds'[q] = holds[q]

(* A resource is a kind and its owner.                                     *)
LEMMA ResourceFacts ==
  /\ \A r \in Resources : r = <<r[1], r[2]>> /\ r[1] \in Kinds /\ r[2] \in Owners
  /\ \A p \in Providers : \A kind \in ProviderKinds : <<kind, p>> \in Resources
  /\ \A c \in Contexts : \A kind \in ContextKinds : <<kind, c>> \in Resources
  BY DEF Resources, Kinds, Owners

(* An allocation of what is not held.                                      *)
LEMMA AllocateFrame ==
  ASSUME TypeOK, Counted, NEW o \in Owners, NEW kind \in Kinds, NEW s,
         s \in ProviderSteps \union ContextSteps,
         <<kind, o>> \in Resources, kind \notin holds[o], Allocate(o, kind), Goto(o, s)
  PROVE  Frame(o) /\ step'[o] = s /\ holds'[o] = holds[o] \union {kind}
<1>1. /\ step \in [Owners -> ProviderSteps \union ContextSteps]
      /\ holds \in [Owners -> SUBSET Kinds] /\ live \in [Resources -> 0..1]
  BY DEF TypeOK, Kinds
<1>2. /\ step' = [step EXCEPT ![o] = s]
      /\ holds' = [holds EXCEPT ![o] = @ \union {kind}]
      /\ live' = [live EXCEPT ![<<kind, o>>] = @ + 1]
  BY DEF Allocate, Goto
<1>3. live[<<kind, o>>] = 0
  BY <1>1 DEF Counted
<1>4. live' \in [Resources -> 0..1] /\ live'[<<kind, o>>] = 1
  BY <1>1, <1>2, <1>3
<1>5. Counted'
  <2> SUFFICES ASSUME NEW r \in Resources PROVE live'[r] = 1 <=> r[1] \in holds'[r[2]]
    BY DEF Counted
  <2>1. r = <<r[1], r[2]>> /\ r[2] \in Owners /\ (live[r] = 1 <=> r[1] \in holds[r[2]])
    BY ResourceFacts DEF Counted
  <2>2. CASE r = <<kind, o>>
    BY <1>1, <1>2, <1>4, <2>2
  <2>3. CASE r # <<kind, o>>
    <3>1. live'[r] = live[r]
      BY <1>1, <1>2, <2>3
    <3>2. r[2] # o \/ r[1] # kind
      BY <2>1, <2>3
    <3> QED
      BY <1>1, <1>2, <2>1, <3>1, <3>2
  <2> QED
    BY <2>2, <2>3
<1> QED
  BY <1>1, <1>2, <1>4, <1>5 DEF Frame

(* A step that allocates and releases nothing.                             *)
LEMMA PassFrame ==
  ASSUME TypeOK, Counted, NEW o \in Owners, NEW s \in ProviderSteps \union ContextSteps,
         Goto(o, s), UNCHANGED <<holds, live>>
  PROVE  Frame(o) /\ step'[o] = s /\ holds'[o] = holds[o]
  BY DEF TypeOK, Kinds, Goto, Frame, Counted

(* Nor does it go on.                                                      *)
LEMMA StillFrame ==
  ASSUME TypeOK, Counted, NEW o \in Owners, UNCHANGED <<step, holds, live>>
  PROVE  Frame(o) /\ step'[o] = step[o] /\ holds'[o] = holds[o]
  BY DEF TypeOK, Kinds, Frame, Counted

(* A release takes the first of its order that is held.                    *)
LEMMA ReleaseFrame ==
  ASSUME TypeOK, Counted, NEW o \in Owners, NEW order, NEW after,
         after \in ProviderSteps \union ContextSteps,
         \A i \in DOMAIN order : order[i] \in Kinds /\ <<order[i], o>> \in Resources,
         ReleaseNext(o, order, after)
  PROVE  /\ Frame(o)
         /\ \/ /\ \A i \in DOMAIN order : order[i] \notin holds[o]
               /\ step'[o] = after /\ holds'[o] = holds[o]
            \/ \E i \in DOMAIN order :
                 /\ order[i] \in holds[o]
                 /\ \A j \in DOMAIN order : order[j] \in holds[o] => i <= j
                 /\ step'[o] = step[o] /\ holds'[o] = holds[o] \ {order[i]}
<1> DEFINE held == {i \in DOMAIN order : order[i] \in holds[o]}
<1>1. CASE held = {}
  <2>1. Goto(o, after) /\ UNCHANGED <<holds, live>>
    BY <1>1 DEF ReleaseNext
  <2> QED
    BY <1>1, <2>1, PassFrame
<1>2. CASE held # {}
  <2>1. PICK i \in held : /\ \A j \in held : i <= j
                          /\ holds' = [holds EXCEPT ![o] = Forget(@, order[i])]
                          /\ live' = [live EXCEPT ![<<order[i], o>>] = @ - 1]
                          /\ UNCHANGED step
    BY <1>2 DEF ReleaseNext
  <2> DEFINE kind == order[i]
  <2>2. kind \in Kinds /\ <<kind, o>> \in Resources /\ kind \in holds[o]
    BY <2>1
  <2>3. /\ step \in [Owners -> ProviderSteps \union ContextSteps]
        /\ holds \in [Owners -> SUBSET Kinds] /\ live \in [Resources -> 0..1]
    BY DEF TypeOK, Kinds
  <2>4. holds' = [holds EXCEPT ![o] = @ \ {kind}]
    BY <2>1 DEF Forget
  <2>5. live[<<kind, o>>] = 1
    BY <2>2 DEF Counted
  <2> HIDE DEF kind
  <2>6. live' = [live EXCEPT ![<<kind, o>>] = @ - 1]
    BY <2>1 DEF kind
  <2>7. live' \in [Resources -> 0..1] /\ live'[<<kind, o>>] = 0
    BY <2>2, <2>3, <2>5, <2>6
  <2>8. Counted'
    <3> SUFFICES ASSUME NEW r \in Resources PROVE live'[r] = 1 <=> r[1] \in holds'[r[2]]
      BY DEF Counted
    <3>1. r = <<r[1], r[2]>> /\ r[2] \in Owners /\ (live[r] = 1 <=> r[1] \in holds[r[2]])
      BY ResourceFacts DEF Counted
    <3>2. CASE r = <<kind, o>>
      BY <2>3, <2>4, <2>7, <3>2
    <3>3. CASE r # <<kind, o>>
      <4>1. live'[r] = live[r]
        BY <2>3, <2>6, <3>3
      <4>2. r[2] # o \/ r[1] # kind
        BY <3>1, <3>3
      <4> QED
        BY <2>3, <2>4, <3>1, <4>1, <4>2
    <3> QED
      BY <3>2, <3>3
  <2>9. Frame(o) /\ step'[o] = step[o] /\ holds'[o] = holds[o] \ {kind}
    BY <2>1, <2>3, <2>4, <2>7, <2>8 DEF Frame
  <2> QED
    BY <2>1, <2>9 DEF kind
<1> QED
  BY <1>1, <1>2

(* A step of a provider: its contexts keep it loaded.                      *)
LEMMA ProviderStep ==
  ASSUME LifeInv, NEW p \in Providers, Frame(p), ProviderOK(p)',
         UNCHANGED <<of, evp>>,
         errors' \in [Providers -> SUBSET CoreErrorFunctions],
         registered' \in [Providers -> SUBSET {Descriptor}],
         fetched' \in [Providers -> BOOLEAN],
         \A q \in Providers : q # p => errors'[q] = errors[q] /\ fetched'[q] = fetched[q],
         step[p] \in Loaded => step'[p] \in Loaded \/ \A c \in Contexts : of[c] # p
  PROVE  LifeInv'
<1>1. /\ \A q \in Providers : q \in Owners
      /\ \A c \in Contexts : c \in Owners /\ c # p
  BY OwnerAssumption DEF Owners
<1>2. ASSUME NEW q \in Providers, q # p PROVE ProviderOK(q)'
  BY <1>1, <1>2 DEF LifeInv, ProviderOK, Frame
<1>3. ASSUME NEW c \in Contexts PROVE ContextOK(c)'
  <2>1. ContextOK(c) /\ step'[c] = step[c] /\ holds'[c] = holds[c]
    BY <1>1 DEF LifeInv, Frame
  <2>2. of[c] \in Providers /\ step[of[c]] \in Loaded => step'[of[c]] \in Loaded
    BY <1>1 DEF Frame
  <2> QED
    BY <2>1, <2>2 DEF ContextOK
<1>4. TypeOK'
  <2>1. /\ \A q \in Providers : step'[q] \in ProviderSteps /\ holds'[q] \subseteq ProviderKinds
        /\ \A c \in Contexts : step'[c] \in ContextSteps /\ holds'[c] \subseteq ContextKinds
    BY <1>2, <1>3 DEF ProviderOK, ContextOK, ProviderHolds, ContextHolds
  <2> QED
    BY <2>1 DEF LifeInv, TypeOK, Frame, Kinds
<1> QED
  BY <1>2, <1>3, <1>4 DEF LifeInv, Frame

(* A step of a context.                                                    *)
LEMMA ContextStep ==
  ASSUME LifeInv, NEW c \in Contexts, Frame(c), ContextOK(c)',
         UNCHANGED <<errors, registered, fetched>>,
         of' \in [Contexts -> Providers \union {NoProvider}],
         evp' \in [Contexts -> [initialized : BOOLEAN, bound : BOOLEAN]],
         \A d \in Contexts : d # c => of'[d] = of[d] /\ evp'[d] = evp[d]
  PROVE  LifeInv'
<1>1. /\ \A q \in Providers : q \in Owners /\ q # c
      /\ \A d \in Contexts : d \in Owners
  BY OwnerAssumption DEF Owners
<1>2. ASSUME NEW q \in Providers PROVE ProviderOK(q)'
  BY <1>1 DEF LifeInv, ProviderOK, Frame
<1>3. ASSUME NEW d \in Contexts, d # c PROVE ContextOK(d)'
  BY <1>1, <1>3 DEF LifeInv, ContextOK, Frame
<1>4. TypeOK'
  <2>1. /\ \A q \in Providers : step'[q] \in ProviderSteps /\ holds'[q] \subseteq ProviderKinds
        /\ \A d \in Contexts : step'[d] \in ContextSteps /\ holds'[d] \subseteq ContextKinds
    BY <1>2, <1>3 DEF ProviderOK, ContextOK, ProviderHolds, ContextHolds
  <2> QED
    BY <2>1 DEF LifeInv, TypeOK, Frame, Kinds
<1> QED
  BY <1>2, <1>3, <1>4 DEF LifeInv, Frame

-----------------------------------------------------------------------------
(* Every step of a provider keeps the invariant: loading, ...              *)
LEMMA LoadKeeps ==
  ASSUME LifeInv, NEW p \in Providers, LoadBegin(p) \/ LoadCallbacks(p) \/ LoadChild(p)
  PROVE  LifeInv'
<1>1. TypeOK /\ Counted /\ ProviderOK(p) /\ p \in Owners
  BY DEF LifeInv, Owners
<1>2. step[p] \notin Loaded /\ ~fetched[p]
  BY <1>1 DEF LoadBegin, LoadCallbacks, LoadChild, Loaded, ProviderOK
<1>3. /\ registered' = registered /\ fetched' = fetched /\ UNCHANGED <<of, evp>>
      /\ errors' \in [Providers -> SUBSET CoreErrorFunctions]
      /\ registered \in [Providers -> SUBSET {Descriptor}]
      /\ fetched \in [Providers -> BOOLEAN]
      /\ \A q \in Providers : q # p => errors'[q] = errors[q]
  BY <1>1 DEF TypeOK, LoadBegin, LoadCallbacks, LoadChild
<1>4. Frame(p) /\ ProviderOK(p)'
  <2>1. CASE LoadBegin(p)
    <3>1. holds[p] = {} /\ Allocate(p, "provctx") /\ Goto(p, "callbacks")
      BY <1>1, <2>1 DEF LoadBegin, ProviderOK, ProviderHolds
    <3>2. Frame(p) /\ step'[p] = "callbacks" /\ holds'[p] = {"provctx"}
      BY <1>1, <3>1, AllocateFrame, ResourceFacts DEF Kinds, ProviderKinds, ProviderSteps
    <3> QED
      BY <1>2, <1>3, <3>2 DEF ProviderOK, ProviderHolds, ProviderKinds, ProviderSteps, Loaded
  <2>2. CASE LoadCallbacks(p)
    <3>1. PICK given \in SUBSET CoreErrorFunctions :
            /\ errors' = [errors EXCEPT ![p] = given]
            /\ Goto(p, IF given = CoreErrorFunctions THEN "child" ELSE "release")
      BY <2>2 DEF LoadCallbacks
    <3> DEFINE s == IF given = CoreErrorFunctions THEN "child" ELSE "release"
    <3>2. holds[p] = {"provctx"} /\ UNCHANGED <<holds, live>>
      BY <1>1, <2>2 DEF LoadCallbacks, ProviderOK, ProviderHolds
    <3>3. s \in ProviderSteps \union ContextSteps
      BY DEF ProviderSteps
    <3>4. Frame(p) /\ step'[p] = s /\ holds'[p] = {"provctx"}
      BY <1>1, <3>1, <3>2, <3>3, PassFrame
    <3>5. errors'[p] = given
      BY <1>1, <3>1 DEF TypeOK
    <3> QED
      BY <1>2, <1>3, <3>4, <3>5 DEF ProviderOK, ProviderHolds, ProviderKinds, ProviderSteps, Loaded
  <2>3. CASE LoadChild(p)
    <3>1. holds[p] = {"provctx"} /\ errors[p] = CoreErrorFunctions /\ errors' = errors
      BY <1>1, <2>3 DEF LoadChild, ProviderOK, ProviderHolds
    <3>2. CASE Allocate(p, "child_libctx") /\ Goto(p, "ready")
      <4>1. Frame(p) /\ step'[p] = "ready" /\ holds'[p] = holds[p] \union {"child_libctx"}
        BY <1>1, <3>1, <3>2, AllocateFrame, ResourceFacts DEF Kinds, ProviderKinds, ProviderSteps
      <4> QED
        BY <3>1, <4>1 DEF ProviderOK, ProviderHolds, ProviderKinds, ProviderSteps, Loaded
    <3>3. CASE Goto(p, "release") /\ UNCHANGED <<holds, live>>
      <4>1. Frame(p) /\ step'[p] = "release" /\ holds'[p] = holds[p]
        BY <1>1, <3>3, PassFrame DEF ProviderSteps
      <4> QED
        BY <1>2, <1>3, <3>1, <4>1 DEF ProviderOK, ProviderHolds, ProviderKinds, ProviderSteps, Loaded
    <3> QED
      BY <2>3, <3>2, <3>3 DEF LoadChild
  <2> QED
    BY <2>1, <2>2, <2>3
<1> QED
  BY <1>2, <1>3, <1>4, ProviderStep

(* ... serving, ...                                                        *)
LEMMA ServeKeeps ==
  ASSUME LifeInv, NEW p \in Providers,
         GetCapabilities(p) \/ (\E name : Fetch(p, name)) \/ DropCipher(p)
  PROVE  LifeInv'
<1>1. TypeOK /\ Counted /\ ProviderOK(p) /\ p \in Owners
  BY DEF LifeInv, Owners
<1>2. /\ UNCHANGED <<step, holds, live, errors, of, evp>>
      /\ errors \in [Providers -> SUBSET CoreErrorFunctions]
      /\ registered' \in [Providers -> SUBSET {Descriptor}]
      /\ fetched' \in [Providers -> BOOLEAN]
      /\ \A q \in Providers : q # p => fetched'[q] = fetched[q]
      /\ fetched'[p] => fetched[p] \/ step[p] = "ready"
  BY <1>1 DEF TypeOK, GetCapabilities, Fetch, DropCipher
<1>3. Frame(p) /\ step'[p] = step[p] /\ holds'[p] = holds[p]
  BY <1>1, <1>2, StillFrame
<1>4. ProviderOK(p)'
  BY <1>1, <1>2, <1>3 DEF ProviderOK, Loaded
<1> QED
  BY <1>2, <1>3, <1>4, ProviderStep

(* ... and going: the references of clients and contexts hold it back.     *)
LEMMA UnloadKeeps ==
  ASSUME LifeInv, NEW p \in Providers, Unload(p) \/ Teardown(p) \/ ReleaseProvider(p)
  PROVE  LifeInv'
<1>1. TypeOK /\ Counted /\ ProviderOK(p) /\ p \in Owners
  BY DEF LifeInv, Owners
<1>2. /\ fetched' = fetched /\ UNCHANGED <<of, evp>>
      /\ errors' \in [Providers -> SUBSET CoreErrorFunctions]
      /\ registered' \in [Providers -> SUBSET {Descriptor}]
      /\ fetched \in [Providers -> BOOLEAN]
      /\ \A q \in Providers : q # p => errors'[q] = errors[q]
  BY <1>1 DEF TypeOK, Unload, Teardown, ReleaseProvider
<1>3. CASE Unload(p)
  <2>1. /\ step[p] = "ready" /\ errors' = errors
        /\ Goto(p, "unloaded") /\ UNCHANGED <<holds, live>>
    BY <1>3 DEF Unload
  <2>2. Frame(p) /\ step'[p] = "unloaded" /\ holds'[p] = holds[p]
    BY <1>1, <2>1, PassFrame DEF ProviderSteps
  <2>3. ProviderOK(p)'
    BY <1>1, <1>2, <2>1, <2>2 DEF ProviderOK, ProviderHolds, ProviderSteps, Loaded
  <2> QED
    BY <1>2, <2>2, <2>3, ProviderStep DEF Loaded
<1>4. CASE Teardown(p)
  <2>1. /\ step[p] = "unloaded" /\ ~fetched[p] /\ \A c \in Contexts : of[c] # p
        /\ Goto(p, "release") /\ UNCHANGED <<holds, live>>
    BY <1>4 DEF Teardown
  <2>2. Frame(p) /\ step'[p] = "release" /\ holds'[p] = holds[p]
    BY <1>1, <2>1, PassFrame DEF ProviderSteps
  <2>3. ProviderOK(p)'
    BY <1>1, <1>2, <2>1, <2>2 DEF ProviderOK, ProviderHolds, ProviderSteps, Loaded
  <2> QED
    BY <1>2, <2>1, <2>2, <2>3, ProviderStep
<1>5. CASE ReleaseProvider(p)
  <2>1. step[p] = "release" /\ ReleaseNext(p, ProviderOrder, "none") /\ ~fetched[p]
    BY <1>1, <1>5 DEF ReleaseProvider, ProviderOK, Loaded
  <2>2. \A i \in DOMAIN ProviderOrder :
          ProviderOrder[i] \in Kinds /\ <<ProviderOrder[i], p>> \in Resources
    BY ProviderOrderFacts, ResourceFacts DEF Kinds
  <2>3. /\ Frame(p)
        /\ \/ /\ "child_libctx" \notin holds[p] /\ "provctx" \notin holds[p]
              /\ step'[p] = "none" /\ holds'[p] = holds[p]
           \/ /\ step'[p] = "release" /\ "child_libctx" \in holds[p]
              /\ holds'[p] = holds[p] \ {"child_libctx"}
           \/ /\ step'[p] = "release" /\ "child_libctx" \notin holds[p]
              /\ holds'[p] = holds[p] \ {"provctx"}
    BY <1>1, <2>1, <2>2, ReleaseFrame, ProviderOrderFacts DEF ProviderSteps
  <2>4. ProviderHolds(step'[p], holds'[p])
    BY <1>1, <2>3 DEF ProviderOK, ProviderHolds, ProviderKinds, ProviderSteps, Loaded
  <2>5. step'[p] \notin Loaded \union {"child"}
    BY <2>3 DEF Loaded
  <2>6. ProviderOK(p)'
    BY <1>2, <2>1, <2>4, <2>5 DEF ProviderOK
  <2> QED
    BY <1>2, <2>1, <2>3, <2>6, ProviderStep DEF Loaded
<1> QED
  BY <1>3, <1>4, <1>5

-----------------------------------------------------------------------------
(* Every step of a context does: newctx, ...                               *)
LEMMA NewKeeps ==
  ASSUME LifeInv, NEW c \in Contexts,
         (\E p \in Providers : NewContext(c, p)) \/ NewContextStep(c)
         \/ CheckInner(c) \/ CheckContext(c)
  PROVE  LifeInv'
<1>1. TypeOK /\ Counted /\ ContextOK(c) /\ c \in Owners /\ c \notin Providers
  BY OwnerAssumption DEF LifeInv, Owners
<1>2. /\ of \in [Contexts -> Providers \union {NoProvider}]
      /\ evp \in [Contexts -> [initialized : BOOLEAN, bound : BOOLEAN]]
  BY <1>1 DEF TypeOK
<1>3. CASE \E p \in Providers : NewContext(c, p)
  <2>1. PICK p \in Providers : NewContext(c, p)
    BY <1>3
  <2>2. /\ step[c] = "none" /\ holds[c] = {} /\ step[p] \in Loaded /\ p # c
        /\ Allocate(c, "cipher_ctx") /\ Goto(c, "lock")
        /\ of' = [of EXCEPT ![c] = p]
        /\ evp' = [evp EXCEPT ![c] = [initialized |-> FALSE, bound |-> FALSE]]
        /\ UNCHANGED <<errors, registered, fetched>>
    BY <1>1, <2>1 DEF NewContext, ContextOK, ContextHolds, LifeInv, ProviderOK
  <2>3. Frame(c) /\ step'[c] = "lock" /\ holds'[c] = {"cipher_ctx"}
    BY <1>1, <2>2, AllocateFrame, ResourceFacts DEF Kinds, ContextKinds, ContextSteps
  <2>4. step'[p] \in Loaded
    BY <2>2, <2>3 DEF Frame, Owners
  <2>5. ContextHolds(step'[c], holds'[c])
    BY <2>3 DEF ContextHolds, ContextKinds, ContextSteps
  <2>6. of'[c] = p /\ ~evp'[c].initialized
    BY <1>2, <2>2
  <2>7. ContextOK(c)'
    BY <2>3, <2>4, <2>5, <2>6 DEF ContextOK
  <2> QED
    BY <1>2, <2>2, <2>3, <2>7, ContextStep
<1>4. ASSUME step[c] # "none", UNCHANGED <<errors, registered, fetched, of, evp>>,
             Frame(c), step'[c] # "none", ContextHolds(step'[c], holds'[c])
      PROVE  LifeInv'
  <2>1. of[c] \in Providers /\ step[of[c]] \in Loaded /\ of[c] \in Owners /\ of[c] # c
    BY <1>1, <1>4 DEF ContextOK, Owners
  <2>2. ContextOK(c)'
    BY <1>1, <1>4, <2>1 DEF ContextOK, Frame
  <2> QED
    BY <1>2, <1>4, <2>2, ContextStep
<1>5. CASE NewContextStep(c)
  <2> DEFINE s == step[c]
             kind == Allocation(s).kind
             next == Allocation(s).next
  <2>1. s \in Allocating /\ UNCHANGED <<errors, registered, fetched, of, evp>>
    BY <1>5 DEF NewContextStep
  <2>2. /\ s = "lock" => kind = "usage_lock" /\ next = "inner"
        /\ s = "inner" => kind = "evp_inner" /\ next = "cipher"
        /\ s = "cipher" => kind = "evp_cipher" /\ next = "cipher_ctx"
        /\ s = "cipher_ctx" => kind = "evp_cipher_ctx" /\ next = "inner_check"
    BY DEF Allocation
  <2>3. ContextHolds(s, holds[c]) /\ s # "none"
    BY <1>1, <2>1 DEF ContextOK, Allocating
  <2>4. CASE Allocate(c, kind) /\ Goto(c, next)
    <3>1. /\ kind \in ContextKinds /\ kind \notin holds[c] /\ next \in ContextSteps
      BY <2>1, <2>2, <2>3 DEF Allocating, ContextHolds, ContextKinds, ContextSteps
    <3>2. Frame(c) /\ step'[c] = next /\ holds'[c] = holds[c] \union {kind}
      BY <1>1, <2>4, <3>1, AllocateFrame, ResourceFacts DEF Kinds
    <3> HIDE DEF kind, next
    <3>3. next # "none" /\ ContextHolds(next, holds[c] \union {kind})
      BY <2>1, <2>2, <2>3 DEF Allocating, ContextHolds, ContextKinds, ContextSteps
    <3> QED
      BY <1>4, <2>1, <2>3, <3>2, <3>3
  <2>5. CASE Goto(c, IF s = "inner" THEN "check" ELSE next) /\ UNCHANGED <<holds, live>>
    <3> DEFINE after == IF s = "inner" THEN "check" ELSE next
    <3>1. after \in ContextSteps
      BY <2>1, <2>2 DEF Allocating, ContextSteps
    <3>2. Frame(c) /\ step'[c] = after /\ holds'[c] = holds[c]
      BY <1>1, <2>5, <3>1, PassFrame
    <3> HIDE DEF kind, next
    <3>3. after # "none" /\ ContextHolds(after, holds[c])
      BY <2>1, <2>2, <2>3 DEF Allocating, ContextHolds, ContextKinds, ContextSteps
    <3> QED
      BY <1>4, <2>1, <2>3, <3>2, <3>3
  <2> QED
    BY <1>5, <2>4, <2>5 DEF NewContextStep
<1>6. CASE CheckInner(c) \/ CheckContext(c)
  <2> DEFINE s == IF step[c] = "inner_check"
                  THEN IF {"evp_cipher", "evp_cipher_ctx"} \subseteq holds[c]
                       THEN "check" ELSE "inner_release"
                  ELSE IF Complete(c) THEN "ready" ELSE "release"
  <2>1. /\ step[c] \in {"inner_check", "check"} /\ Goto(c, s) /\ UNCHANGED <<holds, live>>
        /\ UNCHANGED <<errors, registered, fetched, of, evp>>
    BY <1>6 DEF CheckInner, CheckContext
  <2>2. s \in ContextSteps /\ s # "none"
    BY DEF ContextSteps
  <2>3. Frame(c) /\ step'[c] = s /\ holds'[c] = holds[c]
    BY <1>1, <2>1, <2>2, PassFrame
  <2>4. ContextHolds(s, holds[c])
    BY <1>1, <2>1 DEF ContextOK, ContextHolds, ContextSteps, ContextKinds, Complete
  <2> QED
    BY <1>4, <2>1, <2>2, <2>3, <2>4
<1> QED
  BY <1>3, <1>5, <1>6

(* ... using the context, ...                                              *)
LEMMA UseKeeps ==
  ASSUME LifeInv, NEW c \in Contexts, (\E ok \in BOOLEAN : InnerInit(c, ok)) \/ FreeContext(c)
  PROVE  LifeInv'
<1>1. TypeOK /\ Counted /\ ContextOK(c) /\ c \in Owners /\ c \notin Providers
  BY OwnerAssumption DEF LifeInv, Owners
<1>2. /\ of \in [Contexts -> Providers \union {NoProvider}]
      /\ evp \in [Contexts -> [initialized : BOOLEAN, bound : BOOLEAN]]
      /\ step[c] = "ready" /\ of[c] \in Providers /\ of[c] \in Owners /\ of[c] # c
      /\ UNCHANGED <<errors, registered, fetched, of>>
  BY <1>1 DEF TypeOK, InnerInit, FreeContext, ContextOK, Owners
<1>3. CASE \E ok \in BOOLEAN : InnerInit(c, ok)
  <2>1. PICK ok \in BOOLEAN : InnerInit(c, ok)
    BY <1>3
  <2>2. PICK bound \in {evp[c].bound, evp[c].bound \/ ~evp[c].initialized} :
          (ok => bound) /\ evp' = [evp EXCEPT ![c] = Initialised(@, ok, bound)]
    BY <2>1 DEF InnerInit
  <2>3. evp[c].initialized \in BOOLEAN /\ evp[c].bound \in BOOLEAN /\ bound \in BOOLEAN
    BY <1>2
  <2>4. /\ Initialised(evp[c], ok, bound) \in [initialized : BOOLEAN, bound : BOOLEAN]
        /\ Initialised(evp[c], ok, bound).initialized = (evp[c].initialized \/ ok)
        /\ Initialised(evp[c], ok, bound).bound = bound
    BY <2>3 DEF Initialised
  <2>5. evp[c].initialized => bound
    BY <1>1, <2>2, <2>3 DEF ContextOK
  <2>6. /\ evp' \in [Contexts -> [initialized : BOOLEAN, bound : BOOLEAN]]
        /\ evp'[c].initialized => evp'[c].bound
        /\ \A d \in Contexts : d # c => evp'[d] = evp[d]
    BY <1>2, <2>2, <2>3, <2>4, <2>5
  <2>7. Frame(c) /\ step'[c] = step[c] /\ holds'[c] = holds[c]
    BY <1>1, <2>1, StillFrame DEF InnerInit
  <2>8. ContextOK(c)'
    BY <1>1, <1>2, <2>6, <2>7 DEF ContextOK, Frame
  <2> QED
    BY <1>2, <2>6, <2>7, <2>8, ContextStep
<1>4. CASE FreeContext(c)
  <2>1. Goto(c, "release") /\ UNCHANGED <<holds, live, evp>>
    BY <1>4 DEF FreeContext
  <2>2. Frame(c) /\ step'[c] = "release" /\ holds'[c] = holds[c]
    BY <1>1, <2>1, PassFrame DEF ContextSteps
  <2>3. ContextHolds(step'[c], holds'[c])
    BY <1>1, <1>2, <2>2 DEF ContextOK, ContextHolds, ContextKinds, ContextSteps
  <2>4. ContextOK(c)'
    BY <1>1, <1>2, <2>1, <2>2, <2>3 DEF ContextOK, Frame
  <2> QED
    BY <1>2, <2>1, <2>2, <2>4, ContextStep
<1> QED
  BY <1>3, <1>4

(* ... and releasing it, or the inner structure of a failed newctx.        *)
LEMMA ReleaseKeeps ==
  ASSUME LifeInv, NEW c \in Contexts, ReleaseInner(c) \/ ReleaseContext(c)
  PROVE  LifeInv'
<1>1. TypeOK /\ Counted /\ ContextOK(c) /\ c \in Owners /\ c \notin Providers
  BY OwnerAssumption DEF LifeInv, Owners
<1>2. /\ of \in [Contexts -> Providers \union {NoProvider}]
      /\ evp \in [Contexts -> [initialized : BOOLEAN, bound : BOOLEAN]]
      /\ step[c] \in {"inner_release", "release"}
      /\ of[c] \in Providers /\ of[c] \in Owners /\ of[c] # c /\ step[of[c]] \in Loaded
      /\ UNCHANGED <<errors, registered, fetched, evp>>
  BY <1>1 DEF TypeOK, ReleaseInner, ReleaseContext, ContextOK, Owners
<1>3. \A i \in 1..5 : /\ ContextOrder[i] \in ContextKinds
                      /\ ContextOrder[i] \in Kinds /\ <<ContextOrder[i], c>> \in Resources
  BY ContextOrderFacts, ResourceFacts DEF Kinds
<1>4. CASE ReleaseInner(c)
  <2>1. step[c] = "inner_release" /\ ReleaseNext(c, InnerOrder, "check") /\ of' = of
    BY <1>4 DEF ReleaseInner
  <2>2. \A i \in DOMAIN InnerOrder :
          InnerOrder[i] \in Kinds /\ <<InnerOrder[i], c>> \in Resources
    BY InnerOrderFacts, ResourceFacts DEF Kinds
  <2>3. /\ Frame(c)
        /\ \/ /\ {"evp_cipher_ctx", "evp_cipher", "evp_inner"} \cap holds[c] = {}
              /\ step'[c] = "check" /\ holds'[c] = holds[c]
           \/ /\ step'[c] = "inner_release"
              /\ holds'[c] = holds[c] \ {"evp_cipher_ctx"}
           \/ /\ step'[c] = "inner_release" /\ "evp_cipher_ctx" \notin holds[c]
              /\ holds'[c] = holds[c] \ {"evp_cipher"}
           \/ /\ step'[c] = "inner_release"
              /\ "evp_cipher_ctx" \notin holds[c] /\ "evp_cipher" \notin holds[c]
              /\ holds'[c] = holds[c] \ {"evp_inner"}
    BY <1>1, <2>1, <2>2, ReleaseFrame, InnerOrderFacts DEF ContextSteps
  <2>4. ContextHolds(step'[c], holds'[c])
    BY <1>1, <2>1, <2>3 DEF ContextOK, ContextHolds, ContextKinds, ContextSteps
  <2>5. step'[c] # "none"
    BY <2>3
  <2>6. ContextOK(c)'
    BY <1>1, <1>2, <2>1, <2>3, <2>4, <2>5 DEF ContextOK, Frame
  <2> QED
    BY <1>2, <2>1, <2>3, <2>6, ContextStep
<1>5. CASE ReleaseContext(c)
  <2>1. /\ step[c] = "release" /\ ReleaseNext(c, ContextOrder, "none")
        /\ of' = [of EXCEPT ![c] = IF step'[c] = "none" THEN NoProvider ELSE @]
    BY <1>5 DEF ReleaseContext
  <2>2. \A i \in DOMAIN ContextOrder :
          ContextOrder[i] \in Kinds /\ <<ContextOrder[i], c>> \in Resources
    BY <1>3, ContextOrderFacts
  <2>3. /\ Frame(c)
        /\ \/ /\ ContextKinds \cap holds[c] = {} /\ step'[c] = "none" /\ holds'[c] = holds[c]
           \/ /\ step'[c] = "release"
              /\ \E kind \in ContextKinds :
                   /\ holds'[c] = holds[c] \ {kind}
                   /\ kind = "evp_inner" =>
                        {"evp_cipher", "evp_cipher_ctx"} \cap holds[c] = {}
                   /\ kind = "cipher_ctx" => holds[c] \subseteq {"cipher_ctx"}
    <3>1. /\ Frame(c)
          /\ \/ /\ \A i \in 1..5 : ContextOrder[i] \notin holds[c]
                /\ step'[c] = "none" /\ holds'[c] = holds[c]
             \/ \E i \in 1..5 :
                  /\ ContextOrder[i] \in holds[c]
                  /\ \A j \in 1..5 : ContextOrder[j] \in holds[c] => i <= j
                  /\ step'[c] = "release" /\ holds'[c] = holds[c] \ {ContextOrder[i]}
      BY <1>1, <2>1, <2>2, ReleaseFrame, ContextOrderFacts DEF ContextSteps
    <3>2. holds[c] \subseteq ContextKinds
      BY <1>1 DEF ContextOK, ContextHolds
    <3>3. CASE \A i \in 1..5 : ContextOrder[i] \notin holds[c]
      <4>1. ContextKinds \cap holds[c] = {}
        BY <3>3, ContextOrderFacts DEF ContextKinds
      <4> QED
        BY <3>1, <3>3, <4>1
    <3>4. ASSUME NEW i \in 1..5, ContextOrder[i] \in holds[c],
                 \A j \in 1..5 : ContextOrder[j] \in holds[c] => i <= j
          PROVE  /\ ContextOrder[i] = "evp_inner" =>
                      {"evp_cipher", "evp_cipher_ctx"} \cap holds[c] = {}
                 /\ ContextOrder[i] = "cipher_ctx" => holds[c] \subseteq {"cipher_ctx"}
      BY <3>2, <3>4, ContextOrderFacts DEF ContextKinds
    <3> QED
      BY <1>3, <3>1, <3>3, <3>4
  <2>4. ContextHolds(step'[c], holds'[c])
    BY <1>1, <2>1, <2>3 DEF ContextOK, ContextHolds, ContextKinds, ContextSteps
  <2>5. /\ of' \in [Contexts -> Providers \union {NoProvider}]
        /\ of'[c] = IF step'[c] = "none" THEN NoProvider ELSE of[c]
        /\ \A d \in Contexts : d # c => of'[d] = of[d]
    BY <1>2, <2>1
  <2>6. ContextOK(c)'
    BY <1>1, <1>2, <2>3, <2>4, <2>5 DEF ContextOK, Frame
  <2> QED
    BY <1>2, <2>3, <2>5, <2>6, ContextStep
<1> QED
  BY <1>4, <1>5

-----------------------------------------------------------------------------
(* Before anything is loaded nothing is held.                              *)
LEMMA InitLifeInv == Init => LifeInv
<1> SUFFICES ASSUME Init PROVE LifeInv
  OBVIOUS
<1>1. \A o \in Owners : step[o] = "none" /\ holds[o] = {}
  BY DEF Init
<1>2. TypeOK
  BY <1>1 DEF Init, TypeOK, Owners, ProviderSteps, ContextSteps
<1>3. Counted
  BY <1>1, ResourceFacts DEF Init, Counted
<1>4. \A p \in Providers : ProviderOK(p)
  BY <1>1 DEF Init, ProviderOK, ProviderHolds, ProviderSteps, Loaded, Owners
<1>5. \A c \in Contexts : ContextOK(c)
  BY <1>1 DEF Init, ContextOK, ContextHolds, ContextSteps, Owners
<1> QED
  BY <1>2, <1>3, <1>4, <1>5 DEF LifeInv

(* Every step keeps it.                                                    *)
LEMMA NextLifeInv == LifeInv /\ [Next]_vars => LifeInv'
<1> SUFFICES ASSUME LifeInv, [Next]_vars PROVE LifeInv'
  OBVIOUS
<1>1. CASE \E p \in Providers : ProviderNext(p)
  BY <1>1, LoadKeeps, ServeKeeps, UnloadKeeps DEF ProviderNext
<1>2. CASE \E c \in Contexts : ContextNext(c)
  BY <1>2, NewKeeps, UseKeeps, ReleaseKeeps DEF ContextNext
<1>3. CASE UNCHANGED vars
  BY <1>3 DEF vars, LifeInv, TypeOK, Counted, ProviderOK, ContextOK
<1> QED
  BY <1>1, <1>2, <1>3 DEF Next

(* The invariant holds for any number of providers and contexts.           *)
THEOREM LifeInvariant == Spec => []LifeInv
<1> QED
  BY InitLifeInv, NextLifeInv, PTL DEF Spec

(* No resource is allocated over one that is still there, and none is      *)
(* released twice, on any of the paths that fail.                          *)
THEOREM ProviderTypeCorrect == Spec => []TypeOK
<1>1. LifeInv => TypeOK
  BY DEF LifeInv
<1> QED
  BY <1>1, LifeInvariant, PTL

(* What is allocated some pointer still reaches, and nothing is left of a  *)
(* load or a newctx that failed, a freed context or a provider torn down.  *)
THEOREM NoLeak == Spec => []NothingLeaks
<1>1. LifeInv => NothingLeaks
  <2> SUFFICES ASSUME LifeInv PROVE NothingLeaks
    OBVIOUS
  <2>1. \A o \in Owners : step[o] = "none" => holds[o] = {}
    BY DEF LifeInv, Owners, ProviderOK, ContextOK, ProviderHolds, ContextHolds
  <2> QED
    BY <2>1 DEF LifeInv, NothingLeaks, Counted
<1> QED
  BY <1>1, LifeInvariant, PTL

(* A resource goes before the structure that points to it, and the inner   *)
(* cipher of a context before the child library context of its provider,   *)
(* whatever the other threads load, unload, create and free.               *)
THEOREM NoDangling == Spec => []NothingDangles
<1>1. LifeInv => NothingDangles
  <2> SUFFICES ASSUME LifeInv, NEW r \in Resources, live[r] = 1,
                      NEW s \in Supports(r[1], r[2])
               PROVE  live[s] = 1
    BY DEF NothingDangles
  <2>1. r = <<r[1], r[2]>> /\ r[1] \in holds[r[2]]
    BY ResourceFacts DEF LifeInv, Counted
  <2>2. CASE r[2] \in Providers /\ r[1] \in ProviderKinds
    <3>1. s = <<"provctx", r[2]>> /\ "provctx" \in holds[r[2]]
      BY <2>1, <2>2 DEF LifeInv, ProviderOK, ProviderHolds, ProviderKinds, Supports
    <3> QED
      BY <2>2, <3>1, ResourceFacts DEF LifeInv, Counted, ProviderKinds
  <2>3. CASE r[2] \in Contexts /\ r[1] \in ContextKinds
    <3> DEFINE c == r[2]
    <3>1. ContextOK(c) /\ holds[c] # {}
      BY <2>1, <2>3 DEF LifeInv
    <3>2. of[c] \in Providers /\ holds[of[c]] = ProviderKinds
      BY <3>1 DEF ContextOK, ContextHolds, LifeInv, ProviderOK, ProviderHolds
    <3>3. \/ s = <<"provctx", of[c]>> \/ s = <<"child_libctx", of[c]>>
          \/ s = <<"cipher_ctx", c>>
          \/ s = <<"evp_inner", c>> /\ r[1] \in {"evp_cipher", "evp_cipher_ctx"}
      BY <2>3 DEF Supports, ContextKinds
    <3>4. CASE s = <<"provctx", of[c]>> \/ s = <<"child_libctx", of[c]>>
      BY <3>2, <3>4, ResourceFacts DEF LifeInv, Counted, ProviderKinds
    <3>5. CASE s = <<"cipher_ctx", c>>
      <4>1. "cipher_ctx" \in holds[c]
        BY <3>1 DEF ContextOK, ContextHolds
      <4> QED
        BY <2>3, <3>5, <4>1, ResourceFacts DEF LifeInv, Counted, ContextKinds
    <3>6. CASE s = <<"evp_inner", c>> /\ r[1] \in {"evp_cipher", "evp_cipher_ctx"}
      <4>1. "evp_inner" \in holds[c]
        BY <2>1, <3>1, <3>6 DEF ContextOK, ContextHolds
      <4> QED
        BY <2>3, <3>6, <4>1, ResourceFacts DEF LifeInv, Counted, ContextKinds
    <3> QED
      BY <3>3, <3>4, <3>5, <3>6
  <2> QED
    BY <2>2, <2>3 DEF Resources
<1> QED
  BY <1>1, LifeInvariant, PTL

(* A context a caller can use is whole, its provider is loaded and can     *)
(* report errors, and the wrapper stops passing the inner cipher on only   *)
(* when the inner context has it.                                          *)
THEOREM WholeWhenReady == Spec => []ReadyIsWhole
<1>1. LifeInv => ReadyIsWhole
  <2> SUFFICES ASSUME LifeInv, NEW c \in Contexts, step[c] = "ready"
               PROVE  /\ holds[c] = ContextKinds
                      /\ step[of[c]] \in Loaded
                      /\ errors[of[c]] = CoreErrorFunctions
                      /\ evp[c].initialized => evp[c].bound
    BY DEF ReadyIsWhole, Loaded
  <2>1. ContextOK(c)
    BY DEF LifeInv
  <2> QED
    BY <2>1 DEF ContextOK, ContextHolds, LifeInv, ProviderOK
<1> QED
  BY <1>1, LifeInvariant, PTL

=============================================================================
