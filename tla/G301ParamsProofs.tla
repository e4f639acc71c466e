-------------------------- MODULE G301ParamsProofs --------------------------
(***************************************************************************)
(* The parameter lists, for every set of entries and lists of any length:  *)
(* G301Params implements G301Cipher, so that the theorems about the cipher *)
(* context hold whatever lists the calls bring, and what it promises of a  *)
(* refused, an accepted and an answered list is true.                      *)
(***************************************************************************)
EXTENDS G301Params, G301CipherProofs, FiniteSetTheorems

-----------------------------------------------------------------------------
(* Lists.                                                                  *)

(* A list has finitely many entries, each of them one of Entries.          *)
LEMMA ListFacts ==
  ASSUME NEW list \in Lists
  PROVE  \E n \in Nat : list \in [1..n -> Entries] /\ DOMAIN list = 1..n
  BY MaxParamsAssumption DEF Lists

(* The entries of a name that may stand once are one entry: the first.     *)
LEMMA OnlyEntry ==
  ASSUME NEW list \in Lists, NEW names, ~HasDuplicate(list, names),
         NEW i \in DOMAIN list, list[i].name \in names
  PROVE  /\ Has(list, list[i].name)
         /\ Positions(list, list[i].name) = {i}
         /\ Locate(list, list[i].name) = i
<1> DEFINE p == Positions(list, list[i].name)
<1>1. PICK n \in Nat : DOMAIN list = 1..n
  BY ListFacts
<1>2. IsFiniteSet(p) /\ Cardinality(p) \in Nat
  <2>1. p \in SUBSET (1..n) /\ IsFiniteSet(1..n)
    BY <1>1, FS_Interval DEF Positions
  <2> QED
    BY <2>1, FS_Subset, FS_CardinalityType
<1>3. i \in p /\ ~(Cardinality(p) > 1)
  BY DEF Positions, HasDuplicate
<1> HIDE DEF p
<1>4. Cardinality(p) # 0
  BY <1>2, <1>3, FS_EmptySet
<1>5. Cardinality(p) = 1
  BY <1>2, <1>3, <1>4
<1>6. p = {i}
  BY <1>2, <1>3, <1>5, FS_Singleton
<1>7. i \in Nat
  BY <1>1
<1>8. (CHOOSE k \in {i} : \A j \in {i} : k <= j) = i
  BY <1>7
<1> QED
  BY <1>6, <1>8 DEF p, Has, Locate

(* The lengths a list without duplicates has are right when they are fixed.*)
LEMMA FixedEntries ==
  ASSUME NEW list \in Lists, ~HasDuplicate(list, Single), ~Forbidden(list),
         LengthsFixed(list), TagFixed(list)
  PROVE  \A i \in DOMAIN list :
           /\ list[i].name # "legacy"
           /\ list[i].name \in Single =>
                /\ list[i].value = "fixed"
                /\ Positions(list, list[i].name) = {i}
<1> SUFFICES ASSUME NEW i \in DOMAIN list
             PROVE  /\ list[i].name # "legacy"
                    /\ list[i].name \in Single =>
                         /\ list[i].value = "fixed"
                         /\ Positions(list, list[i].name) = {i}
  OBVIOUS
<1>1. list[i].name # "legacy"
  BY DEF Forbidden, Has, Positions
<1>2. ASSUME list[i].name \in Single
      PROVE  list[i].value = "fixed" /\ Positions(list, list[i].name) = {i}
  <2>1. /\ Has(list, list[i].name) /\ Positions(list, list[i].name) = {i}
        /\ Locate(list, list[i].name) = i
    BY <1>2, OnlyEntry
  <2> QED
    BY <1>2, <2>1 DEF Single, LengthsFixed, TagFixed
<1> QED
  BY <1>1, <1>2

(* What goes on to the inner context is fixed, and the tag is the caller's.*)
LEMMA FilteredFacts ==
  ASSUME NEW list \in Lists, TagFixed(list)
  PROVE  \A i \in DOMAIN Filtered(list) :
           /\ Filtered(list)[i].value = "fixed"
           /\ Filtered(list)[i].name = "tag" => Has(list, "tag")
<1> DEFINE length == [name |-> "ivlen", value |-> "fixed"]
           tag == list[Locate(list, "tag")]
<1>1. length.value = "fixed" /\ length.name # "tag"
  OBVIOUS
<1>2. Has(list, "tag") => tag.value = "fixed"
  BY DEF TagFixed
<1>3. Filtered(list) = (IF Has(list, "ivlen") THEN <<length>> ELSE <<>>)
                         \o (IF Has(list, "tag") THEN <<tag>> ELSE <<>>)
  BY DEF Filtered
<1> HIDE DEF length, tag
<1>4. CASE Has(list, "tag") /\ Has(list, "ivlen")
  <2>1. Filtered(list) = <<length>> \o <<tag>>
    BY <1>3, <1>4
  <2>2. /\ <<length>> \in Seq({length, tag}) /\ <<tag>> \in Seq({length, tag})
        /\ Len(<<length>>) = 1 /\ Len(<<tag>>) = 1
    OBVIOUS
  <2>3. /\ DOMAIN Filtered(list) = 1..2
        /\ \A i \in 1..2 : Filtered(list)[i] \in {length, tag}
    BY <2>1, <2>2
  <2> QED
    BY <1>1, <1>2, <1>4, <2>3
<1>5. CASE Has(list, "tag") /\ ~Has(list, "ivlen")
  <2>1. Filtered(list) = <<tag>>
    BY <1>3, <1>5
  <2> QED
    BY <1>2, <1>5, <2>1
<1>6. CASE ~Has(list, "tag") /\ Has(list, "ivlen")
  <2>1. Filtered(list) = <<length>>
    BY <1>3, <1>6
  <2> QED
    BY <1>1, <2>1
<1>7. CASE ~Has(list, "tag") /\ ~Has(list, "ivlen")
  <2>1. Filtered(list) = <<>>
    BY <1>3, <1>7
  <2> QED
    BY <2>1
<1> QED
  BY <1>4, <1>5, <1>6, <1>7

-----------------------------------------------------------------------------
(* The calls.                                                              *)

(* The call G301Cipher sees of an initialisation with a list.              *)
CallOf(a, list) ==
  [key |-> a.key, iv |-> a.iv, encrypt |-> a.encrypt,
   tag |-> IF Has(list, "tag") THEN "valid" ELSE "absent",
   args_ok |-> TRUE]

Turn(a) == HasKey(a) \/ DirectionChange(ctx, a)

Valid(a, list) == a.lengths_ok /\ InitValid(list, a)

(* An initialisation is refused for its arguments, or is that call.        *)
LEMMA InitWithMeans ==
  ASSUME NEW a \in InitArguments, NEW list \in Lists, InitWith(a, list)
  PROVE  /\ \/ ~Valid(a, list) /\ InitRefusal(a, list, Has(list, "tag"))
            \/ Valid(a, list) /\ CipherInit(CallOf(a, list))
         /\ RequestedOn(Turn(a), "init", list,
              IF Valid(a, list) /\ InitReachesInner(CallOf(a, list))
              THEN Filtered(list) ELSE <<>>, {})
<1>1. a.lengths_ok \in BOOLEAN
  BY DEF InitArguments
<1>2. CASE ~a.lengths_ok
  BY <1>1, <1>2, Zenon DEF InitWith, Valid, CallOf, Turn, NotesTag
<1>3. CASE a.lengths_ok /\ ~InitValid(list, a)
  BY <1>1, <1>3, Zenon DEF InitWith, Valid, CallOf, Turn, NotesTag
<1>4. CASE a.lengths_ok /\ InitValid(list, a)
  BY <1>1, <1>4, Zenon DEF InitWith, Valid, CallOf, Turn, NotesTag
<1> QED
  BY <1>2, <1>3, <1>4

(* It is one of the calls of G301Cipher.                                   *)
LEMMA CallOfFacts ==
  ASSUME NEW a \in InitArguments, NEW list \in Lists
  PROVE  /\ CallOf(a, list) \in InitCalls
         /\ CallOf(a, list).encrypt = a.encrypt
         /\ Valid(a, list) => /\ ValidArguments(ctx, CallOf(a, list))
                              /\ Has(list, "tag") => /\ ~a.encrypt
                                                     /\ ~LacksKey(ctx, CallOf(a, list))
         /\ HasTag(CallOf(a, list)) <=> Has(list, "tag")
         /\ Turn(CallOf(a, list)) <=> Turn(a)
  BY DEF CallOf, InitArguments, InitCalls, Valid, InitValid, ValidArguments,
         LacksKey, HasTag, HasKey, Turn, DirectionChange

(* A tag that is refused twice is dropped once, and likewise a record.     *)
LEMMA RefusedTwice ==
  /\ DropTag(DropTag(ctx)) = DropTag(ctx)
  /\ DropTag(InvalidateRecord(DropTag(ctx))) = InvalidateRecord(ctx)
  BY DEF DropTag, InvalidateRecord

(* A refused initialisation is refused by G301Cipher too.                  *)
LEMMA RefusalIsRefused ==
  ASSUME NEW a \in InitArguments, NEW list \in Lists,
         InitRefusal(a, list, Has(list, "tag"))
  PROVE  \E call \in InitCalls : InitRefused(call)
<1> DEFINE call == [CallOf(a, list) EXCEPT !.args_ok = FALSE]
<1>1. /\ call \in InitCalls /\ ~call.args_ok
      /\ HasTag(call) <=> Has(list, "tag")
      /\ HasKey(call) <=> HasKey(a)
      /\ DirectionChange(ctx, call) <=> DirectionChange(ctx, a)
  BY CallOfFacts DEF CallOf, InitCalls, HasTag, HasKey, DirectionChange, InitArguments
<1> HIDE DEF call
<1>2. ctx' = RefuseInit(ctx, call)
  BY <1>1, RefusedTwice DEF InitRefusal, RefuseInit
<1> QED
  BY <1>1, <1>2 DEF InitRefusal, InitRefused, ValidArguments

(* A call with a list is a call of G301Cipher.                             *)
LEMMA ParamsStep == ParamsNext => Next
<1> SUFFICES ASSUME ParamsNext PROVE Next
  OBVIOUS
<1>1. ASSUME NEW a \in InitArguments, NEW list \in Lists, InitWith(a, list)
      PROVE  \E call \in InitCalls : CipherInit(call)
  BY <1>1, InitWithMeans, CallOfFacts, RefusalIsRefused, Zenon DEF CipherInit
<1>2. ASSUME NEW list \in Lists, SetRefused(list)
      PROVE  SetTag \/ \E ok \in BOOLEAN : SetOther(ok)
  BY <1>2 DEF SetRefused, DropNamedTag, SetTag, TagRefused, SetOther
<1>3. ASSUME NEW list \in Lists, SetAccepted(list)
      PROVE  SetTag \/ \E ok \in BOOLEAN : SetOther(ok)
  BY <1>3 DEF SetAccepted, SetTag
<1>4. ASSUME NEW list \in Lists, GetRefused(list) \/ GetAnswered(list)
      PROVE  GetTag \/ \E ok \in BOOLEAN : GetOther(ok)
  <2>1. Answerable(list, ContextOrder) \in BOOLEAN
    BY DEF Answerable
  <2> QED
    BY <1>4, <2>1 DEF GetRefused, GetAnswered, GetTag
<1>5. ASSUME NEW list \in Lists, GetStatic(list)
      PROVE  \E ok \in BOOLEAN : GetOther(ok)
  BY <1>5, Zenon DEF GetStatic, Answerable, HasDuplicate
<1>6. CASE WithoutList
  BY <1>6 DEF WithoutList, Next
<1> QED
  BY <1>1, <1>2, <1>3, <1>4, <1>5, <1>6, Zenon DEF ParamsNext, Next

(* ImplementsCipher: whatever lists the calls bring, the context goes      *)
(* through the states of G301Cipher.                                       *)
THEOREM CipherImplemented == ParamsSpec => ImplementsCipher
<1>1. ParamsInit => Init
  BY DEF ParamsInit
<1>2. [ParamsNext]_paramVars => [Next]_vars
  BY ParamsStep DEF paramVars
<1> QED
  BY <1>1, <1>2, PTL DEF ParamsSpec, ImplementsCipher, Spec

-----------------------------------------------------------------------------
(* What comes of a list.                                                   *)

(* An initialisation that is taken either succeeds in its own direction or *)
(* leaves no record and no tag.                                            *)
LEMMA InitOutcome ==
  ASSUME TypeOK, NEW a \in InitCalls, CipherInit(a)
  PROVE  /\ ret'.ok \in BOOLEAN
         /\ ret'.ok => ctx'.encrypt = a.encrypt
         /\ ~ret'.ok /\ InitReachesInner(a)
              => ctx'.phase = "NO_RECORD" /\ ~ctx'.decrypt_tag_current
<1>1. ctx \in Context
  BY DEF TypeOK
<1>2. CASE InitRefused(a)
  BY <1>2 DEF InitRefused, InitReachesInner, Returns
<1>3. CASE InitInnerFails(a) \/ InitRecordKeyFails(a)
  <2>1. BeginInit(ctx, a) \in Context /\ ctx' = DropRecord(BeginInit(ctx, a))
    BY <1>1, <1>3, BeginInitFacts DEF InitInnerFails, InitRecordKeyFails
  <2>2. ctx'.phase = "NO_RECORD" /\ ~ctx'.decrypt_tag_current
    BY <2>1, ContextShaped, NoTagFacts
  <2>3. Returns("init", FALSE)
    BY <1>3, Zenon DEF InitInnerFails, InitRecordKeyFails
  <2> QED
    BY <2>2, <2>3 DEF Returns
<1>4. CASE InitInstallFails(a)
  <2>1. CommitInit(ctx, a) \in Context /\ ctx' = DropRecord(CommitInit(ctx, a))
    BY <1>1, <1>4, CommitInitFacts DEF InitInstallFails
  <2>2. ctx'.phase = "NO_RECORD" /\ ~ctx'.decrypt_tag_current
    BY <2>1, ContextShaped, NoTagFacts
  <2> QED
    BY <1>4, <2>2 DEF InitInstallFails, Returns
<1>5. CASE InitWithoutRecord(a)
  <2>1. /\ CommitInit(ctx, a) \in Context /\ CommitInit(ctx, a).encrypt = a.encrypt
        /\ ctx' = InvalidateRecord(CommitInit(ctx, a))
    BY <1>1, <1>5, CommitInitFacts DEF InitWithoutRecord
  <2>2. ctx'.encrypt = a.encrypt
    BY <2>1 DEF InvalidateRecord, Context
  <2> QED
    BY <1>5, <2>2 DEF InitWithoutRecord, Returns
<1>6. CASE InitRecord(a)
  <2>1. PICK c \in Context : c.encrypt = a.encrypt /\ ctx' = OpenRecord(c, a)
    BY <1>1, <1>6, CommitInitFacts, InstallWriteKeyFacts DEF InitRecord
  <2>2. ctx'.encrypt = a.encrypt
    BY <2>1, OpenRecordFacts
  <2> QED
    BY <1>6, <2>2 DEF InitRecord, Returns
<1> QED
  BY <1>2, <1>3, <1>4, <1>5, <1>6 DEF CipherInit

(* The last call left none of the lists' promises unkept.                  *)
ParamsInv ==
  /\ RefusedTagIsDropped
  /\ RefusedTurnClosesRecord
  /\ AcceptedIsCanonical
  /\ GetAnswersWhole

(* What is noted of a request.                                             *)
LEMMA RequestMeans ==
  ASSUME NEW turn, NEW call, NEW list, NEW forwarded, NEW answered,
         RequestedOn(turn, call, list, forwarded, answered)
  PROVE  /\ request'.call = call
         /\ request'.tagged <=> call \in {"init", "set_params"} /\ Has(list, "tag")
         /\ request'.turns <=> turn /\ Has(list, "tag")
         /\ request'.accepted = IF ret'.ok THEN list ELSE <<>>
         /\ request'.forwarded = forwarded /\ request'.answered = answered
<1>1. request' = [call |-> call,
                  tagged |-> call \in {"init", "set_params"} /\ Has(list, "tag"),
                  turns |-> turn /\ Has(list, "tag"),
                  accepted |-> IF ret'.ok THEN list ELSE <<>>,
                  forwarded |-> forwarded, answered |-> answered]
  BY Zenon DEF RequestedOn
<1> QED
  BY <1>1

(* An initialisation with a list keeps them.                               *)
LEMMA InitWithPromises ==
  ASSUME TypeOK, NEW a \in InitArguments, NEW list \in Lists, InitWith(a, list)
  PROVE  ParamsInv'
<1> DEFINE call == CallOf(a, list)
           sent == IF Valid(a, list) /\ InitReachesInner(call)
                   THEN Filtered(list) ELSE <<>>
<1>1. /\ request'.call = "init" /\ (request'.turns <=> Turn(a) /\ Has(list, "tag"))
      /\ request'.tagged <=> Has(list, "tag")
      /\ request'.accepted = (IF ret'.ok THEN list ELSE <<>>)
      /\ request'.forwarded = sent /\ request'.answered = {}
  <2>1. RequestedOn(Turn(a), "init", list, sent, {})
    BY InitWithMeans
  <2> HIDE DEF sent
  <2> QED
    BY <2>1, RequestMeans
<1>2. CASE ~Valid(a, list)
  <2>1. InitRefusal(a, list, Has(list, "tag")) /\ sent = <<>>
    BY <1>2, InitWithMeans
  <2>2. ret' = [call |-> "init", ok |-> FALSE]
    BY <2>1 DEF InitRefusal, Returns
  <2>3. PICK d : Shaped(d) /\ (Has(list, "tag") => ctx' = DropTag(d))
                 /\ (Has(list, "tag") /\ Turn(a) => d = InvalidateRecord(DropTag(ctx)))
    BY <2>1, ContextShaped DEF InitRefusal, Turn, TypeOK, Shaped, DropTag, InvalidateRecord
  <2>4. Shaped(DropTag(ctx))
    BY ContextShaped DEF TypeOK, Shaped, DropTag
  <2>5. /\ Has(list, "tag") => ~ctx'.decrypt_tag_current
        /\ Has(list, "tag") /\ Turn(a) => ctx'.phase = "NO_RECORD"
    BY <2>3, <2>4, NoTagFacts
  <2>6. request'.accepted = <<>> /\ request'.forwarded = <<>> /\ ~ret'.ok
    BY <1>1, <2>1, <2>2
  <2>7. RefusedTagIsDropped' /\ RefusedTurnClosesRecord'
    BY <1>1, <2>5 DEF RefusedTagIsDropped, RefusedTurnClosesRecord
  <2>8. AcceptedIsCanonical'
    BY <2>6 DEF AcceptedIsCanonical
  <2>9. GetAnswersWhole'
    BY <1>1 DEF GetAnswersWhole
  <2> QED
    BY <2>7, <2>8, <2>9 DEF ParamsInv
<1>3. CASE Valid(a, list)
  <2>1. /\ CipherInit(call) /\ call \in InitCalls /\ call.encrypt = a.encrypt
        /\ Has(list, "tag") => InitReachesInner(call) /\ ~a.encrypt
    BY <1>3, InitWithMeans, CallOfFacts DEF InitReachesInner, InitRefusal
  <2> HIDE DEF call
  <2>2. /\ ret'.ok => ctx'.encrypt = a.encrypt
        /\ ~ret'.ok /\ Has(list, "tag")
             => ctx'.phase = "NO_RECORD" /\ ~ctx'.decrypt_tag_current
    BY <2>1, InitOutcome
  <2>3. ~HasDuplicate(list, Single) /\ ~Forbidden(list) /\ LengthsFixed(list) /\ TagFixed(list)
    BY <1>3 DEF Valid, InitValid, TagFixed
  <2>4. RefusedTagIsDropped' /\ RefusedTurnClosesRecord'
    BY <1>1, <2>2 DEF RefusedTagIsDropped, RefusedTurnClosesRecord
  <2>5. AcceptedIsCanonical'
    <3>1. \A i \in DOMAIN request'.forwarded :
            /\ request'.forwarded[i].value = "fixed"
            /\ request'.forwarded[i].name = "tag" /\ ret'.ok => ~ctx'.encrypt
      <4>1. CASE sent = Filtered(list)
        <5>1. Has(list, "tag") /\ ret'.ok => ~ctx'.encrypt
          BY <2>1, <2>2
        <5>2. request'.forwarded = Filtered(list)
          BY <1>1, <4>1
        <5> QED
          BY <2>3, <5>1, <5>2, FilteredFacts
      <4>2. CASE sent = <<>>
        BY <1>1, <4>2
      <4> QED
        BY <4>1, <4>2
    <3>2. \A i \in DOMAIN request'.accepted :
            /\ request'.accepted[i].name # "legacy"
            /\ request'.accepted[i].name \in Single =>
                 /\ request'.accepted[i].value = "fixed"
                 /\ Positions(request'.accepted, request'.accepted[i].name) = {i}
      BY <1>1, <2>3, FixedEntries
    <3> QED
      BY <3>1, <3>2 DEF AcceptedIsCanonical, Single
  <2>6. GetAnswersWhole'
    BY <1>1 DEF GetAnswersWhole
  <2> QED
    BY <2>4, <2>5, <2>6 DEF ParamsInv
<1> QED
  BY <1>2, <1>3

(* Parameters that are set keep them.                                      *)
LEMMA SetPromises ==
  ASSUME TypeOK, NEW list \in Lists, SetRefused(list) \/ SetAccepted(list)
  PROVE  ParamsInv'
<1>1. PICK sent : /\ RequestedOn(FALSE, "set_params", list, sent, {})
                  /\ sent = <<>> \/ (sent = Filtered(list) /\ Has(list, "tag"))
  BY Zenon DEF SetRefused, SetAccepted, Requested
<1>2. /\ request'.call = "set_params" /\ ~request'.turns
      /\ request'.tagged => Has(list, "tag")
      /\ request'.accepted = IF ret'.ok THEN list ELSE <<>>
      /\ request'.forwarded = sent /\ request'.answered = {}
  BY <1>1, RequestMeans
<1>3. GetAnswersWhole' /\ RefusedTurnClosesRecord'
  BY <1>2 DEF GetAnswersWhole, RefusedTurnClosesRecord
<1>4. Shaped(ctx)
  BY ContextShaped DEF TypeOK
<1>5. CASE SetRefused(list)
  <2>1. ret' = [call |-> "set_params", ok |-> FALSE]
        /\ (Has(list, "tag") => ctx' = DropTag(ctx))
    BY <1>5 DEF SetRefused, DropNamedTag, Returns
  <2>2. RefusedTagIsDropped'
    BY <1>2, <1>4, <2>1, NoTagFacts DEF RefusedTagIsDropped
  <2>3. sent = <<>>
    <3>1. RequestedOn(FALSE, "set_params", list, <<>>, {})
      BY <1>5, Zenon DEF SetRefused, Requested
    <3> QED
      BY <1>2, <3>1, RequestMeans
  <2>4. request'.accepted = <<>> /\ request'.forwarded = <<>>
    BY <1>2, <2>1, <2>3
  <2>5. AcceptedIsCanonical'
    BY <2>4 DEF AcceptedIsCanonical
  <2> QED
    BY <1>3, <2>2, <2>5 DEF ParamsInv
<1>6. CASE SetAccepted(list)
  <2>1. ~HasDuplicate(list, Single) /\ ~Forbidden(list) /\ LengthsFixed(list) /\ TagFixed(list)
    BY <1>6 DEF SetAccepted, TagFixed
  <2>2. CASE Has(list, "tag")
    <3>1. TagInnerFails \/ TagAccepted
      BY <1>6, <2>2 DEF SetAccepted
    <3>2. /\ ~ret'.ok => ~ctx'.decrypt_tag_current
          /\ ~ctx'.encrypt
      <4>1. CASE TagInnerFails
        BY <1>4, <4>1, NoTagFacts DEF TagInnerFails
      <4>2. CASE TagAccepted
        BY <1>4, <4>2 DEF TagAccepted, Returns, Shaped
      <4> QED
        BY <3>1, <4>1, <4>2
    <3>3. RefusedTagIsDropped'
      BY <3>2 DEF RefusedTagIsDropped
    <3>4. \A i \in DOMAIN request'.forwarded : request'.forwarded[i].value = "fixed"
      <4>1. CASE sent = <<>>
        BY <1>2, <4>1
      <4>2. CASE sent = Filtered(list)
        BY <1>2, <2>1, <4>2, FilteredFacts
      <4> QED
        BY <1>1, <4>1, <4>2
    <3>5. \A i \in DOMAIN request'.accepted :
            /\ request'.accepted[i].name # "legacy"
            /\ request'.accepted[i].name \in Single =>
                 /\ request'.accepted[i].value = "fixed"
                 /\ Positions(request'.accepted, request'.accepted[i].name) = {i}
      BY <1>2, <2>1, FixedEntries
    <3>6. AcceptedIsCanonical'
      BY <3>2, <3>4, <3>5 DEF AcceptedIsCanonical, Single
    <3> QED
      BY <1>3, <3>3, <3>6 DEF ParamsInv
  <2>3. CASE ~Has(list, "tag")
    <3>1. RefusedTagIsDropped' /\ sent = <<>>
      BY <1>1, <1>2, <2>3 DEF RefusedTagIsDropped
    <3>2. \A i \in DOMAIN request'.accepted :
            /\ request'.accepted[i].name # "legacy"
            /\ request'.accepted[i].name \in Single =>
                 /\ request'.accepted[i].value = "fixed"
                 /\ Positions(request'.accepted, request'.accepted[i].name) = {i}
      BY <1>2, <2>1, FixedEntries
    <3>3. AcceptedIsCanonical'
      BY <1>2, <3>1, <3>2 DEF AcceptedIsCanonical, Single
    <3> QED
      BY <1>3, <3>1, <3>3 DEF ParamsInv
  <2> QED
    BY <2>2, <2>3
<1> QED
  BY <1>5, <1>6

(* A request that can be answered answers every entry it knows.            *)
LEMMA AnsweredWhole ==
  ASSUME NEW list \in Lists, NEW order, ~HasDuplicate(list, NamesIn(order)),
         Answerable(list, order), DOMAIN order \subseteq Nat,
         \A k \in DOMAIN order : 1..k \subseteq DOMAIN order
  PROVE  \A i \in DOMAIN list :
           list[i].name \in NamesIn(order) => <<i, list[i].name>> \in Answered(list, order)
<1> SUFFICES ASSUME NEW i \in DOMAIN list, list[i].name \in NamesIn(order)
             PROVE  <<i, list[i].name>> \in Answered(list, order)
  OBVIOUS
<1>1. Has(list, list[i].name) /\ Locate(list, list[i].name) = i
  BY OnlyEntry
<1>2. PICK k \in DOMAIN order : order[k] = list[i].name
  BY DEF NamesIn
<1>3. \A j \in 1..k : ~Unanswerable(list, order[j])
  BY DEF Answerable, NamesIn
<1> QED
  BY <1>1, <1>2, <1>3 DEF Answered

(* The two orders.                                                         *)
LEMMA OrderFacts ==
  /\ DOMAIN ContextOrder = 1..4 /\ DOMAIN StaticOrder = 1..6
  /\ NamesIn(ContextOrder) = Single
  /\ \A k \in 1..4 : ContextOrder[k] = "tag" => k = 4
  /\ \A k \in 1..6 : StaticOrder[k] # "tag"
<1>1. /\ DOMAIN ContextOrder = {1, 2, 3, 4} /\ DOMAIN StaticOrder = {1, 2, 3, 4, 5, 6}
      /\ ContextOrder[1] = "ivlen" /\ ContextOrder[2] = "keylen"
      /\ ContextOrder[3] = "taglen" /\ ContextOrder[4] = "tag"
      /\ StaticOrder[1] = "mode" /\ StaticOrder[2] = "keylen" /\ StaticOrder[3] = "ivlen"
      /\ StaticOrder[4] = "blocksize" /\ StaticOrder[5] = "aead"
      /\ StaticOrder[6] = "custom-iv"
  BY DEF ContextOrder, StaticOrder
<1>2. 1..4 = {1, 2, 3, 4} /\ 1..6 = {1, 2, 3, 4, 5, 6}
  OBVIOUS
<1>3. NamesIn(ContextOrder) = Single
  BY <1>1 DEF NamesIn, Single, LengthNames
<1> QED
  BY <1>1, <1>2, <1>3

(* The tag is answered last: not when another entry could not be.          *)
LEMMA TagAnsweredLast ==
  ASSUME NEW list \in Lists
  PROVE  /\ ~Answerable(list, ContextOrder) =>
              \A answer \in Answered(list, ContextOrder) : answer[2] # "tag"
         /\ \A answer \in Answered(list, StaticOrder) : answer[2] # "tag"
         /\ \A answer \in Answered(list, ContextOrder)
                            \ {<<Locate(list, "tag"), "tag">>} : answer[2] # "tag"
<1>1. ASSUME NEW answer \in Answered(list, StaticOrder) PROVE answer[2] # "tag"
  BY OrderFacts DEF Answered
<1>2. ASSUME NEW answer \in Answered(list, ContextOrder), answer[2] = "tag"
      PROVE  answer = <<Locate(list, "tag"), "tag">> /\ Answerable(list, ContextOrder)
  <2>1. PICK k \in DOMAIN ContextOrder :
               /\ answer = <<Locate(list, ContextOrder[k]), ContextOrder[k]>>
               /\ \A j \in 1..k : ~Unanswerable(list, ContextOrder[j])
    BY DEF Answered
  <2>2. k = 4 /\ ContextOrder[k] = "tag"
    BY <1>2, <2>1, OrderFacts
  <2> QED
    BY <2>1, <2>2, OrderFacts DEF Answerable, NamesIn
<1> QED
  BY <1>1, <1>2

(* A call that only asks keeps them if it answers well: nothing it noted   *)
(* is about a tag that was set or a list that was taken.                   *)
LEMMA AskingPromises ==
  ASSUME NEW list \in Lists, NEW call \in {"get_params", "get_static"}, NEW answered,
         RequestedOn(FALSE, call, list, <<>>, answered),
         ret'.ok => LET known == IF call = "get_static" THEN NamesIn(StaticOrder) ELSE Single
                    IN  \A i \in DOMAIN list :
                          list[i].name \in known => <<i, list[i].name>> \in answered,
         ~ret'.ok => \A answer \in answered : answer[2] # "tag"
  PROVE  ParamsInv'
<1>1. /\ request'.call = call /\ ~request'.turns /\ ~request'.tagged
      /\ request'.accepted = IF ret'.ok THEN list ELSE <<>>
      /\ request'.forwarded = <<>> /\ request'.answered = answered
  BY RequestMeans
<1>2. RefusedTagIsDropped' /\ RefusedTurnClosesRecord' /\ AcceptedIsCanonical'
  BY <1>1 DEF RefusedTagIsDropped, RefusedTurnClosesRecord, AcceptedIsCanonical
<1>3. GetAnswersWhole'
  <2>1. CASE ret'.ok
    BY <1>1, <2>1 DEF GetAnswersWhole, Single
  <2>2. CASE ~ret'.ok
    BY <1>1, <2>2 DEF GetAnswersWhole
  <2> QED
    BY <2>1, <2>2
<1> QED
  BY <1>2, <1>3 DEF ParamsInv

(* Parameters that are asked for keep them.                                *)
LEMMA GetPromises ==
  ASSUME NEW list \in Lists, GetRefused(list) \/ GetAnswered(list) \/ GetStatic(list)
  PROVE  ParamsInv'
<1>1. CASE GetRefused(list)
  <2>1. ~ret'.ok /\ RequestedOn(FALSE, "get_params", list, <<>>, {})
    BY <1>1 DEF GetRefused, GetOther, Returns, Requested
  <2> QED
    BY <2>1, AskingPromises
<1>2. CASE GetAnswered(list)
  <2> DEFINE all == Answered(list, ContextOrder)
             rest == all \ {<<Locate(list, "tag"), "tag">>}
  <2>1. Answerable(list, ContextOrder) =>
          \A i \in DOMAIN list :
            list[i].name \in Single => <<i, list[i].name>> \in all
    BY <1>2, OrderFacts, AnsweredWhole DEF GetAnswered
  <2>2. /\ ~Answerable(list, ContextOrder) => \A answer \in all : answer[2] # "tag"
        /\ \A answer \in rest : answer[2] # "tag"
    BY TagAnsweredLast
  <2> HIDE DEF all, rest
  <2>3. CASE /\ GetOther(Answerable(list, ContextOrder))
             /\ Requested("get_params", list, <<>>, all)
    <3>1. ret'.ok <=> Answerable(list, ContextOrder)
      BY <2>3 DEF GetOther, Returns, Answerable
    <3> QED
      BY <2>1, <2>2, <2>3, <3>1, AskingPromises DEF Requested
  <2>4. CASE GetTagInnerFails /\ Requested("get_params", list, <<>>, rest)
    <3>1. ~ret'.ok
      BY <2>4 DEF GetTagInnerFails, Returns
    <3> QED
      BY <2>2, <2>4, <3>1, AskingPromises DEF Requested
  <2>5. CASE /\ GetTagOk /\ Answerable(list, ContextOrder)
             /\ Requested("get_params", list, <<>>, all)
    <3>1. ret'.ok
      BY <2>5 DEF GetTagOk, Returns
    <3> QED
      BY <2>1, <2>5, <3>1, AskingPromises DEF Requested
  <2> QED
    BY <1>2, <2>3, <2>4, <2>5, Zenon DEF GetAnswered, all, rest
<1>3. CASE GetStatic(list)
  <2> DEFINE single == ~HasDuplicate(list, NamesIn(StaticOrder))
             all == IF single THEN Answered(list, StaticOrder) ELSE {}
  <2>1. RequestedOn(FALSE, "get_static", list, <<>>, all)
    BY <1>3, Zenon DEF GetStatic, Requested
  <2>2. ret'.ok => single /\ Answerable(list, StaticOrder)
    BY <1>3 DEF GetStatic, GetOther, Returns
  <2>3. single /\ Answerable(list, StaticOrder) =>
          \A i \in DOMAIN list :
            list[i].name \in NamesIn(StaticOrder) => <<i, list[i].name>> \in all
    BY OrderFacts, AnsweredWhole
  <2>4. \A answer \in all : answer[2] # "tag"
    BY TagAnsweredLast
  <2> HIDE DEF single, all
  <2> QED
    BY <2>1, <2>2, <2>3, <2>4, AskingPromises
<1> QED
  BY <1>1, <1>2, <1>3

(* Every call keeps them, in a context of the type of G301Cipher.          *)
LEMMA ParamsInvStep ==
  ASSUME TypeOK, ParamsInv, [ParamsNext]_paramVars
  PROVE  ParamsInv'
<1>1. CASE \E a \in InitArguments, list \in Lists : InitWith(a, list)
  BY <1>1, InitWithPromises
<1>2. CASE \E list \in Lists : SetRefused(list) \/ SetAccepted(list)
  BY <1>2, SetPromises
<1>3. CASE \E list \in Lists : GetRefused(list) \/ GetAnswered(list) \/ GetStatic(list)
  BY <1>3, GetPromises
<1>4. CASE request' = NoRequest
  BY <1>4 DEF NoRequest, ParamsInv, RefusedTagIsDropped, RefusedTurnClosesRecord,
              AcceptedIsCanonical, GetAnswersWhole
<1>5. CASE UNCHANGED paramVars
  BY <1>5 DEF paramVars, vars, ParamsInv, RefusedTagIsDropped, RefusedTurnClosesRecord,
              AcceptedIsCanonical, GetAnswersWhole, NamesIn, Positions
<1> QED
  BY <1>1, <1>2, <1>3, <1>4, <1>5, Zenon DEF ParamsNext

(* The four hold together after every call: each of them speaks of the     *)
(* last list only, and needs of the past that the context has its type.    *)
THEOREM ParamsInvariant ==
  ASSUME RecordLimit < IntMax PROVE ParamsSpec => []ParamsInv
<1>1. ParamsInit => ParamsInv
  BY DEF ParamsInit, Init, NoRequest, ParamsInv, RefusedTagIsDropped,
         RefusedTurnClosesRecord, AcceptedIsCanonical, GetAnswersWhole
<1>2. TypeOK /\ ParamsInv /\ [ParamsNext]_paramVars => ParamsInv'
  BY ParamsInvStep
<1>3. ParamsSpec => []TypeOK
  BY CipherImplemented, TypeCorrect, PTL DEF ImplementsCipher
<1> QED
  BY <1>1, <1>2, <1>3, PTL DEF ParamsSpec

(* RefusedTagIsDropped: whatever was wrong with a list that brings a tag,  *)
(* no tag is left to decrypt with.                                         *)
THEOREM NoStaleTag ==
  ASSUME RecordLimit < IntMax PROVE ParamsSpec => []RefusedTagIsDropped
<1>1. ParamsInv => RefusedTagIsDropped
  BY DEF ParamsInv
<1> QED
  BY <1>1, ParamsInvariant, PTL

(* RefusedTurnClosesRecord: however early an initialisation with a tag and *)
(* a key or another direction is refused, no record is left open.          *)
THEOREM TurnClosesRecord ==
  ASSUME RecordLimit < IntMax PROVE ParamsSpec => []RefusedTurnClosesRecord
<1>1. ParamsInv => RefusedTurnClosesRecord
  BY DEF ParamsInv
<1> QED
  BY <1>1, ParamsInvariant, PTL

(* AcceptedIsCanonical: a list that is taken reads in one way only, and    *)
(* the inner context sees no more of it than fixed values.                 *)
THEOREM TakenIsCanonical ==
  ASSUME RecordLimit < IntMax PROVE ParamsSpec => []AcceptedIsCanonical
<1>1. ParamsInv => AcceptedIsCanonical
  BY DEF ParamsInv
<1> QED
  BY <1>1, ParamsInvariant, PTL

(* GetAnswersWhole: a request that succeeds answers every entry it knows,  *)
(* one that fails answers no tag.                                          *)
THEOREM AnsweredOrRefused ==
  ASSUME RecordLimit < IntMax PROVE ParamsSpec => []GetAnswersWhole
<1>1. ParamsInv => GetAnswersWhole
  BY DEF ParamsInv
<1> QED
  BY <1>1, ParamsInvariant, PTL

=============================================================================
