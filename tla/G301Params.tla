----------------------------- MODULE G301Params -----------------------------
(***************************************************************************)
(* The parameter lists of a cipher context: which lists the provider takes *)
(* (the twenty names it denies, duplicates, fixed lengths and the tag), in *)
(* which order it looks at them, what a refused list leaves behind, what   *)
(* reaches the inner context and what a request is answered.               *)
(*                                                                         *)
(* G301Cipher knows of a list only its verdict.  Here a call brings a list *)
(* and the verdict is computed; all other calls are those of G301Cipher.   *)
(***************************************************************************)
EXTENDS G301Cipher, FiniteSets

CONSTANTS
  Entries,   \* the entries callers put into a list: [name, value]
  MaxParams  \* bound: the longest list

(* An entry is "fixed" when it has the type, size and value (to set) or    *)
(* the type and size (to get) that the provider expects, "null" when it    *)
(* has the type and no data, and "wrong" otherwise.  "legacy" is any of    *)
(* the names denied by g301_has_forbidden_legacy_param.                    *)
ASSUME EntriesAssumption ==
  Entries \subseteq [name : STRING, value : {"fixed", "wrong", "null"}]
ASSUME MaxParamsAssumption == MaxParams \in Nat

VARIABLE
  request  \* history: the list of the last call, what came of it

paramVars == <<vars, request>>

Lists == UNION {[1..n -> Entries] : n \in 0..MaxParams}

InitArguments ==
  [key : MaybeKey, iv : BOOLEAN, encrypt : BOOLEAN, lengths_ok : BOOLEAN]

-----------------------------------------------------------------------------
(* Lists.                                                                  *)

Positions(list, name) == {i \in DOMAIN list : list[i].name = name}
Has(list, name) == Positions(list, name) # {}

(* OSSL_PARAM_locate: the first entry of a name.                           *)
Locate(list, name) ==
  CHOOSE i \in Positions(list, name) : \A j \in Positions(list, name) : i <= j

HasDuplicate(list, names) ==
  \E name \in names : Cardinality(Positions(list, name)) > 1

Forbidden(list) == Has(list, "legacy")

(* tagged: a tag was to be set, and turns: together with a key or another  *)
(* direction; forwarded: what the inner context is given; answered: the    *)
(* entries that are written, each with its position.                       *)
RequestedOn(turn, call, list, forwarded, answered) ==
  request' = [call |-> call,
              tagged |-> call \in {"init", "set_params"} /\ Has(list, "tag"),
              turns |-> turn /\ Has(list, "tag"),
              accepted |-> IF ret'.ok THEN list ELSE <<>>,
              forwarded |-> forwarded, answered |-> answered]

Requested(call, list, forwarded, answered) ==
  RequestedOn(FALSE, call, list, forwarded, answered)

NoRequest == [call |-> "none", tagged |-> FALSE, turns |-> FALSE, accepted |-> <<>>,
              forwarded |-> <<>>, answered |-> {}]

LengthNames == {"keylen", "ivlen", "taglen"}

(* Mutant: a second tag goes unnoticed.                                    *)
SingleLengths == LengthNames

Single == LengthNames \union {"tag"}

(* What the two validations have in common.                                *)
LengthsFixed(list) ==
  \A name \in LengthNames :
    Has(list, name) => list[Locate(list, name)].value = "fixed"

TagFixed(list) ==
  Has(list, "tag") => list[Locate(list, "tag")].value = "fixed"

(* filtered_params: the one length the inner context takes, and the tag of *)
(* the caller.                                                             *)
Filtered(list) ==
  (IF Has(list, "ivlen") THEN <<[name |-> "ivlen", value |-> "fixed"]>> ELSE <<>>)
    \o (IF Has(list, "tag") THEN <<list[Locate(list, "tag")]>> ELSE <<>>)

-----------------------------------------------------------------------------
(* encrypt_init and decrypt_init with a list.                              *)

InitValid(list, a) ==
  /\ ~Forbidden(list) /\ ~HasDuplicate(list, Single) /\ LengthsFixed(list)
  /\ Has(list, "tag") => /\ ~a.encrypt
                         /\ a.iv /\ (HasKey(a) \/ ctx.key_valid)
                         /\ TagFixed(list)

(* Mutant: the validation notes the tag after the names it refuses.        *)
NotesTagLate(list) ==
  Has(list, "tag") /\ ~Forbidden(list) /\ ~HasDuplicate(list, Single)

(* *has_tag when g301_validate_init_params returns.                        *)
NotesTag(list) == Has(list, "tag")

(* The two refusals of g301_init; the tag was dropped before either.       *)
InitRefusal(a, list, tagged) ==
  LET d == IF Has(list, "tag") THEN DropTag(ctx) ELSE ctx
      r == IF tagged /\ (HasKey(a) \/ DirectionChange(ctx, a))
           THEN InvalidateRecord(d) ELSE d
  IN  /\ ctx' = IF tagged \/ DirectionChange(ctx, a) THEN DropTag(r) ELSE r
      /\ Returns("init", FALSE)
      /\ UNCHANGED <<inner, installed>>

InitWith(a, list) ==
  LET call == [key |-> a.key, iv |-> a.iv, encrypt |-> a.encrypt,
               tag |-> IF Has(list, "tag") THEN "valid" ELSE "absent",
               args_ok |-> TRUE]
      valid == a.lengths_ok /\ InitValid(list, a)
  IN  /\ CASE ~a.lengths_ok -> InitRefusal(a, list, Has(list, "tag"))
           [] a.lengths_ok /\ ~valid -> InitRefusal(a, list, NotesTag(list))
           [] valid -> CipherInit(call)
      /\ RequestedOn(HasKey(a) \/ DirectionChange(ctx, a), "init", list,
           IF valid /\ InitReachesInner(call) THEN Filtered(list) ELSE <<>>, {})

-----------------------------------------------------------------------------
(* set_ctx_params.                                                         *)

(* Mutants: a tag is dropped only once the names are known to be allowed;  *)
(* a refused tag poisons the record.                                       *)
DropNamedTagLate(list) ==
  IF Has(list, "tag") /\ ~Forbidden(list) THEN DropTag(ctx) ELSE ctx

PoisonForNamedTag(list) == IF Has(list, "tag") THEN Poison(ctx) ELSE ctx

DropNamedTag(list) == IF Has(list, "tag") THEN DropTag(ctx) ELSE ctx

SetRefused(list) ==
  /\ \/ Forbidden(list)
     \/ HasDuplicate(list, Single)
     \/ ~LengthsFixed(list)
     \/ Has(list, "tag") /\ ~(Live(ctx) /\ ~ctx.encrypt /\ TagFixed(list))
  /\ ctx' = DropNamedTag(list)
  /\ Returns("set_params", FALSE)
  /\ UNCHANGED <<inner, installed>>
  /\ Requested("set_params", list, <<>>, {})

SetAccepted(list) ==
  /\ ~Forbidden(list) /\ ~HasDuplicate(list, Single) /\ LengthsFixed(list)
  /\ IF Has(list, "tag")
     THEN /\ TagFixed(list)
          /\ TagInnerFails \/ TagAccepted
          /\ Requested("set_params", list, Filtered(list), {})
     ELSE SetOther(TRUE) /\ Requested("set_params", list, <<>>, {})

-----------------------------------------------------------------------------
(* get_ctx_params and get_params: the entries are answered one name after  *)
(* the other, up to the first that cannot be.                              *)

(* Mutant: the tag is handed out before the lengths are looked at.         *)
TagFirst == <<"tag", "ivlen", "keylen", "taglen">>

ContextOrder == <<"ivlen", "keylen", "taglen", "tag">>

StaticOrder == <<"mode", "keylen", "ivlen", "blocksize", "aead", "custom-iv">>

NamesIn(order) == {order[k] : k \in DOMAIN order}

Unanswerable(list, name) ==
  /\ Has(list, name)
  /\ \/ list[Locate(list, name)].value = "wrong"
     \/ name = "tag" /\ ~TagReadable

Answered(list, order) ==
  {<<Locate(list, order[k]), order[k]>> :
     k \in {n \in DOMAIN order : /\ Has(list, order[n])
                                 /\ \A j \in 1..n : ~Unanswerable(list, order[j])}}

Answerable(list, order) ==
  \A name \in NamesIn(order) : ~Unanswerable(list, name)

(* The tag itself, not its size, is asked for.                             *)
WantsTag(list) == Has(list, "tag") /\ list[Locate(list, "tag")].value = "fixed"

GetRefused(list) ==
  /\ Forbidden(list) \/ HasDuplicate(list, Single)
  /\ GetOther(FALSE) /\ Requested("get_params", list, <<>>, {})

GetAnswered(list) ==
  /\ ~Forbidden(list) /\ ~HasDuplicate(list, Single)
  /\ \/ /\ ~(Answerable(list, ContextOrder) /\ WantsTag(list))
        /\ GetOther(Answerable(list, ContextOrder))
        /\ Requested("get_params", list, <<>>, Answered(list, ContextOrder))
     \/ /\ Answerable(list, ContextOrder) /\ WantsTag(list)
        /\ \/ /\ GetTagInnerFails
              /\ Requested("get_params", list, <<>>,
                   Answered(list, ContextOrder) \ {<<Locate(list, "tag"), "tag">>})
           \/ /\ GetTagOk
              /\ Requested("get_params", list, <<>>, Answered(list, ContextOrder))

(* g301_cipher_get_params denies no name.  It has no context: that it is   *)
(* called on a new one only is no restriction.                             *)
GetStatic(list) ==
  LET single == ~HasDuplicate(list, NamesIn(StaticOrder))
  IN  /\ ret.call = "newctx"
      /\ GetOther(single /\ Answerable(list, StaticOrder))
      /\ Requested("get_static", list, <<>>,
                   IF single THEN Answered(list, StaticOrder) ELSE {})

-----------------------------------------------------------------------------
WithoutList ==
  \/ UpdateRefused
  \/ UpdateEmpty
  \/ \E item \in Data : Update(item)
  \/ FinalRefused
  \/ FinalMisused
  \/ Final

ParamsInit == Init /\ request = NoRequest

ParamsNext ==
  \/ \E a \in InitArguments, list \in Lists : InitWith(a, list)
  \/ \E list \in Lists : SetRefused(list)
  \/ \E list \in Lists : SetAccepted(list)
  \/ \E list \in Lists : GetRefused(list)
  \/ \E list \in Lists : GetAnswered(list)
  \/ \E list \in Lists : GetStatic(list)
  \/ WithoutList /\ request' = NoRequest

ParamsSpec == ParamsInit /\ [][ParamsNext]_paramVars

-----------------------------------------------------------------------------
(* Whichever entry of a list is refused first, the record it leaves is one *)
(* G301Cipher knows: the verdicts of the lists are all that its properties *)
(* and theorems need of them.                                              *)
ImplementsCipher == Spec

(* A list with a tag that is not taken leaves no tag to decrypt with: not  *)
(* the one before it either, and whatever else was wrong with the list.    *)
RefusedTagIsDropped ==
  request.tagged /\ ~ret.ok
    => ~ctx.decrypt_tag_current

(* An initialisation that brings a tag along with a key or the other       *)
(* direction and is refused, for whatever reason and however early, leaves *)
(* no record to go on with under the old key and direction.                *)
RefusedTurnClosesRecord == request.turns /\ ~ret.ok => ctx.phase = "NO_RECORD"

(* A list that was accepted can be read in one way only, and of it the     *)
(* inner context sees no more than a length that is fixed and one tag of   *)
(* sixteen bytes, the tag only to decrypt: of a shorter one it would read  *)
(* past the end, because the length is not the caller's but the provider's.*)
AcceptedIsCanonical ==
  /\ request.call \in {"init", "set_params"} =>
       \A i \in DOMAIN request.accepted :
         LET e == request.accepted[i]
         IN  /\ e.name # "legacy"
             /\ e.name \in LengthNames \union {"tag"} =>
                  /\ e.value = "fixed"
                  /\ Positions(request.accepted, e.name) = {i}
  /\ \A i \in DOMAIN request.forwarded :
       LET e == request.forwarded[i]
       IN  e.value = "fixed" /\ (e.name = "tag" /\ ret.ok => ~ctx.encrypt)

(* A request that succeeds has answered every entry it knows, so that none *)
(* keeps what the caller left in it, and one that fails releases no tag.   *)
GetAnswersWhole ==
  LET known == IF request.call = "get_static" THEN NamesIn(StaticOrder)
               ELSE LengthNames \union {"tag"}
  IN  /\ request.call \in {"get_params", "get_static"} =>
           \A i \in DOMAIN request.accepted :
             request.accepted[i].name \in known =>
               <<i, request.accepted[i].name>> \in request.answered
      /\ ~ret.ok => \A answer \in request.answered : answer[2] # "tag"

=============================================================================
