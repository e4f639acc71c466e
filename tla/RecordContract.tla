--------------------------- MODULE RecordContract ---------------------------
(***************************************************************************)
(* What a G301 cipher context promises its caller: the EVP state contract  *)
(* and the write-key budget.  A record is opened, absorbs data, and is     *)
(* finalised once; a failure poisons it, and then only opening another     *)
(* record helps.  Every encryption record costs one unit of the budget of  *)
(* the installed write key, charged when its first byte is absorbed.       *)
(***************************************************************************)
EXTENDS Integers

CONSTANTS Keys, NoKey, RecordLimit

VARIABLES
  record,   \* the record of the context
  writing,  \* TRUE when the context encrypts
  key,      \* the installed write key
  left      \* the encryption records the key has left

vars == <<record, writing, key, left>>

Records == {"none", "pending", "active", "finalized", "poisoned"}

TypeOK ==
  /\ record \in Records
  /\ writing \in BOOLEAN
  /\ key \in Keys \union {NoKey}
  /\ left \in 0..RecordLimit

Init == record = "none" /\ writing = FALSE /\ key = NoKey /\ left = RecordLimit

(* A record opens in any state, and is the only way out of a poisoned one. *)
OpenToRead ==
  /\ record' = "pending" /\ writing' = FALSE
  /\ UNCHANGED <<key, left>>

(* Another write key brings a new budget; the same key keeps what is left. *)
OpenToWrite(k) ==
  /\ record' = "pending" /\ writing' = TRUE
  /\ key' = k
  /\ left' = IF k = key THEN left ELSE RecordLimit

(* The record begins: it costs one unit, and what is spent stays spent     *)
(* when the record fails at once.                                          *)
Begin ==
  /\ record = "pending"
  /\ record' \in {"active", "finalized", "poisoned"}
  /\ IF writing THEN left > 0 /\ left' = left - 1 ELSE left' = left
  /\ UNCHANGED <<writing, key>>

Finish ==
  /\ record = "active" /\ record' = "finalized"
  /\ UNCHANGED <<writing, key, left>>

Fail ==
  /\ record' = "poisoned"
  /\ writing' \in BOOLEAN
  /\ UNCHANGED <<key, left>>

(* The caller gives the record up: another key, or another direction.      *)
Abandon ==
  /\ record # "poisoned" /\ record' = "none"
  /\ writing' \in BOOLEAN
  /\ UNCHANGED <<key, left>>

Next ==
  \/ OpenToRead
  \/ \E k \in Keys : OpenToWrite(k)
  \/ Begin
  \/ Finish
  \/ Fail
  \/ Abandon

Spec == Init /\ [][Next]_vars

=============================================================================
