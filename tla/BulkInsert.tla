----------------------------- MODULE BulkInsert -----------------------------
(***************************************************************************)
(* bulkInsert: the rows of an import are sent in batches, inside the       *)
(* transaction of the caller, so that no statement has more placeholders   *)
(* than PostgreSQL accepts.  A failed batch rolls the transaction back.    *)
(***************************************************************************)
EXTENDS Integers

CONSTANTS MaxParams,   \* the most placeholders a statement may have (65535)
          MaxLen,      \* bound: the longest slice of rows considered
          Shapes       \* the call sites, see below

\* A call site names the placeholders of one row of its statement and the number of
\* fields it passes to bulkInsert, which may be larger (12 for 11 placeholders in
\* CreateMembersWithTokens).
ASSUME BulkInsertAssumption ==
    /\ MaxParams \in Nat /\ MaxLen \in Nat
    /\ Shapes \subseteq [placeholders : Nat \ {0}, numField : Nat \ {0}]
    /\ \A sh \in Shapes : /\ sh.placeholders <= sh.numField
                          /\ 2 * sh.numField <= MaxParams + 1

VARIABLES shape,     \* the call site
          len,       \* the number of rows to insert
          i,         \* the index of the first row of the next batch
          batch,     \* the number of rows of the last statement
          rows,      \* the rows inserted in the open transaction
          status     \* "running", "ok" or "error"

bulkVars == <<shape, len, i, batch, rows, status>>

Minimum(a, b) == IF a < b THEN a ELSE b

\* Mutant: the one that keeps the product below 2^16 is not subtracted.
MaxBulkInsertFull(numField) == (MaxParams + 1) \div numField

\* ((1 << 16) / numField) - 1
MaxBulkInsert(numField) == ((MaxParams + 1) \div numField) - 1

Size  == MaxBulkInsert(shape.numField)
Limit == Minimum(i + Size, len)

BulkInit ==
    /\ shape \in Shapes /\ len \in 0..MaxLen
    /\ i = 0 /\ batch = 0 /\ rows = {} /\ status = "running"

Batch ==
    /\ status = "running" /\ i < len
    /\ batch' = Limit - i
    /\ rows' = rows \cup i..(Limit - 1)
    /\ i' = i + Size
    /\ UNCHANGED <<shape, len, status>>

\* Mutant: the rows of the earlier batches are kept.
BatchFailsKeeping ==
    /\ status = "running" /\ i < len
    /\ batch' = Limit - i /\ status' = "error"
    /\ UNCHANGED <<shape, len, i, rows>>

\* The statement fails or inserts fewer rows than the batch has.
BatchFails ==
    /\ status = "running" /\ i < len
    /\ batch' = Limit - i /\ status' = "error"
    /\ rows' = {}
    /\ UNCHANGED <<shape, len, i>>

Return ==
    /\ status = "running" /\ i >= len
    /\ status' = "ok"
    /\ UNCHANGED <<shape, len, i, batch, rows>>

BulkNext == Batch \/ BatchFails \/ Return

BulkSpec == BulkInit /\ [][BulkNext]_bulkVars

-----------------------------------------------------------------------------
(* Properties *)

\* The type of every variable.
BulkTypeOK ==
    /\ shape \in Shapes /\ len \in 0..MaxLen /\ i \in Nat /\ batch \in Nat
    /\ rows \subseteq Nat /\ status \in {"running", "ok", "error"}

\* No statement has more placeholders than PostgreSQL accepts, at any batch boundary.
BatchFits == batch * shape.placeholders <= MaxParams

\* The batches cover every row and none twice: when bulkInsert returns without error all
\* rows of the slice were inserted, and after an error none is; the next batch begins
\* where the inserted rows end.
AllOrNothing ==
    /\ status = "ok" => rows = 0..(len - 1)
    /\ status = "error" => rows = {}
    /\ status = "running" => \A r \in rows : r < i
=============================================================================
