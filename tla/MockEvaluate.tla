---------------------------- MODULE MockEvaluate ----------------------------
(***************************************************************************)
(* The formula engine's test harness, src/packages/core/src/formula_parser/*)
(* __tests__/mock_state.ts: mergeContext builds a context (a mock store    *)
(* whose datasheet dst123 holds the fixture field map merged with the      *)
(* test's own fields, and a record), and evaluate(expression, ctx,         *)
(* isTransform) prepares it and calls the engine's evaluate.               *)
(*                                                                         *)
(* Preparing the context is done in place: a null field of the store's    *)
(* field map is replaced by a default Number field, and, when isTransform  *)
(* holds, the record's cell of every Text field is wrapped in a rich-text  *)
(* segment [{ type: 1, text: <cell> }].  The engine itself is not in this  *)
(* repository; what the model keeps is the field map and record data it is *)
(* handed, since the engine is a function of them.                         *)
(***************************************************************************)
EXTENDS Naturals

CONSTANTS
    Null,             \* a null entry of the field map
    FieldOverrides,   \* mergeContext's _fieldMap: field id -> type or Null
    RecordFields,     \* the field ids recordData has a value for
    MaxEvals          \* bound on the evaluate calls made with one context

FieldType == {"Number", "Text", "DateTime", "MultiSelect", "Checkbox",
              "Formula"}

(***************************************************************************)
(* The fixture field map, by field id and type.                            *)
(***************************************************************************)
FixtureFieldMap ==
    [a |-> "Number", b |-> "Text", c |-> "DateTime", d |-> "MultiSelect",
     e |-> "DateTime", f |-> "Checkbox", x |-> "Formula",
     fld11111 |-> "Number", fld22222 |-> "Text", fld33333 |-> "Number",
     fld44444 |-> "Number", fld55555 |-> "Number", fld66666 |-> "Number"]

(***************************************************************************)
(* { ...fieldMap, ...(_fieldMap || {}) }: the test's fields win.           *)
(***************************************************************************)
MergedFieldMap ==
    [id \in DOMAIN FixtureFieldMap \cup DOMAIN FieldOverrides |->
        IF id \in DOMAIN FieldOverrides THEN FieldOverrides[id]
                                        ELSE FixtureFieldMap[id]]

FieldIds == DOMAIN MergedFieldMap

(***************************************************************************)
(* A cell of record.data: whether recordData gave it a value, and how many *)
(* rich-text segments have been wrapped around it.                         *)
(***************************************************************************)
Cell == [given : BOOLEAN, wraps : Nat]

VARIABLES
    fieldMap,     \* ctx.state.datasheetMap.dst123...snapshot.meta.fieldMap
    data,         \* ctx.record.data
    evals,        \* evaluate calls made so far with this context
    firstInput,   \* firstInput[t]: what the engine got on the first call with isTransform = t
    lastInput     \* lastInput[t]: what it got on the latest such call

vars == <<fieldMap, data, evals, firstInput, lastInput>>

NoInput == <<>>

(***************************************************************************)
(* mergeContext(recordData, _fieldMap) and generateMockState.              *)
(***************************************************************************)
Init ==
    /\ fieldMap = MergedFieldMap
    /\ data = [id \in FieldIds |-> [given |-> id \in RecordFields, wraps |-> 0]]
    /\ evals = 0
    /\ firstInput = [t \in BOOLEAN |-> NoInput]
    /\ lastInput = [t \in BOOLEAN |-> NoInput]

(***************************************************************************)
(* The loop `for (const id in fieldMap)` of evaluate: fill a null field,   *)
(* then wrap a Text field's cell.                                          *)
(***************************************************************************)
FilledFieldMap(fm) ==
    [id \in DOMAIN fm |-> IF fm[id] = Null THEN "Number" ELSE fm[id]]

TransformedData(fm, d, isTransform) ==
    [id \in DOMAIN d |->
        IF FilledFieldMap(fm)[id] = "Text" /\ isTransform
          THEN [d[id] EXCEPT !.wraps = @ + 1]
          ELSE d[id]]

(***************************************************************************)
(* evaluate(expression, ctx, isTransform): prepare the context in place,  *)
(* then hand _evaluate the field map and the record.                       *)
(***************************************************************************)
Evaluate(isTransform) ==
    LET fm == FilledFieldMap(fieldMap)
        d  == TransformedData(fieldMap, data, isTransform)
    IN  /\ evals < MaxEvals
        /\ fieldMap' = fm
        /\ data' = d
        /\ evals' = evals + 1
        /\ lastInput' = [lastInput EXCEPT ![isTransform] = <<fm, d>>]
        /\ firstInput' = IF firstInput[isTransform] = NoInput
                           THEN [firstInput EXCEPT ![isTransform] = <<fm, d>>]
                           ELSE firstInput

Next == \E t \in BOOLEAN : Evaluate(t)

Spec == Init /\ [][Next]_vars

=============================================================================
