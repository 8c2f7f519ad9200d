------------------------------- MODULE TagRows -------------------------------
(***************************************************************************)
(* What BaseProcessor.process makes of a tag's value: the ProcessedData    *)
(* whose columns are published.  A row is its one column with a value, the *)
(* cells the value comes from and what was done to it, or has no value at  *)
(* all.  Arithmetic is left out: a number that was scaled is a number.     *)
(*                                                                         *)
(* The fields of a tag: scaled (scale is not 1.0), decimals (set or not),  *)
(* format, bool_invert, and finite: whether the device holds a number in   *)
(* these registers or a float's NaN or infinity.                           *)
(***************************************************************************)
EXTENDS TagValues

\* _FORMAT_TO_OUTPUT_TYPE; "" for every other format.
FormatOutput(format) ==
  CASE format \in {"float32", "float64", "real", "lreal", "float"} -> "float"
    [] format \in {"int32", "int16", "int", "word", "dword"}       -> "int"
    [] format \in {"int64", "bigint", "lword"}                     -> "bigint"
    [] format \in {"string", "text"}                               -> "text"
    [] format \in {"bool", "boolean"}                              -> "bool"
    [] OTHER                                                       -> ""

\* _DATATYPE_TO_OUTPUT_TYPE
TypeOutput(type) ==
  CASE type \in {"INT8", "UINT8", "BYTE"}                    -> "byte"
    [] type \in {"INT16", "UINT16", "WORD", "INT32", "DWORD"} -> "int"
    [] type \in {"UINT32", "INT64", "UINT64", "LWORD"}        -> "bigint"
    [] type \in {"FLOAT32", "FLOAT64"}                       -> "float"
    [] type = "BOOL"                                         -> "bool"
    [] type = "STRING"                                       -> "text"

\* _compute_output_type: the format first, then scale and decimals, then the type.
OutputType(tag) ==
  CASE FormatOutput(tag.format) # "" -> FormatOutput(tag.format)
    [] FormatOutput(tag.format) = "" /\ (tag.scaled \/ tag.decimals) -> "float"
    [] OTHER -> TypeOutput(tag.data_type)

\* apply_scaling: a text, a bit or its opposite, a number; None if it is not finite.
Scaled(tag, cells) ==
  CASE cells = None \/ (tag.data_type \in {"FLOAT32", "FLOAT64"} /\ ~tag.finite) -> "none"
    [] tag.data_type = "STRING" -> "text"
    [] tag.data_type = "BOOL"   -> IF tag.bool_invert THEN "opposite" ELSE "bit"
    [] OTHER               -> "number"

Column ==
  [bool |-> "v_bool", int |-> "v_int", bigint |-> "v_bigint", float |-> "v_float",
   text |-> "v_text"]

NoValue == [column |-> "none", of |-> None, kind |-> "none"]

\* _create_processed_data_fast, in a set that is empty when float() or int() raises on a
\* text, which is taken not to read as a number.  v_byte is computed and not passed on.
Rows(tag, cells) ==
  LET output == OutputType(tag)
      kind == Scaled(tag, cells)
  IN  CASE kind = "none" \/ output = "byte" -> {NoValue}
        [] kind = "text" /\ output \in {"float", "int", "bigint"} -> {}
        [] OTHER -> {[column |-> Column[output], of |-> cells, kind |-> kind]}

-----------------------------------------------------------------------------
(* TagDefinition.output_type and DataType.db_column, which say the same of a *)
(* tag and which process() does not use.                                     *)

FinalType(tag) ==
  CASE tag.data_type \in {"STRING", "BOOL"} -> tag.data_type
    [] /\ tag.data_type \notin {"STRING", "BOOL"}
       /\ tag.format \in {"float", "real", "float64"} -> "FLOAT64"
    [] OTHER -> IF tag.scaled \/ tag.decimals \/ tag.format = "float32"
                THEN "FLOAT32" ELSE tag.data_type

DbColumn(type) ==
  CASE type \in {"INT8", "UINT8", "BYTE"}                              -> "v_byte"
    [] type \in {"INT16", "UINT16", "WORD", "INT32", "UINT32", "DWORD"} -> "v_int"
    [] type \in {"INT64", "UINT64", "LWORD"}                           -> "v_bigint"
    [] type \in {"FLOAT32", "FLOAT64"}                                 -> "v_float"
    [] type = "BOOL"                                                   -> "v_bool"
    [] type = "STRING"                                                 -> "v_text"

\* A whole number may be in the wider column.
Holds(column, tag) ==
  \/ column = DbColumn(FinalType(tag))
  \/ {column, DbColumn(FinalType(tag))} = {"v_int", "v_bigint"}

\* The row holds what the registers mean, where the tag's type says.
HoldsValue(row, tag, meant) ==
  /\ row.of = meant
  /\ Holds(row.column, tag)
  /\ row.kind = CASE tag.data_type = "STRING" -> "text"
                  [] tag.data_type = "BOOL" -> IF tag.bool_invert THEN "opposite" ELSE "bit"
                  [] OTHER -> "number"

\* What the two agree on: not bytes, which have no column in the end, nor texts and bits
\* with a scale, decimals or a format, formats of numbers that are no float's, and
\* registers that hold no number.
RowSupported(tag) ==
  /\ tag.finite
  /\ tag.data_type \in {"INT8", "UINT8", "BYTE"} => tag.scaled \/ tag.decimals
  /\ tag.data_type \in {"STRING", "BOOL"} => ~tag.scaled /\ ~tag.decimals
  /\ tag.format \in {"", "float32", "float64", "float", "real"}
  /\ tag.format # "" => tag.data_type \notin {"STRING", "BOOL"}
=============================================================================
