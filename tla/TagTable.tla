------------------------------ MODULE TagTable ------------------------------
(***************************************************************************)
(* ConfigLoader's part of a tag: a row of the CSV file becomes a           *)
(* TagDefinition.  A row has the fields of its protocol's addresses, the   *)
(* columns data_type (as written) and data_size, words (word_length),      *)
(* memory ("" if the address column holds it all) and colon, the length    *)
(* written behind the address ("D900:10"), 0 if there is none.             *)
(***************************************************************************)
EXTENDS Integers

DataTypes ==
  {"BOOL", "STRING", "FLOAT32", "FLOAT64", "INT8", "INT16", "INT32", "INT64", "UINT8",
   "UINT16", "UINT32", "UINT64", "BYTE", "WORD", "DWORD", "LWORD"}

DirectTypes ==
  [t \in DataTypes \cup {"BIT", "REAL", "LREAL"} |->
     CASE t = "BIT"   -> "BOOL"
       [] t = "REAL"  -> "FLOAT32"
       [] t = "LREAL" -> "FLOAT64"
       [] OTHER       -> t]

\* A name followed by its size in bits; other sizes are those of the narrowest type.
SizedTypes ==
  [UDEC |-> [s \in {16, 32, 64} |->
               CASE s = 16 -> "UINT16" [] s = 32 -> "UINT32" [] s = 64 -> "UINT64"],
   DEC |-> [s \in {16, 32, 64} |->
               CASE s = 16 -> "INT16" [] s = 32 -> "INT32" [] s = 64 -> "INT64"]]

\* _resolve_data_type: FLOAT, and whatever it does not know, is a float.
DataType(raw_type, data_size) ==
  CASE raw_type \in DOMAIN DirectTypes -> DirectTypes[raw_type]
    [] raw_type \in DOMAIN SizedTypes  ->
         SizedTypes[raw_type][IF data_size \in {32, 64} THEN data_size ELSE 16]
    [] OTHER -> IF raw_type = "FLOAT" /\ data_size = 64 THEN "FLOAT64" ELSE "FLOAT32"

\* _parse_tag_row: with a memory column, a string's length is written behind its address.
TagOf(row) ==
  LET type == DataType(row.data_type, row.data_size)
  IN  [row EXCEPT !.data_type = type,
                  !.colon = IF row.memory # "" /\ row.words > 0 /\ type = "STRING"
                            THEN row.words ELSE @]
=============================================================================
