------------------------------- MODULE S7Read -------------------------------
(***************************************************************************)
(* What S7Collector and S7Processor compute.  Everything is addressed and  *)
(* read in bytes.  A tag's address is its area, a data block with its      *)
(* number or M, I, Q, then a byte and for a BOOL a bit.                    *)
(***************************************************************************)
EXTENDS TagValues, SequencesExt

CONSTANTS
  MAX_BYTES_PER_READ,
  max_gap

AreaNames == {"DB1", "DB2", "M", "I", "Q"}

\* from_csv_row writes a memory column in front of the address, and the parser with a
\* memory column expects an address without it: int() raises.  Without the column, M, I
\* and Q need the letter X before a byte with a bit, as a data block's address has it.
\* A mere number is a byte of M, and int() raises on a bit behind it.
ParseAddress(tag) ==
  {[area |-> IF a = "" THEN "M" ELSE a, address |-> tag.byte, bit |-> tag.bit] :
     a \in {x \in {tag.area} \cap (AreaNames \cup {""}) :
              tag.memory = "" /\ (tag.bit > 0 => tag.x /\ tag.area # "")}}

ByteSize(tag) ==
  CASE tag.data_type = "STRING" /\ tag.words > 0        -> 2 * tag.words
    [] tag.data_type \in {"BOOL", "INT8", "UINT8"}      -> 1
    [] tag.data_type \in {"INT32", "UINT32", "FLOAT32"} -> 4
    [] tag.data_type = "FLOAT64"                        -> 8
    [] OTHER                                       -> 2

Limits(area) == [gap |-> max_gap, unit |-> 1, limit |-> MAX_BYTES_PER_READ]

\* db_read and read_area
Request(g) == [area |-> g.area, start |-> g.start, count |-> g.end - g.start]

ReadResult(g, payload) == Registers(g.area, g.start, Len(payload), payload)

Smaller(a, b) == IF a < b THEN a ELSE b

\* _parse_string: the characters that the second byte counts, but not more than
\* max_length; if they are none or not all read, max_length bytes from the first on.
\* The counter's value is the tag's field actual.
ParseString(tag, p, data) ==
  LET max_length == IF tag.words > 0 THEN tag.words ELSE 10
      counted ==
        IF Cells(data, p.area, p.address, 2) = None THEN None
        ELSE Cells(data, p.area, p.address + 2, Smaller(tag.actual, max_length))
  IN  IF counted # None THEN counted ELSE Cells(data, p.area, p.address, max_length)

BitOf(cells, bit) == [i \in DOMAIN cells |-> cells[i] \o <<bit>>]

ParseValue(tag, data) ==
  { CASE tag.data_type = "BOOL" -> BitOf(Cells(data, p.area, p.address, 1), p.bit)
      [] tag.data_type \in {"INT8", "UINT8"} -> Cells(data, p.area, p.address, 1)
      [] tag.data_type \in {"INT32", "UINT32", "DWORD", "FLOAT32"} ->
           Cells(data, p.area, p.address, 4)
      [] tag.data_type = "FLOAT64" -> Cells(data, p.area, p.address, 8)
      [] tag.data_type = "STRING" -> ParseString(tag, p, data)
      [] OTHER -> Cells(data, p.area, p.address, 2) :
    p \in ParseAddress(tag) }

-----------------------------------------------------------------------------
(* What an address and a type mean. *)

Width(tag) ==
  CASE tag.data_type \in {"INT8", "UINT8", "BYTE"} -> 1
    [] tag.data_type \in {"INT16", "UINT16", "WORD"} -> 2
    [] tag.data_type \in {"INT32", "UINT32", "DWORD", "FLOAT32"} -> 4
    [] OTHER -> 8

Meant(tag) ==
  LET area == IF tag.area = "" THEN "M" ELSE tag.area
  IN  CASE tag.data_type = "BOOL"   -> <<<<area, tag.byte, tag.bit>>>>
        [] tag.data_type = "STRING" -> DeviceCells(area, tag.byte + 2, tag.actual)
        [] OTHER               -> DeviceCells(area, tag.byte, Width(tag))

\* DWORD is read as two bytes, BYTE as two; a string must have a character, and all of
\* them must be read and not be cut.
Supported(tag) ==
  IF tag.data_type = "STRING"
  THEN tag.actual \in 1 .. tag.words /\ tag.actual + 2 <= 2 * tag.words
  ELSE tag.data_type \in {"BOOL", "INT8", "UINT8", "INT16", "UINT16", "WORD", "INT32",
                          "UINT32", "FLOAT32", "FLOAT64"}
=============================================================================
