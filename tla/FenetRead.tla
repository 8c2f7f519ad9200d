----------------------------- MODULE FenetRead ------------------------------
(***************************************************************************)
(* What FenetCollector and FenetProcessor compute.  A tag's memory column  *)
(* is "" or its device; its address carries the device's letter as well    *)
(* when TagDefinition.from_csv_row has joined the two columns.             *)
(***************************************************************************)
EXTENDS TagValues, SequencesExt

CONSTANTS
  MAX_WORDS_PER_READ,
  max_gap

BIT_DEVICES == {"P", "M", "K", "F", "L"}
WORD_DEVICES == {"D", "T", "C", "U", "Z", "R"}
AreaNames == BIT_DEVICES \cup WORD_DEVICES

\* from_csv_row: the text of an address, its letter and its number.
Loaded(tag) ==
  [letter |-> IF tag.memory # "" THEN tag.memory ELSE tag.letter, number |-> tag.number]

\* With a memory column the whole address must be a number: int("D100") raises, and so
\* does a length behind the number.
ParseAddress(tag) ==
  LET text == Loaded(tag)
      device == CASE tag.memory # "" -> tag.memory
                  [] tag.memory = "" /\ text.letter # "" -> text.letter
                  [] OTHER -> "D"
  IN  {[area |-> d, address |-> text.number] :
         d \in {x \in AreaNames \cap {device} :
                  tag.colon = 0 /\ (tag.memory # "" => text.letter = "")}}

\* _get_word_size does not know DWORD, and a string is one word.
WordSize(tag) ==
  CASE tag.data_type \in {"INT32", "UINT32", "FLOAT32"} -> 2
    [] tag.data_type = "FLOAT64"                        -> 4
    [] OTHER                                       -> 1

Limits(device) == [gap |-> max_gap, unit |-> 1, limit |-> MAX_WORDS_PER_READ]

Request(g) == [area |-> g.area, start |-> g.start, count |-> g.end - g.start]

\* _read_group takes every word of the answer, whatever it has asked for.
ReadResult(g, payload) == Registers(g.area, g.start, Len(payload), payload)

\* _parse_value: two words and four have the low word first.
ParseValue(tag, data) ==
  { CASE tag.data_type \in {"INT32", "UINT32", "DWORD", "FLOAT32"} ->
           Reverse(Cells(data, p.area, p.address, 2))
      [] tag.data_type = "FLOAT64" -> Reverse(Cells(data, p.area, p.address, 4))
      [] tag.data_type = "STRING" ->
           Cells(data, p.area, p.address, IF tag.words > 0 THEN tag.words ELSE 1)
      [] OTHER -> Cells(data, p.area, p.address, 1) :
    p \in ParseAddress(tag) }

-----------------------------------------------------------------------------
(* What an address and a type mean. *)

Device(tag) ==
  CASE tag.memory # "" -> tag.memory
    [] tag.memory = "" /\ tag.letter # "" -> tag.letter
    [] OTHER -> "D"

\* DataType.byte_size in registers, of which a type of one byte fills one; a string
\* without a length is one register's.
Width(tag) ==
  CASE tag.data_type \in {"INT32", "UINT32", "DWORD", "FLOAT32"} -> 2
    [] tag.data_type \in {"INT64", "UINT64", "LWORD", "FLOAT64"} -> 4
    [] tag.data_type = "STRING"  -> IF tag.words > 0 THEN tag.words ELSE 1
    [] OTHER                -> 1

Meant(tag) ==
  LET cells == DeviceCells(Device(tag), tag.number, Width(tag))
  IN  IF tag.data_type = "STRING" THEN cells ELSE Reverse(cells)

\* The types for which the collector reads the whole value. It is not so of a DWORD, of a
\* longer string, nor of INT64, UINT64 and LWORD, of which the processor takes one register.
Supported(tag) == WordSize(tag) = Width(tag)
=============================================================================
