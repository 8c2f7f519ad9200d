----------------------------- MODULE ModbusRead -----------------------------
(***************************************************************************)
(* What ModbusCollector and ModbusProcessor compute: the registers a tag   *)
(* occupies, the limits of a read request, the registers of an answer and  *)
(* a tag's value out of them.                                              *)
(***************************************************************************)
EXTENDS TagValues, SequencesExt

CONSTANTS
  MAX_REGISTERS_PER_READ,
  MAX_COILS_PER_READ,
  max_address_gap

AreaNames == {"coil", "discrete", "holding", "input"}

\* The prefixes in the order _parse_address tries them.
AddressPrefixes ==
  << [letters |-> <<"D", "I">>, area |-> "discrete"],
     [letters |-> <<"C">>,      area |-> "coil"],
     [letters |-> <<"D">>,      area |-> "holding"],
     [letters |-> <<"I">>,      area |-> "input"],
     [letters |-> <<"H", "R">>, area |-> "holding"],
     [letters |-> <<"I", "R">>, area |-> "input"],
     [letters |-> <<>>,         area |-> "holding"] >>

\* The first prefix that an address begins with.
FirstPrefix(i, letters) ==
  /\ IsPrefix(AddressPrefixes[i].letters, letters)
  /\ \A j \in 1 .. i - 1 : ~IsPrefix(AddressPrefixes[j].letters, letters)

\* The place an address means, in a set that is empty when int() raises ValueError:
\* what is left behind the first prefix that fits must be the number, without a length.
ParseAddress(tag) ==
  {[area |-> AddressPrefixes[i].area, address |-> tag.number] :
     i \in {j \in DOMAIN AddressPrefixes :
              /\ FirstPrefix(j, tag.letters)
              /\ AddressPrefixes[j].letters = tag.letters
              /\ tag.colon = 0}}

RegisterSize(tag) ==
  CASE tag.data_type = "STRING" /\ tag.words > 0        -> tag.words
    [] tag.data_type \in {"INT32", "UINT32", "FLOAT32"} -> 2
    [] tag.data_type = "FLOAT64"                        -> 4
    [] OTHER                                       -> 1

IsBitArea(area) == area \in {"coil", "discrete"}

Limits(area) ==
  [gap |-> max_address_gap, unit |-> 1,
   limit |-> IF IsBitArea(area) THEN MAX_COILS_PER_READ ELSE MAX_REGISTERS_PER_READ]

FunctionCode(area) ==
  CASE area = "coil"    -> 1
    [] area = "discrete" -> 2
    [] area = "holding"  -> 3
    [] area = "input"    -> 4

\* The request for a read group.
Request(g) ==
  [area |-> g.area, start |-> g.start, count |-> g.end - g.start]

\* _read_group and _parse_bit_response: an answer to another request is cut to the
\* size of this one.
ReadResult(g, payload) ==
  Registers(g.area, g.start, Request(g).count, payload)

\* A processor's word order: which of two words is the high one.
InOrder(word_order, cells) == IF word_order = "little" THEN Reverse(cells) ELSE cells

\* _parse_value with the types it has a branch for; every other type is a UINT16.
ParseValue(c, tag, data) ==
  { CASE tag.data_type = "STRING" ->
           CellsWhileRead(data, p.area, p.address,
                          IF tag.words > 0 THEN tag.words ELSE 1)
      [] tag.data_type \in {"INT32", "UINT32", "FLOAT32"} ->
           InOrder(c.word_order, Cells(data, p.area, p.address, 2))
      [] tag.data_type = "FLOAT64" ->
           InOrder(c.word_order, Cells(data, p.area, p.address, 4))
      [] OTHER -> Cells(data, p.area, p.address, 1) :
    p \in ParseAddress(tag) }

-----------------------------------------------------------------------------
(* What an address and a type mean, independently of how they are read.      *)

\* The areas of the module's documentation, without IR: such an address is refused.
AreaOf ==
  [letters \in {<<"C">>, <<"D", "I">>, <<"D">>, <<"I">>, <<"H", "R">>, <<>>} |->
     CASE letters = <<"C">>      -> "coil"
       [] letters = <<"D", "I">> -> "discrete"
       [] letters = <<"I">>      -> "input"
       [] OTHER                  -> "holding"]

\* A string without a length is one register's.
Width(tag) ==
  CASE tag.data_type = "STRING" -> IF tag.words > 0 THEN tag.words ELSE 1
    [] tag.data_type \in {"INT32", "UINT32", "FLOAT32"} -> 2
    [] tag.data_type = "FLOAT64"                        -> 4
    [] OTHER                                       -> 1

Meant(c, tag) ==
  LET cells == DeviceCells(AreaOf[tag.letters], tag.number, Width(tag))
  IN  IF tag.data_type = "STRING" THEN cells ELSE InOrder(c.word_order, cells)

\* Types of more than 16 bits without a branch of their own are read as 16 bits.
Supported(c, groups, tag) ==
  tag.data_type \notin {"DWORD", "INT64", "UINT64", "LWORD"}
=============================================================================
