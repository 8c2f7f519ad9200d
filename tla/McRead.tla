------------------------------- MODULE McRead -------------------------------
(***************************************************************************)
(* What McProtocolCollector and McProtocolProcessor compute.  Bit devices  *)
(* are addressed in bits and read in words of WordBits bits (16; a bound). *)
(* The number of an address is its sequence of digits: the base depends on *)
(* the device, on the PLC series and on which of the two classes reads it. *)
(***************************************************************************)
EXTENDS TagValues, SequencesExt

CONSTANTS
  max_read_points,   \* of the frame type
  bit_read_points,   \* the 960 words of a read of bits
  max_address_gap,
  WordBits

\* DEVICE_INFO: the letters, whether it is a bit device, and its base for the Q and L
\* and for the iQ-R and iQ-F series.
BitDevices == {"X", "Y", "M", "L", "F", "V", "B"}
WordDevices == {"D", "W", "R", "ZR", "TN", "CN"}
AreaNames == BitDevices \cup WordDevices

HexDevices == {"B", "W"}

IsBitArea(device) == device \in BitDevices

Base(c, device) ==
  CASE device \in {"X", "Y"}   -> IF c.series \in {"q", "l"} THEN 8 ELSE 16
    [] device \in HexDevices   -> 16
    [] OTHER                   -> 10

IsNumber(digits, base) == \A d \in ToSet(digits) : d < base
NumberOf(digits, base) == FoldLeft(LAMBDA n, d : base * n + d, 0, digits)

\* The base of a tag's number: its device's, or ten if it is no number in that.
BaseOf(c, tag) ==
  IF IsNumber(tag.digits, Base(c, tag.device)) THEN Base(c, tag.device) ELSE 10

\* The device is the first letter, but for ZR: what follows it must be a number.
ParseAddress(c, tag) ==
  {[area |-> d, address |-> NumberOf(tag.digits, BaseOf(c, tag))] :
     d \in {x \in {tag.device} \ {"TN", "CN"} : IsNumber(tag.digits, BaseOf(c, tag))}}

\* A string's length is that of its address, D100:15, and not the column word_length.
WordCount(tag) == IF tag.colon > 0 THEN tag.colon ELSE 1

RegisterSize(tag) ==
  CASE tag.data_type = "STRING"                         -> WordCount(tag)
    [] tag.data_type \in {"INT32", "UINT32", "FLOAT32"} -> 2
    [] tag.data_type = "FLOAT64"                        -> 4
    [] OTHER                                       -> 1

Smaller(a, b) == IF a < b THEN a ELSE b

\* Bit devices have the limits of words, between the words their bits lie in.
Limits(device) ==
  IF IsBitArea(device)
  THEN [gap |-> max_address_gap, unit |-> WordBits,
        limit |-> Smaller(bit_read_points, max_read_points)]
  ELSE [gap |-> max_address_gap, unit |-> 1, limit |-> max_read_points]

FirstWord(g) == g.start \div WordBits

\* A mistake: the word of the last bits is not counted.
WordsOfWholeWords(g) == g.end \div WordBits - FirstWord(g)

WordsOf(g) == (g.end + WordBits - 1) \div WordBits - FirstWord(g)

\* A read of bits asks for whole words from the address of a word's first bit on.
Request(g) ==
  IF IsBitArea(g.area)
  THEN [area |-> g.area, start |-> FirstWord(g) * WordBits, count |-> WordsOf(g)]
  ELSE [area |-> g.area, start |-> g.start, count |-> g.end - g.start]

\* The device answers a bit device's words with the bits of each.
Answer(request) ==
  IF IsBitArea(request.area)
  THEN [w \in 1 .. request.count |->
          [b \in 0 .. WordBits - 1 |->
             <<request.area, request.start + (w - 1) * WordBits + b>>]]
  ELSE DeviceCells(request.area, request.start, request.count)

\* The bit of a word: the cell of a word that holds bits, or a bit of a word's cell.
BitOf(word, position) ==
  IF DOMAIN word = 0 .. WordBits - 1 THEN word[position] ELSE word \o <<position>>

\* _read_group: the bits of the range out of the words of the answer.
ReadResult(g, payload) ==
  IF IsBitArea(g.area)
  THEN [place \in {<<g.area, a>> : a \in {b \in g.start .. g.end - 1 :
                      b \div WordBits - FirstWord(g) < Len(payload)}} |->
          BitOf(payload[place[2] \div WordBits - FirstWord(g) + 1],
                place[2] % WordBits)]
  ELSE Registers(g.area, g.start, g.end - g.start, payload)

-----------------------------------------------------------------------------
(* McProtocolProcessor *)

\* Its own parser: hexadecimal for four devices whatever the series is, and no second try.
ParseAddressAgain(tag) ==
  LET base == IF tag.device \in {"W", "B", "X", "Y"} THEN 16 ELSE 10
  IN  {[area |-> d, address |-> NumberOf(tag.digits, base)] :
         d \in {x \in {tag.device} \ {"TN", "CN"} : IsNumber(tag.digits, base)}}

Zero == <<"zero">>

\* A bit device's value is one bit; of a word device's the bit is one of sixteen.
ShiftedBit(area, cell, position) ==
  CASE ~IsBitArea(area) -> BitOf(cell, position)
    [] IsBitArea(area) /\ position = 0 -> cell
    [] OTHER -> Zero

\* _extract_bool: what is at address // 16 comes first, and then the address itself.
ExtractBool(data, area, address) ==
  LET word == Cells(data, area, address \div WordBits, 1)
      bit == Cells(data, area, address, 1)
  IN  CASE word # None -> <<ShiftedBit(area, word[1], address % WordBits)>>
        [] word = None /\ bit # None -> <<ShiftedBit(area, bit[1], 0)>>
        [] OTHER -> None

\* The words of a number, the high one first.
InOrder(word_order, cells) == IF word_order = "little" THEN Reverse(cells) ELSE cells

ExtractValue(c, tag, data) ==
  { CASE tag.data_type = "BOOL" -> ExtractBool(data, p.area, p.address)
      [] tag.data_type \in {"INT16", "UINT16"} -> Cells(data, p.area, p.address, 1)
      [] tag.data_type \in {"INT32", "UINT32", "FLOAT32"} ->
           InOrder(c.word_order, Cells(data, p.area, p.address, 2))
      [] tag.data_type = "FLOAT64" ->
           InOrder(c.word_order, Cells(data, p.area, p.address, 4))
      [] tag.data_type = "STRING" ->
           CellsWhileRead(data, p.area, p.address, WordCount(tag))
      [] OTHER -> None :
    p \in ParseAddressAgain(tag) }

-----------------------------------------------------------------------------
(* What an address and a type mean. *)

Meant(c, tag) ==
  LET address == NumberOf(tag.digits, BaseOf(c, tag))
      words == IF tag.data_type = "STRING" /\ tag.words > 0
               THEN tag.words ELSE RegisterSize(tag)
      cells == DeviceCells(tag.device, address, words)
  IN  CASE tag.data_type = "STRING" -> cells
        [] tag.data_type = "BOOL" /\ ~IsBitArea(tag.device) -> <<cells[1] \o <<0>>>>
        [] OTHER -> InOrder(c.word_order, cells)

\* The sixteenth of a bit's address is the address of something else that is read.
BitAddressTaken(c, groups, tag) ==
  /\ tag.data_type = "BOOL"
  /\ \E g \in groups : \E p \in ParseAddress(c, tag) :
       /\ g.area = tag.device
       /\ p.address > 0
       /\ p.address \div WordBits \in g.start .. g.end - 1

\* What the collector and the processor agree on.
Supported(c, groups, tag) ==
  /\ tag.data_type \in {"BOOL", "INT16", "UINT16", "INT32", "UINT32", "FLOAT32",
                         "FLOAT64", "STRING"}
  /\ {p.address : p \in ParseAddress(c, tag)} = {p.address : p \in ParseAddressAgain(tag)}
  /\ tag.data_type = "STRING" => tag.words \in {0, WordCount(tag)}
  /\ ~BitAddressTaken(c, groups, tag)
=============================================================================
