----------------------------- MODULE TagValues ------------------------------
(***************************************************************************)
(* What the collectors and processors of the PLC protocols share.  The     *)
(* content of a register (word, byte, coil) is the cell of the device it   *)
(* was read from; what a collection has read is a function from places,    *)
(* <<area, address>>, to cells; a value is the sequence of its cells, most *)
(* significant first, and the empty sequence is None.                      *)
(***************************************************************************)
EXTENDS Integers, Sequences

None == <<>>

\* n registers from an address on: struct.unpack of all of them, or None.
Cells(data, area, address, n) ==
  IF \A i \in 0 .. n - 1 : <<area, address + i>> \in DOMAIN data
  THEN [i \in 1 .. n |-> data[<<area, address + i - 1>>]]
  ELSE None

\* The same up to the first register that is missing: the strings of Modbus and MC.
CellsWhileRead(data, area, address, n) ==
  LET present == {k \in 0 .. n :
                    \A i \in 0 .. k - 1 : <<area, address + i>> \in DOMAIN data}
  IN  Cells(data, area, address, CHOOSE k \in present : \A j \in present : j <= k)

\* The n cells a device has from an address on.
DeviceCells(area, address, n) == [i \in 1 .. n |-> <<area, address + i - 1>>]

\* dict.update: what is read again replaces what was there.
Update(data, registers) ==
  [place \in DOMAIN registers \cup DOMAIN data |->
     IF place \in DOMAIN registers THEN registers[place] ELSE data[place]]

\* The registers of an answer that begins at start: those that were asked for, and
\* fewer if the answer is shorter.
Registers(area, start, count, payload) ==
  LET n == IF Len(payload) < count THEN Len(payload) ELSE count
  IN  [place \in {<<area, a>> : a \in start .. start + n - 1} |->
         payload[place[2] - start + 1]]
=============================================================================
