---------------------------- MODULE MCDeviceRead ----------------------------
(* Devices of each protocol, with the tags of two collection groups: tags    *)
(* that are merged, that overlap, that a gap or the limit keeps apart, that  *)
(* need several registers, and that are refused.                             *)
EXTENDS DeviceRead

\* Rows with the columns of an address and a type, and the others empty.
ModbusTag(letters, number, type, words) ==
  [letters |-> letters, number |-> number, data_type |-> type,
   data_size |-> 16, words |-> words, memory |-> "", colon |-> 0, scaled |-> FALSE,
   decimals |-> FALSE, format |-> "", bool_invert |-> FALSE, finite |-> TRUE]
McTag(letter, digits, type) ==
  [device |-> letter, digits |-> digits, data_type |-> type,
   data_size |-> 16, words |-> 0, memory |-> "", colon |-> 0, scaled |-> FALSE,
   decimals |-> FALSE, format |-> "", bool_invert |-> FALSE, finite |-> TRUE]
McString(memory, digits, words, colon) ==
  [McTag("D", digits, "STRING")
     EXCEPT !.memory = memory, !.words = words, !.colon = colon]
FenetTag(memory, letter, number, type, words) ==
  [letter |-> letter, number |-> number, data_type |-> type,
   data_size |-> 16, words |-> words, memory |-> memory, colon |-> 0, scaled |-> FALSE,
   decimals |-> FALSE, format |-> "", bool_invert |-> FALSE, finite |-> TRUE]
S7Tag(memory, area, byte, bit, type) ==
  [area |-> area, byte |-> byte, bit |-> bit, x |-> area # "Q", actual |-> 0,
   data_type |-> type,
   data_size |-> 16, words |-> 0, memory |-> memory, colon |-> 0, scaled |-> FALSE,
   decimals |-> FALSE, format |-> "", bool_invert |-> FALSE, finite |-> TRUE]
S7String(area, byte, words, actual) ==
  [S7Tag("", area, byte, 0, "STRING") EXCEPT !.words = words, !.actual = actual]

Setup(protocol, series, word_order, one, two) ==
  [protocol |-> protocol, series |-> series, word_order |-> word_order,
   groups |-> <<one, two>>]

ModbusSetups ==
  { Setup("tcp", "", "big",
      {[ModbusTag(<<"D">>, 0, "DEC", 0) EXCEPT !.data_size = 32],
       [ModbusTag(<<"H", "R">>, 3, "UDEC", 0) EXCEPT !.scaled = TRUE],
       [ModbusTag(<<>>, 5, "REAL", 0) EXCEPT !.finite = FALSE]},
      {[ModbusTag(<<"C">>, 1, "BIT", 0) EXCEPT !.bool_invert = TRUE],
       ModbusTag(<<"I">>, 0, "INT16", 0)}),
    Setup("tcp", "", "little",
      {ModbusTag(<<"D">>, 1, "FLOAT64", 0), ModbusTag(<<"D">>, 2, "INT16", 0),
       ModbusTag(<<"D">>, 4, "STRING", 2),
       [ModbusTag(<<"D">>, 4, "STRING", 2) EXCEPT !.decimals = TRUE]},
      {ModbusTag(<<"D", "I">>, 0, "BOOL", 0), ModbusTag(<<"D", "I">>, 6, "BOOL", 0)}),
    Setup("rtu_over_tcp", "", "big",
      {ModbusTag(<<"D">>, 0, "UINT16", 0), ModbusTag(<<"D">>, 6, "UINT32", 0),
       ModbusTag(<<"D">>, 8, "STRING", 0)},
      {[ModbusTag(<<"I">>, 0, "INT16", 0) EXCEPT !.format = "float"]}),
    Setup("rtu", "", "big",
      {ModbusTag(<<"D">>, 0, "UINT16", 0), ModbusTag(<<"C">>, 6, "BOOL", 0)},
      {ModbusTag(<<"D">>, 4, "INT32", 0), ModbusTag(<<"D">>, 4, "DWORD", 0)}),
    Setup("tcp", "", "big", {ModbusTag(<<"I", "R">>, 0, "UINT16", 0)}, {}),
    Setup("tcp", "", "big", {},
      {[ModbusTag(<<"D">>, 0, "STRING", 2) EXCEPT !.memory = "D"]}) }

McSetups ==
  { Setup("mc", "q", "little",
      {McTag("M", <<5>>, "BOOL"), McTag("M", <<7>>, "BOOL"),
       [McTag("D", <<1, 0>>, "UDEC") EXCEPT !.data_size = 32]},
      {McString("D", <<0>>, 3, 0), McString("", <<0>>, 0, 2),
       [McTag("D", <<2>>, "DEC") EXCEPT !.decimals = TRUE]}),
    Setup("mc", "iq-r", "big",
      {McTag("X", <<1, 15>>, "BOOL"), McTag("W", <<1, 10>>, "FLOAT64")},
      {McTag("B", <<0>>, "BOOL"), McTag("D", <<9>>, "BOOL")}),
    Setup("mc", "q", "little",
      {McTag("M", <<1>>, "BOOL"), McTag("M", <<6>>, "BOOL"),
       McTag("X", <<1, 7>>, "BOOL"), McTag("D", <<4>>, "WORD")}, {}),
    Setup("mc", "q", "little", {McTag("TN", <<0>>, "UINT16")}, {}) }

\* Two bits, the address of the one a sixteenth of the other's, rounded down.
McTwoBits ==
  { Setup("mc", "q", "little",
      {McTag("M", <<1>>, "BOOL"), McTag("M", <<6>>, "BOOL")}, {}) }

FenetSetups ==
  { Setup("fenet", "", "little",
      {FenetTag("", "D", 0, "INT16", 0), FenetTag("", "", 3, "UINT32", 0),
       FenetTag("", "T", 0, "UINT16", 0), FenetTag("", "D", 0, "INT64", 0)},
      {FenetTag("", "D", 2, "FLOAT32", 0), FenetTag("", "D", 2, "FLOAT64", 0)}),
    Setup("fenet", "", "little",
      {FenetTag("", "D", 0, "STRING", 1), FenetTag("", "D", 5, "STRING", 2),
       FenetTag("", "R", 0, "DWORD", 0)},
      {FenetTag("", "P", 1, "BOOL", 0)}),
    Setup("fenet", "", "little", {FenetTag("D", "", 0, "INT16", 0)}, {}) }

S7Setups ==
  { Setup("s7", "", "big",
      {S7Tag("", "DB1", 0, 0, "INT16"), S7Tag("", "DB1", 1, 3, "BOOL"),
       S7Tag("", "DB2", 1, 0, "FLOAT32"), S7Tag("", "M", 4, 2, "BOOL")},
      {S7String("DB1", 0, 2, 2), S7String("I", 0, 2, 0), S7Tag("", "", 2, 0, "BYTE")}),
    Setup("s7", "", "big", {S7Tag("", "Q", 0, 1, "BOOL")}, {}),
    Setup("s7", "", "big", {S7Tag("DB", "DB1", 0, 0, "INT16")}, {}) }

MCSetups == ModbusSetups \cup McSetups \cup FenetSetups \cup S7Setups

AllSetups == MCSetups \cup McTwoBits

MCAreas == Modbus!AreaNames \cup Mc!AreaNames \cup Fenet!AreaNames \cup S7!AreaNames
MCRules == {Limits(c) : c \in AllSetups}
MCTagSets == {Parsed(c, Loaded(c).groups[g]) : c \in AllSetups, g \in Groups} \cup {{}}
=============================================================================
