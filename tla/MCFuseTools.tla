---------------------------- MODULE MCFuseTools ----------------------------
(***************************************************************************)
(* FuseTools on a die of three rows and columns.                           *)
(***************************************************************************)
EXTENDS FuseTools

\* A row between two blocks of the left edge, and no block on the top edge.
MCBlocks == {[idx |-> 0, row |-> 0, col |-> 0, side |-> "L"], [idx |-> 2, row |-> 2, col |-> 0, side |-> "L"],
             [idx |-> 1, row |-> 1, col |-> 2, side |-> "R"], [idx |-> 4, row |-> 2, col |-> 1, side |-> "B"]}
MCMeasured == "V22" :> <<4, 0>>

Site(edge, n) == [side |-> edge, number |-> n]
Pin(ball, site, half, bank, clock) ==
  [ball |-> ball, site |-> site, half |-> half, bank |-> bank, clock |-> clock]
Balls == <<Pin("AB16", Site("B", 1), "A", 5, FALSE), Pin("AB17", Site("B", 1), "B", 5, FALSE),
           Pin("V22", Site("B", 2), "A", 5, TRUE), Pin("W15", Site("L", 1), "B", 6, FALSE),
           Pin("AB13", Site("L", 2), "A", 6, FALSE), Pin("AA15", Site("L", 3), "A", 6, FALSE)>>

Cells == (0..2) \X (0..2)
Device(pins) ==
  [known |-> TRUE, pins |-> pins,
   bank |-> [k \in {<<pins[i].site, pins[i].half>> : i \in DOMAIN pins} |->
               (CHOOSE p \in Range(pins) : <<p.site, p.half>> = k).bank],
   type |-> [c \in Cells |-> IF c = <<2, 0>> THEN 48 ELSE 7],
   shortval |-> (7 :> {21, 22} @@ 48 :> {21, 22}),
   attrs |-> [p \in {"ODDR", "ODDRC", "IDDR", "IDDRC"} |->
                IF p \in {"ODDRC", "IDDRC"} THEN [MODE |-> p, LSR |-> "0"] ELSE [MODE |-> p]],
   fuses |-> [ODDR |-> {1}, ODDRC |-> {1, 2, 9}, IDDR |-> {3}, IDDRC |-> {2, 3}]]

\* The pinout, one with the outputs' balls swapped, one whose bank table disagrees,
\* one with a clock ball on the top edge, one that lacks a ball.
Plain == Device(Balls)
Swapped == Device([Balls EXCEPT ![1].ball = "AB17", ![2].ball = "AB16"])
MCInstalls ==
  {Plain, Swapped, [Plain EXCEPT !.bank[<<Site("L", 2), "A">>] = 7],
   Device(SubSeq(Balls, 1, 5)), Device(Append(Balls, Pin("A1", Site("T", 2), "A", 1, TRUE)))}

MCPlan == "oddr-pair" :> [ODDR |-> "AB16", ODDRC |-> "AB17"] @@ "iddr-pair" :> [IDDR |-> "AA15", IDDRC |-> "W15"]
Entry(pairs, fuses) == [pairs |-> pairs, fuses |-> fuses]
Entries ==
  {Entry({<<"MODE", "ODDR">>}, {1}), Entry({<<"MODE", "ODDRC">>}, {1}), Entry({<<"LSR", "0">>}, {2}),
   Entry({<<"MODE", "IDDR">>}, {3}), Entry({<<"MODE", "IDDRC">>}, {3}),
   Entry({<<"FCLK", "UNKNOWN">>, <<"LSR", "0">>}, {4})}
MCLogicTable == <<"io", "A">> :> Entries @@ <<"io", "B">> :> Entries

------------------------------------------------------------------------------
IoSite(cell, name) == [cell |-> cell, name |-> name]
MCIoSites == {IoSite(<<0, 0>>, "IOBA"), IoSite(<<0, 0>>, "IOBB"), IoSite(<<2, 2>>, "IOBA"),
              IoSite(<<0, 1>>, "BANK4"), IoSite(<<0, 1>>, "BANK5")}
Value(attr, val, fuses) == [attr |-> attr, val |-> val, fuses |-> fuses]
MCIobTable ==
  <<<<0, 0>>, "IOBA">> :> {Value("IO_TYPE", "33", {1}), Value("PULLMODE", "UP", {2}),
                           Value("PULLMODE", "KEEPER", {2, 3}), Value("PADDI", "PADDI", {4})} @@
  <<<<1, 0>>, "IOBB">> :> {Value("IO_TYPE", "18", {5}), Value("DRIVE", "8", {6}), Value("DRIVE", "4", {6, 7})} @@
  <<<<2, 2>>, "IOBA">> :> {Value("DRIVE", "8", {1}), Value("PULLMODE", "NONE", {2}), Value("IO_TYPE", "33", {1, 2, 3})}
MCBankEntries == <<0, 1>> :> {[bank |-> "BANK4", attr |-> "IO_TYPE", val |-> "33", fuses |-> {1}],
                              [bank |-> "BANK5", attr |-> "IO_TYPE", val |-> "33", fuses |-> {2}]}
MCFuseOffset == <<0, 0>> :> <<1, 0>>
MCBankOf == <<0, 0>> :> "BANK4"
MCUnusedPairs == {<<"DRIVE", "8">>, <<"PULLMODE", "NONE">>}

Placed == {[cell |-> <<0, 0>>, half |-> "IOBA", type |-> "IBUF"], [cell |-> <<0, 0>>, half |-> "IOBB", type |-> "OBUF"]}
Bitmap(a, b, bank) == <<0, 0>> :> a @@ <<1, 0>> :> b @@ <<0, 1>> :> bank
Unused(bits) == <<2, 2>> :> bits
MCDesigns == <<[placed |-> Placed, vendor |-> Bitmap({1, 2}, {5, 6}, {1}) @@ Unused({2})],
               [placed |-> {[cell |-> <<0, 0>>, half |-> "IOBB", type |-> "IOBUF"]},
                vendor |-> Bitmap({1, 2, 3}, {5, 6, 7}, {1, 2})]>>

MCPoints == <<"sspi", "cpu", "i2c", "triple">>
MCOptionsOf == [p \in Range(MCPoints) |-> IF p = "triple" THEN {"sspi", "cpu"} ELSE {p}]
Dual(sspi, cpu) == [o \in {{"sspi"}, {"cpu"}, {"i2c"}, {"sspi", "cpu"}} |->
  (IF "sspi" \in o THEN sspi ELSE {}) \union (IF "cpu" \in o THEN cpu ELSE {})]
MCDualVendor == [p \in Range(MCPoints) |-> CASE p = "sspi" -> {1} [] p = "cpu" -> {2, 3} [] OTHER -> {1, 2, 3}]

Ddr(more) == [p \in {"ODDR", "ODDRC", "IDDR", "IDDRC"} |-> [MODE |-> p] @@ more]
Makes(dual, open, fails, ddr) == [dual |-> dual, open |-> open, fails |-> fails, ddr |-> ddr]

\* A packer that sets a fuse of the B half too many, one that sets the vendor's, one
\* that emits less and whose smaller sets decode to other values, one that fails on
\* the second design and leaves a tile blank.
MCPackers ==
  {Makes(Dual({1}, {2}), <<Bitmap({1, 2}, {5, 6, 7}, {1}) @@ Unused({2}), Bitmap({1, 2, 3}, {5, 6, 7}, {1})>>,
         {}, Ddr([LSR |-> "0"])),
   Makes(Dual({1}, {2, 3}), <<Bitmap({1, 2}, {5, 6}, {1}) @@ Unused({1, 2}), Bitmap({1, 2, 3}, {5, 6, 7}, {1})>>,
         {}, Ddr([LSR |-> "0", FCLK |-> "UNKNOWN"])),
   Makes(Dual({1, 4}, {2}), <<Bitmap({1, 2}, {6}, {1}), Bitmap({1, 2}, {5, 6}, {1, 2})>>,
         {}, Ddr(<<>>)),
   Makes(Dual({}, {5}), <<Bitmap({1, 2, 4}, {5, 6}, {2}) @@ Unused({2}), Bitmap({1, 2}, {5, 6}, {1, 2})>>, {2}, Ddr(<<>>))}
=============================================================================
