------------------------------- MODULE MCBoot --------------------------------
(***************************************************************************)
(* A narrow panel of four rows, and the options.txt of up to three lines.  *)
(***************************************************************************)
EXTENDS Boot, TLC

Assign(name, value) == <<name, " ", "=", " ", value>>

MCLines ==
  [split  |-> [text |-> Assign("splitIECLines", "1"), name |-> "splitIECLines", value |-> 1],
   master |-> [text |-> Assign("i2cBusMaster", "1") \o <<" ", "//", "x">>,
               name |-> "i2cBusMaster", value |-> 1],
   invert |-> [text |-> <<"invertIECInputs", "\n", "/*", "b", "*/", "=", " ", "1">>,
               name |-> "invertIECInputs", value |-> 1],
   small  |-> [text |-> Assign("LCDName", "ssd1306_128x32"),
               name |-> "i2cLcdModel", value |-> "1306_128x32"],
   big    |-> [text |-> Assign("LCDName", "sh1106_128x64"),
               name |-> "i2cLcdModel", value |-> "1106_128x64"],
   other  |-> [text |-> Assign("LCDName", "another"), name |-> "", value |-> 0],
   cbm    |-> [text |-> <<"//", "=", "\n", "//", "\n">> \o Assign("i2cLcdUseCBMChar", "1"),
               name |-> "i2cLcdUseCBMChar", value |-> 1],
   dark   |-> [text |-> Assign("CMDHDLcdLamps", "0"), name |-> "CMDHDLcdLamps", value |-> 0],
   rom    |-> [text |-> Assign("ROMCMDHD", "my.rom"), name |-> "ROMNameCMDHD", value |-> "my.rom"],
   enter  |-> [text |-> Assign("buttonEnter", "258"), name |-> "buttonEnter", value |-> 2],
   minus  |-> [text |-> Assign("CMDHDCacheMB", "-1"), name |-> "", value |-> 0],
   cut    |-> [text |-> <<"CMDHDCacheMB", " ", "=">>, name |-> "", value |-> 0]]

Whole == DOMAIN MCLines \ {"cut"}

\* A line that is cut off is the last one; the panel of 64 rows comes with the small
\* font, with which it has more text rows than this instance.
MCFiles ==
  {f \in {<<>>, <<"cut">>} \union {<<a>> : a \in Whole} \union {<<a, "cut">> : a \in Whole}
        \union (Whole \X Whole)
        \union (Whole \X {"small", "split", "master"} \X {"cbm", "cut", "invert"})
        \union ({"small", "big"} \X {"rom"} \X {"cbm"}) :
     \A n \in DOMAIN f : f[n] = "big" => \E m \in DOMAIN f : f[m] = "cbm"}

MCDecimal ==
  [w \in {"0", "1", "-1", "258"} |->
     CASE w = "0" -> 0 [] w = "1" -> 1 [] w = "-1" -> -1 [] w = "258" -> 258]

MCCards ==
  {[root |-> "chargen" :> 4 @@ "my.rom" :> 8, roms |-> "my.rom" :> 16 @@ "cmdhd.rom" :> 32],
   [root |-> "cmdhd-bootrom.bin" :> 8, roms |-> "chargen" :> 4]}
==============================================================================
