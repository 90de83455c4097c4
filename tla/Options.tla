------------------------------- MODULE Options -------------------------------
(***************************************************************************)
(* options.txt: class TextParser and Options::Process of src/options.cpp.  *)
(* A text is a sequence of lexemes: words, the blanks " " and "\n" and the *)
(* marks of comments.  A token is a run of lexemes with no blank in it: a  *)
(* word that touches an equals sign makes one token with it.               *)
(***************************************************************************)
EXTENDS Integers, Sequences

Seqs == INSTANCE SequencesExt

CONSTANTS
  Decimal       \* what strtol makes of a word

INVALID_VALUE == -1

IsSpace(x) == x \in {" ", "\n"}

\* The first place from i on whose lexeme is in S, or the end of the text.
FirstFrom(text, i, S) ==
  CHOOSE j \in i .. Len(text) + 1 :
    /\ j = Len(text) + 1 \/ text[j] \in S
    /\ \A k \in i .. j - 1 : text[k] \notin S

SkipWhiteSpace(text, i) ==
  CHOOSE j \in i .. Len(text) + 1 :
    /\ j = Len(text) + 1 \/ ~IsSpace(text[j])
    /\ \A k \in i .. j - 1 : IsSpace(text[k])

AtEnd(text, i) == i > Len(text)

\* Where the text goes on after one comment: the rest of the line, or all up to
\* the mark that closes it.
AfterComment(text, i) ==
  IF text[i] = "//" THEN SkipWhiteSpace(text, FirstFrom(text, i + 1, {"\n"}))
  ELSE LET j == FirstFrom(text, i + 1, {"*/"}) IN
    SkipWhiteSpace(text, IF AtEnd(text, j) THEN j ELSE j + 1)

\* Mutant of ParseComments: only one comment is skipped.
ParseOneComment(text, i) ==
  LET j == SkipWhiteSpace(text, i) IN
    IF ~AtEnd(text, j) /\ text[j] \in {"//", "/*"} THEN AfterComment(text, j) ELSE j

\* ParseComment until there is none.
ParseComments(text, i) ==
  LET skip[j \in 1 .. Len(text) + 1] ==
        IF ~AtEnd(text, j) /\ text[j] \in {"//", "/*"}
        THEN skip[AfterComment(text, j)] ELSE j
  IN skip[SkipWhiteSpace(text, i)]

\* A token, and where the text goes on; the blank after it goes with it.
GetToken(text, i) ==
  LET start == ParseComments(text, i)
      end == FirstFrom(text, start, {" ", "\n"})
  IN [token |-> SubSeq(text, start, end - 1),
      at |-> IF AtEnd(text, end) THEN end ELSE end + 1]

-----------------------------------------------------------------------------
(* The values. *)

LCDNames == {"ssd1306_128x64", "ssd1306_128x32", "sh1106_128x64"}
ModelOf(name) == CASE name = "ssd1306_128x64" -> "1306_128x64"
                   [] name = "ssd1306_128x32" -> "1306_128x32"
                   [] name = "sh1106_128x64" -> "1106_128x64"

\* The buttons are bytes.
ByteOptions == {"buttonEnter", "CMDHDButtonExit"}

DecimalOptions == ByteOptions \union
  {"splitIECLines", "invertIECInputs", "i2cBusMaster", "i2cLcdUseCBMChar",
   "CMDHDLcdLamps", "CMDHDDeviceID", "CMDHDCacheMB"}

Defaults ==
  [splitIECLines |-> 0, invertIECInputs |-> 0, i2cBusMaster |-> 1,
   i2cLcdUseCBMChar |-> 0, CMDHDLcdLamps |-> 1, CMDHDDeviceID |-> 0,
   CMDHDCacheMB |-> 32, buttonEnter |-> 1, CMDHDButtonExit |-> 5,
   i2cLcdModel |-> "unknown", ROMNameCMDHD |-> "", ROMFontName |-> "chargen"]

\* One option; a name nothing knows is skipped.  An unknown panel keeps the model
\* an earlier line gave.
Set(o, name, value) ==
  CASE name \in DecimalOptions ->
         IF Decimal[value] = INVALID_VALUE THEN o
         ELSE [o EXCEPT ![name] =
                IF name \in ByteOptions THEN Decimal[value] % 256 ELSE Decimal[value]]
    [] name \in {"Font", "ChargenFont"} -> [o EXCEPT !.ROMFontName = value]
    [] name \in {"CMDHDRomName", "ROMCMDHD"} -> [o EXCEPT !.ROMNameCMDHD = value]
    [] name = "LCDName" ->
         IF value \in LCDNames THEN [o EXCEPT !.i2cLcdModel = ModelOf(value)] ELSE o
    [] OTHER -> o

\* Without split lines there is one way to wire the bus.
Wired(o) ==
  IF o.splitIECLines # 0 THEN o
  ELSE [o EXCEPT !.invertIECInputs = 0, !.i2cBusMaster = 0]

\* A token that is one word; any other is no option's name and no known value.
Word(token) == IF Len(token) = 1 THEN token[1] ELSE "glued"

\* The names and values of a text, whatever word stands between them; a name
\* without a value is dropped.
Assignments(text) ==
  LET from[i \in 1 .. Len(text) + 1] ==
        LET name == GetToken(text, i)
            value == GetToken(text, GetToken(text, name.at).at)
        IN IF value.token = <<>> THEN <<>>
           ELSE <<[name |-> Word(name.token), value |-> Word(value.token)]>>
                \o from[value.at]
  IN from[1]

Process(text) ==
  LET apply(o, a) == Set(o, a.name, a.value)
  IN Wired(Seqs!FoldLeft(apply, Defaults, Assignments(text)))
==============================================================================
