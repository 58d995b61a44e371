------------------------------ MODULE VcdFile ------------------------------
(***************************************************************************)
(* Value change dumps, from the writer to the two readers of vcd-ng. A     *)
(* program writes a file command by command; the parser reads its header   *)
(* and its commands; FastFlow reads the same file from its start line by   *)
(* line, as the drivers do once they have the header. The file may end     *)
(* early, in the middle of its last command.                               *)
(*                                                                         *)
(* A file is a sequence of symbols: single characters, and keywords, names *)
(* and texts that no reader looks into.                                    *)
(***************************************************************************)
EXTENDS Integers, Sequences, SequencesExt, FiniteSetsExt, TLC

CONSTANTS
  IdChars,     \* the characters of identifier codes, in order
  MaxWord,     \* the largest unsigned word
  GivenIds,    \* codes that callers choose themselves
  Texts,       \* texts of comments, dates and versions
  Times, Vectors,
  MaxSaid,     \* bounds on what is written: all commands,
  MaxTexts,    \* those that carry a text or the time scale,
  MaxLost      \* and the symbols that a file cut short may lack

VARIABLES
  said,     \* the commands written so far, as [cmd, depth]
  writer,   \* [file, depth, nextId]
  ended,    \* "open", "whole" or "cut": whether and how the file ends
  parser,   \* [at, simulation, open (unfinished scopes), header, heard, stage]
  flow      \* FastFlow: [at, tokens, searched (for the first timestamp), stage]

vars == <<said, writer, ended, parser, flow>>

White == {" ", "\n"}
Values == {"0", "1", "x", "z"}
Simulations == {"dumpvars", "dumpoff"}
Error == <<"Error">>

-----------------------------------------------------------------------------
(* Numbers and identifier codes. A conversion that may fail gives a        *)
(* sequence of at most one element.                                        *)
Digit(c) == SelectInSeq(<<"0", "1", "2", "3", "4", "5", "6", "7", "8", "9">>,
                        LAMBDA d : d = c) - 1
Decimal[n \in Nat] ==
  IF n < 10 THEN <<ToString(n)>> ELSE Decimal[n \div 10] \o <<ToString(n % 10)>>
Number(s) ==
  IF s = <<>> \/ \E i \in DOMAIN s : Digit(s[i]) = -1 THEN <<>>
  ELSE <<FoldLeft(LAMBDA n, c : 10 * n + Digit(c), 0, s)>>

Base == Len(IdChars)
CodeText[i \in Nat] ==
  IF i < Base THEN <<IdChars[i + 1]>>
  ELSE Append(CodeText[(i \div Base) - 1], IdChars[(i % Base) + 1])
CodePositional(s) ==  \* mutant of Code: "!" counts as zero, as in an ordinary number
  IF s = <<>> \/ ~ (ToSet(s) \subseteq ToSet(IdChars)) THEN <<>>
  ELSE <<FoldLeft(LAMBDA r, c : Base * r + SelectInSeq(IdChars, LAMBDA d : d = c) - 1, 0, s)>>
Code(s) ==
  IF s = <<>> \/ ~ (ToSet(s) \subseteq ToSet(IdChars)) THEN <<>>
  ELSE LET n == FoldLeft(LAMBDA r, c : Base * r + SelectInSeq(IdChars, LAMBDA d : d = c), 0, s)
       IN  IF n > MaxWord THEN <<>> ELSE <<n - 1>>

-----------------------------------------------------------------------------
(* The text of each command.                                               *)
Line(words) ==
  Append(FoldLeft(LAMBDA t, w : IF t = <<>> THEN w ELSE t \o <<" ">> \o w, <<>>, words), "\n")
Key(k) == <<"$", k>>
Render(c) ==
  LET text(k) == Line(<<Key(k)>>) \o <<" ">> \o c[2] \o <<"\n">> \o Line(<<Key("end")>>)
  IN CASE c[1] = "Comment"        -> text("comment")
       [] c[1] = "Date"           -> text("date")
       [] c[1] = "Version"        -> text("version")
       [] c[1] = "Timescale"      -> Line(<<Key("timescale"), Decimal[c[2]], <<c[3]>>, Key("end")>>)
       [] c[1] = "ScopeDef"       -> Line(<<Key("scope"), <<c[2]>>, <<c[3]>>, Key("end")>>)
       [] c[1] = "Upscope"        -> Line(<<Key("upscope"), Key("end")>>)
       [] c[1] = "VarDef"         -> Line(<<Key("var"), <<c[2]>>, Decimal[c[3]], CodeText[c[4]], <<c[5]>>>>
                                          \o (IF c[6] = <<>> THEN <<>> ELSE <<c[6]>>) \o <<Key("end")>>)
       [] c[1] = "Enddefinitions" -> Line(<<Key("enddefinitions"), Key("end")>>)
       [] c[1] = "Timestamp"      -> Line(<<<<"#">> \o Decimal[c[2]]>>)
       [] c[1] = "ChangeScalar"   -> Line(<<<<c[3]>> \o CodeText[c[2]]>>)
       [] c[1] = "ChangeVector"   -> Line(<<<<"b">> \o c[3], CodeText[c[2]]>>)
       [] c[1] = "ChangeReal"     -> Line(<<<<"r", c[3]>>, CodeText[c[2]]>>)
       [] c[1] = "ChangeString"   -> Line(<<<<"s", c[3]>>, CodeText[c[2]]>>)
       [] c[1] = "Begin"          -> Line(<<Key(c[2])>>)
       [] c[1] = "End"            -> Line(<<Key("end")>>)

-----------------------------------------------------------------------------
(* The writer.                                                             *)
NewWriter == [file |-> <<>>, depth |-> 0, nextId |-> 0]
InHeader == \A i \in DOMAIN said : said[i].cmd[1] # "Enddefinitions"
HeaderLength == IF InHeader THEN Len(said)
                ELSE SelectInSeq(said, LAMBDA e : e.cmd[1] = "Enddefinitions")
TextsSaid == {i \in DOMAIN said : said[i].cmd[1] \in {"Comment", "Date", "Version", "Timescale"}}
Defined == {said[i].cmd[4] : i \in {j \in DOMAIN said : said[j].cmd[1] = "VarDef"}}

Say(c) ==
  /\ ended = "open"
  /\ Len(said) < MaxSaid
  /\ said' = Append(said, [cmd |-> c, depth |-> writer.depth])
  /\ writer' =
       [file   |-> writer.file \o Render(c),
        depth  |-> writer.depth + (CASE c[1] = "ScopeDef" -> 1 [] c[1] = "Upscope" -> -1 [] OTHER -> 0),
        nextId |-> IF c[1] = "VarDef" /\ c[4] >= writer.nextId THEN c[4] + 1 ELSE writer.nextId]
  /\ UNCHANGED <<ended, parser, flow>>

SayText ==
  /\ Cardinality(TextsSaid) < MaxTexts
  /\ \/ \E t \in Texts : Say(<<"Comment", t>>)
     \/ InHeader /\ \E t \in Texts, k \in {"Date", "Version"} : Say(<<k, t>>)
     \/ InHeader /\ Say(<<"Timescale", 10, "ns">>)
ScopeDef == InHeader /\ Say(<<"ScopeDef", "module", "top">>)
Upscope == InHeader /\ writer.depth > 0 /\ Say(<<"Upscope">>)
VarDef ==
  /\ InHeader /\ writer.depth > 0
  /\ \E id \in GivenIds : Say(<<"VarDef", "wire", 2, id, "d", <<"[1:0]">>>>)
AddVar ==
  /\ InHeader /\ writer.depth > 0
  /\ Say(<<"VarDef", "wire", 1, writer.nextId, "a", <<>>>>)
Enddefinitions == InHeader /\ writer.depth = 0 /\ Say(<<"Enddefinitions">>)
Timestamp == ~ InHeader /\ \E t \in Times : Say(<<"Timestamp", t>>)
Change ==
  /\ ~ InHeader
  /\ \E id \in Defined :
       \/ Say(<<"ChangeScalar", id, "x">>)
       \/ \E v \in Vectors : Say(<<"ChangeVector", id, v>>)
       \/ Say(<<"ChangeReal", id, "0.5">>)
       \/ Say(<<"ChangeString", id, "word">>)
BeginEnd ==
  /\ ~ InHeader
  /\ (\E s \in Simulations : Say(<<"Begin", s>>)) \/ Say(<<"End">>)

(* The file ends after a command, or in the middle of the last one.        *)
EndOfFile ==
  /\ ended = "open" /\ ~ InHeader
  /\ \/ ended' = "whole" /\ UNCHANGED writer
     \/ \E n \in 1..MaxLost :
          /\ n < Len(Render(Last(said).cmd))
          /\ ended' = "cut"
          /\ writer' = [writer EXCEPT !.file = SubSeq(@, 1, Len(@) - n)]
  /\ parser' = [parser EXCEPT !.stage = "header"]
  /\ UNCHANGED <<said, flow>>

-----------------------------------------------------------------------------
(* The parser: one command from position p, as [cmd, at, simulation].      *)
(* <<>> is the end of the file.                                            *)
File == writer.file
TextFrom(p) == {i \in p..Len(File) : File[i] \notin White}
WhiteFrom(p) == {i \in p..Len(File) : File[i] \in White}

(* read_token skips white space and needs one after the token.             *)
Token(p) ==
  LET from == IF TextFrom(p) = {} THEN Len(File) + 1 ELSE Min(TextFrom(p))
      to == IF WhiteFrom(from) = {} THEN from ELSE Min(WhiteFrom(from))
  IN  [text |-> SubSeq(File, from, to - 1), at |-> to + 1]
Tokens(p, n) ==
  FoldLeft(LAMBDA ts, i : Append(ts, Token(IF ts = <<>> THEN p ELSE Last(ts).at)),
           <<>>, [i \in 1..n |-> i])

Heard(c, p) == [cmd |-> c, at |-> p, simulation |-> parser.simulation]
Fails == Heard(Error, Len(File) + 1)
Closed(t, c) == IF t.text = Key("end") THEN Heard(c, t.at) ELSE Fails

(* read_string_command takes everything up to $end, trimmed.               *)
Trim(s) ==
  LET inner == {i \in DOMAIN s : s[i] \notin White}
  IN  IF inner = {} THEN <<>> ELSE SubSeq(s, Min(inner), Max(inner))
StringCommand(k, p) ==
  LET ends == {i \in p..Len(File) - 1 : SubSeq(File, i, i + 1) = Key("end")}
  IN  IF ends = {} THEN Fails
      ELSE Heard(<<k, Trim(SubSeq(File, p, Min(ends) - 1))>>, Min(ends) + 2)

VarCommand(t) ==
  LET size == Number(t[2].text)
      id == Code(t[3].text)
      var(index) == <<"VarDef", t[1].text[1], size[1], id[1], t[4].text[1], index>>
  IN  IF size = <<>> \/ id = <<>> \/ t[4].text = <<>> THEN Fails
      ELSE IF t[5].text = Key("end") THEN Heard(var(<<>>), t[5].at)
      ELSE Closed(t[6], var(t[5].text))

DollarCommand(p) ==
  LET k == Token(p)
      t == Tokens(k.at, 6)
      key == IF Len(k.text) = 1 THEN k.text[1] ELSE "none"
  IN CASE key = "comment"   -> StringCommand("Comment", k.at)
       [] key = "date"      -> StringCommand("Date", k.at)
       [] key = "version"   -> StringCommand("Version", k.at)
       [] key = "timescale" -> IF Number(t[1].text) = <<>> THEN Fails
                               ELSE Closed(t[3], <<"Timescale", Number(t[1].text)[1], t[2].text[1]>>)
       [] key = "scope"     -> Closed(t[3], <<"ScopeDef", t[1].text[1], t[2].text[1]>>)
       [] key = "upscope"   -> Closed(t[1], <<"Upscope">>)
       [] key = "var"       -> VarCommand(t)
       [] key = "enddefinitions" -> Closed(t[1], <<"Enddefinitions">>)
       [] key \in Simulations ->
            [cmd |-> <<"Begin", key>>, at |-> k.at, simulation |-> <<key>>]
       [] key = "end" /\ parser.simulation # <<>> ->
            [cmd |-> <<"End", parser.simulation[1]>>, at |-> k.at, simulation |-> <<>>]
       [] OTHER -> Fails

ChangeCommand(c, p) ==
  LET t == Tokens(p, 2)
      id == Code((IF c \in Values THEN t[1] ELSE t[2]).text)
  IN  IF id = <<>> THEN Fails
      ELSE CASE c \in Values -> Heard(<<"ChangeScalar", id[1], c>>, t[1].at)
             [] c = "b" -> IF ToSet(t[1].text) \subseteq Values
                           THEN Heard(<<"ChangeVector", id[1], t[1].text>>, t[2].at) ELSE Fails
             [] c = "r" -> Heard(<<"ChangeReal", id[1], t[1].text[1]>>, t[2].at)
             [] c = "s" -> Heard(<<"ChangeString", id[1], t[1].text[1]>>, t[2].at)

NextCommand(p) ==
  LET from == Min(TextFrom(p))
      c == File[from]
  IN  IF TextFrom(p) = {} THEN Heard(<<>>, Len(File) + 1)
      ELSE CASE c = "$" -> DollarCommand(from + 1)
             [] c = "#" -> LET t == Token(from + 1) IN
                           IF Number(t.text) = <<>> THEN Fails
                           ELSE Heard(<<"Timestamp", Number(t.text)[1]>>, t.at)
             [] c \in Values \cup {"b", "r", "s"} -> ChangeCommand(c, from + 1)
             [] OTHER -> Fails

-----------------------------------------------------------------------------
(* parse_header with parse_scope: an open scope is an unfinished call.     *)
NoHeader == [date |-> <<>>, version |-> <<>>, comment |-> <<>>, timescale |-> <<>>, items |-> <<>>]
NewParser == [at |-> 1, simulation |-> <<>>, open |-> <<>>, header |-> NoHeader,
              heard |-> <<>>, stage |-> "waiting"]

AddItem(q, item) ==
  IF q.open = <<>> THEN [q EXCEPT !.header.items = Append(@, item)]
  ELSE [q EXCEPT !.open[Len(q.open)].children = Append(@, item)]
CloseScope(q) ==
  LET s == Last(q.open)
  IN  AddItem([q EXCEPT !.open = Front(@)], <<"Scope", s.type, s.name, s.children>>)

Store(q, c) ==
  CASE c[1] = "ScopeDef" -> [q EXCEPT !.open = Append(@, [type |-> c[2], name |-> c[3], children |-> <<>>])]
    [] c[1] = "VarDef" -> AddItem(q, c)
    [] c[1] = "Comment" /\ q.open # <<>> -> AddItem(q, c)
    [] c[1] = "Upscope" /\ q.open # <<>> -> CloseScope(q)
    [] c[1] = "Comment" /\ q.open = <<>> -> [q EXCEPT !.header.comment = <<c>>]
    [] c[1] = "Date" /\ q.open = <<>> -> [q EXCEPT !.header.date = <<c>>]
    [] c[1] = "Version" /\ q.open = <<>> -> [q EXCEPT !.header.version = <<c>>]
    [] c[1] = "Timescale" /\ q.open = <<>> -> [q EXCEPT !.header.timescale = <<c>>]
    [] c[1] = "Enddefinitions" /\ q.open = <<>> -> [q EXCEPT !.stage = "commands"]
    [] OTHER -> [q EXCEPT !.stage = "failed"]

ParseHeader ==
  /\ parser.stage = "header"
  /\ \E n \in {NextCommand(parser.at)} :
       parser' = IF n.cmd \in {<<>>, Error} THEN [parser EXCEPT !.stage = "failed"]
                 ELSE Store([parser EXCEPT !.at = n.at, !.simulation = n.simulation], n.cmd)
  /\ UNCHANGED <<said, writer, ended, flow>>

ParseCommand ==
  /\ parser.stage = "commands"
  /\ \E n \in {NextCommand(parser.at)} :
       /\ parser' = [parser EXCEPT !.at = n.at, !.simulation = n.simulation,
                       !.heard = IF n.cmd = <<>> THEN @ ELSE Append(@, n.cmd),
                       !.stage = IF n.cmd \in {<<>>, Error} THEN "done" ELSE @]
       /\ flow' = [flow EXCEPT !.stage = IF n.cmd \in {<<>>, Error} THEN "reading" ELSE @]
  /\ UNCHANGED <<said, writer, ended>>

-----------------------------------------------------------------------------
(* FastFlow. The last symbol of a line is dropped whatever it is.          *)
NewFlow == [at |-> 1, tokens |-> <<>>, searched |-> FALSE, stage |-> "waiting"]
LineEnd(p) ==
  LET breaks == {i \in p..Len(File) : File[i] = "\n"}
  IN  IF breaks = {} THEN Len(File) ELSE Min(breaks)
NextLine(p) == SubSeq(File, p, LineEnd(p) - 1)

(* What a line is worth: <<>> if it is skipped.                            *)
Valued(code, bits) == IF Code(code) = <<>> THEN Error ELSE <<"Value", Code(code)[1], bits>>
LineToken(line) ==
  LET rest == SubSeq(line, 2, Len(line))
      space == SelectLastInSeq(line, LAMBDA c : c = " ")
  IN CASE line = <<>> -> <<>>
       [] line # <<>> /\ line[1] = "#" ->
            IF Number(rest) = <<>> THEN Error ELSE <<"Timestamp", Number(rest)[1]>>
       [] line # <<>> /\ line[1] \in Values -> Valued(rest, <<line[1]>>)
       [] line # <<>> /\ line[1] = "b" ->
            IF space = 0 THEN Error
            ELSE Valued(SubSeq(line, space + 1, Len(line)), SubSeq(line, 2, space - 1))
       [] line # <<>> /\ line[1] \in {"r", "$", " "} -> <<>>
       [] OTHER -> Error

(* The drivers call next_token from the first line on. The search for the  *)
(* first timestamp may come before, and looks from the second line on.     *)
NextToken ==
  /\ flow.stage = "reading"
  /\ flow' =
       IF flow.at > Len(File) THEN [flow EXCEPT !.stage = "done"]
       ELSE LET t == LineToken(NextLine(flow.at))
            IN  [flow EXCEPT !.at = LineEnd(flow.at) + 1,
                             !.tokens = IF t = <<>> THEN @ ELSE Append(@, t),
                             !.stage = IF t = Error THEN "done" ELSE @]
  /\ UNCHANGED <<said, writer, ended, parser>>

FirstTimestamp ==
  /\ flow.stage = "reading" /\ flow.at = 1
  /\ LET stamps == {p \in LineEnd(1) + 1..Len(File) :
                      /\ File[p - 1] = "\n"
                      /\ NextLine(p) # <<>> /\ File[p] = "#"}
         t == LineToken(NextLine(Min(stamps)))
     IN  flow' = IF stamps = {} THEN [flow EXCEPT !.searched = TRUE, !.stage = "done"]
                 ELSE [at |-> LineEnd(Min(stamps)) + 1, tokens |-> <<t>>, searched |-> TRUE,
                       stage |-> IF t = Error THEN "done" ELSE "reading"]
  /\ UNCHANGED <<said, writer, ended, parser>>

-----------------------------------------------------------------------------
Init ==
  /\ said = <<>>
  /\ writer = NewWriter
  /\ ended = "open"
  /\ parser = NewParser
  /\ flow = NewFlow

Next ==
  \/ SayText
  \/ ScopeDef
  \/ Upscope
  \/ VarDef
  \/ AddVar
  \/ Enddefinitions
  \/ Timestamp
  \/ Change
  \/ BeginEnd
  \/ EndOfFile
  \/ ParseHeader
  \/ ParseCommand
  \/ NextToken
  \/ FirstTimestamp

Spec == Init /\ [][Next]_vars

-----------------------------------------------------------------------------
(* Writer::header writes the parser's header again.                        *)
RECURSIVE ItemCommands(_)
ItemCommands(item) ==
  IF item[1] # "Scope" THEN <<item>>
  ELSE <<<<"ScopeDef", item[2], item[3]>>>>
       \o FlattenSeq([i \in DOMAIN item[4] |-> ItemCommands(item[4][i])])
       \o <<<<"Upscope">>>>
HeaderCommands(h) ==
  h.date \o h.version \o h.comment \o h.timescale
  \o FlattenSeq([i \in DOMAIN h.items |-> ItemCommands(h.items[i])])
  \o <<<<"Enddefinitions">>>>

-----------------------------------------------------------------------------
(* What the readers should make of the commands said.                      *)
Cmds(s) == [i \in DOMAIN s |-> s[i].cmd]
Header == SubSeq(said, 1, HeaderLength)
Body == Cmds(SubSeq(said, HeaderLength + 1, Len(said)))
Whole(s) == IF ended = "cut" THEN Front(s) ELSE s

(* Of the header: the last text of each kind outside scopes, and the rest. *)
Top(e) == e.depth = 0 /\ e.cmd[1] \in {"Date", "Version", "Comment", "Timescale"}
LastOf(k) ==
  LET i == SelectLastInSeq(Header, LAMBDA e : Top(e) /\ e.cmd[1] = k)
  IN  IF i = 0 THEN <<>> ELSE <<Header[i].cmd>>
HeaderSaid ==
  LastOf("Date") \o LastOf("Version") \o LastOf("Comment") \o LastOf("Timescale")
  \o Cmds(SelectSeq(Header, LAMBDA e : ~ Top(e)))
Misplaced ==
  \E i \in DOMAIN Header :
    Header[i].depth > 0 /\ Header[i].cmd[1] \in {"Date", "Version", "Timescale"}

(* Of the body: each $end closes the last simulation command, and one that *)
(* closes nothing is refused.                                              *)
Stopped(r) == r # <<>> /\ Last(r) = Error
ReadBack(s) ==
  LET open(r) == SelectLastInSeq(r, LAMBDA c : c[1] \in {"Begin", "End"})
  IN  FoldLeft(LAMBDA r, c :
                 IF Stopped(r) THEN r
                 ELSE IF c # <<"End">> THEN Append(r, c)
                 ELSE IF open(r) = 0 \/ r[open(r)][1] = "End" THEN Append(r, Error)
                 ELSE Append(r, <<"End", r[open(r)][2]>>), <<>>, s)

(* Of the body for FastFlow: timestamps and changes of bits; all other     *)
(* commands give no token (fastflow.rs:11).                                *)
FastBack(s) ==
  FoldLeft(LAMBDA r, c :
             CASE c[1] = "Timestamp" -> Append(r, c)
               [] c[1] = "ChangeScalar" -> Append(r, <<"Value", c[2], <<c[3]>>>>)
               [] c[1] = "ChangeVector" -> Append(r, <<"Value", c[2], c[3]>>)
               [] OTHER -> r, <<>>, s)
FromFirstStamp(s) ==
  LET i == SelectInSeq(s, LAMBDA c : c[1] = "Timestamp")
  IN  IF i = 0 THEN <<>> ELSE SubSeq(s, i, Len(s))

(* FastFlow departs from this at a string change, for which it fails, and  *)
(* at a text of several lines, of which it reads all but the first.        *)
SaysString == \E c \in ToSet(Body) : c[1] = "ChangeString"
SaysLines == \E i \in TextsSaid : said[i].cmd[1] # "Timescale" /\ Contains(said[i].cmd[2], "\n")

Added(c) == c[1] = "VarDef" /\ c[5] = "a"
CodesFresh ==
  \A j \in DOMAIN said : Added(said[j].cmd) =>
    \A i \in 1..j - 1 : said[i].cmd[1] = "VarDef" => said[i].cmd[4] # said[j].cmd[4]
HeaderKept ==
  /\ parser.stage \in {"commands", "done"} => ~ Misplaced /\ HeaderCommands(parser.header) = HeaderSaid
  /\ parser.stage = "failed" => Misplaced \/ (ended = "cut" /\ Body = <<>>)
CommandsKept ==
  parser.stage = "done" =>
    LET r == ReadBack(Whole(Body))
    IN  IF ended = "whole" \/ Stopped(r) THEN parser.heard = r
        ELSE parser.heard \in {r, Append(r, Error), ReadBack(Body)}
FlowAgrees ==
  (flow.stage = "done" /\ ~SaysString /\ ~SaysLines) =>
    LET s == Whole(Body)
        r == FastBack(IF flow.searched THEN FromFirstStamp(s) ELSE s)
    IN  IF ended = "whole" THEN flow.tokens = r
        ELSE IsPrefix(r, flow.tokens) /\ Len(flow.tokens) <= Len(r) + 1

(* What was written is read (write.rs:31-215): no variable is given a code *)
(* that is taken; the header that the parser returns writes the same       *)
(* definitions again; the parser hears every command of the body, but for  *)
(* the last one if the file ends inside it.  FastFlow, reading from the    *)
(* top, delivers every timestamp and change of bits and nothing else, in   *)
(* files without string changes and texts of several lines; of others, and *)
(* of the token it makes of a command that is cut, nothing is said.        *)
WrittenIsRead == CodesFresh /\ HeaderKept /\ CommandsKept /\ FlowAgrees
=============================================================================
