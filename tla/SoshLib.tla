------------------------------ MODULE SoshLib -------------------------------
(***************************************************************************)
(* The script shell, user/libs/soshlib: its control flow and its texts.    *)
(***************************************************************************)
EXTENDS Integers, Sequences, SequencesExt, FiniteSets

-----------------------------------------------------------------------------
(***************************************************************************)
(* The script interpreter of user/libs/soshlib/sosh_eval.c. It has no      *)
(* syntax tree: it walks over the lines with a stack of blocks, each of    *)
(* them active or not, and jumps back to a loop's first line when it meets *)
(* its end. The module runs every well-formed script of a few lines and    *)
(* compares what it does with what the block structure says it should do.  *)
(*                                                                         *)
(* A line is a record: its keyword and, for a condition, what is tested.   *)
(* Scripts work on one variable x. `source` evaluates a file with the same *)
(* static line array, so a script that goes on after it goes on in the     *)
(* wrong lines: here source is the last line of a script, see the README.  *)
(***************************************************************************)

CONSTANTS
  ScriptMax,     \* lines of a script
  LineKinds,     \* the keywords used
  SoshNesting,   \* SOSH_NESTING_MAX
  Starts,        \* initial values of x
  LogMax         \* bound on the effects observed

VARIABLES
  script,      \* the script given to sosh_eval_script
  lines,       \* the static array of lines
  lineNo,
  blocks,      \* the block stack: [type, active, done, start, items]
  x, code,     \* the script variable, and $?
  exiting,     \* exit_requested
  refused,     \* capabilities that cap_check refuses
  log,         \* what the script did and tested, in order
  expected     \* what its structure says it does

soshVars == <<script, lines, lineNo, blocks, x, code, exiting, refused, log, expected>>

CondLine(k, c) == [k |-> k, c |-> c]
Plain(k) == [k |-> k, c |-> "none"]
Alphabet ==
  {l \in {CondLine("if", "x"), CondLine("if", "exists"), CondLine("elif", "not x"), CondLine("while", "x")} :
     l.k \in LineKinds}
    \cup {Plain(k) : k \in LineKinds \ {"if", "elif", "while"}}

\* for_next_item: the items of a for line, for x in 2 0.
Items == <<2, 0>>
Sourced == <<Plain("set"), Plain("echo")>>     \* the file that source names

-----------------------------------------------------------------------------
(* Statements: the same for the interpreter and for the reference.         *)

\* eval_condition: truthy is non-empty and not "0"; a refused probe is false.
EvalCondition(c, v, no) ==
  CASE c = "x" -> v # 0
    [] c = "not x" -> v = 0
    [] c = "exists" -> "read" \notin no

\* A refused probe also sets $?.
CodeAfter(c, q, no) == IF c = "exists" /\ "read" \in no THEN 1 ELSE q

Tested(c, v, no) == <<"test", IF EvalCondition(c, v, no) THEN 1 ELSE 0>>

\* set, export, echo and an external command on the state s = [x, code, log]:
\* a refused capability sets $? and nothing else.
SetLine(s) == [s EXCEPT !.x = s.x - 1]

ExportLine(s, no) ==
  [s EXCEPT !.x = s.x - 1, !.code = IF "env" \in no THEN 1 ELSE 0,
            !.log = IF "env" \in no THEN s.log ELSE Append(s.log, <<"env", s.x - 1>>)]

EchoLine(s, no) ==
  [s EXCEPT !.code = IF "console" \in no THEN 1 ELSE 0,
            !.log = IF "console" \in no THEN s.log ELSE Append(s.log, <<"echo", s.x, s.code>>)]

CommandLine(s, no) ==
  [s EXCEPT !.code = IF "exec" \in no THEN 1 ELSE 127,
            !.log = IF "exec" \in no THEN s.log ELSE Append(s.log, <<"run", s.x>>)]

Statement(k, s, no) ==
  CASE k = "set" -> SetLine(s) [] k = "export" -> ExportLine(s, no)
    [] k = "echo" -> EchoLine(s, no) [] k = "run" -> CommandLine(s, no)

Statements == {"set", "export", "echo", "run"}

-----------------------------------------------------------------------------
(* The reference: a script is a sequence of statements and blocks.         *)

OpensBlock(l) == l.k \in {"if", "while", "for"}
Nesting(s, i) == Cardinality({j \in 1 .. i : OpensBlock(s[j])}) - Cardinality({j \in 1 .. i : s[j].k = "end"})

\* The line that closes the block opened at i.
Closing(s, i) == CHOOSE j \in i .. Len(s) : /\ Nesting(s, j) = Nesting(s, i) - 1
                                            /\ \A m \in i .. (j - 1) : Nesting(s, m) >= Nesting(s, i)

\* The branches of an if: its own line and the elif and else lines at its level.
Heads(s, i) ==
  SetToSortSeq({i} \cup {j \in (i + 1) .. Closing(s, i) : s[j].k \in {"elif", "else"} /\ Nesting(s, j) = Nesting(s, i)},
               LAMBDA a, b : a < b)

WellFormed(s) ==
  /\ \A i \in 1 .. Len(s) : Nesting(s, i) \in 0 .. SoshNesting
  /\ Nesting(s, Len(s)) = 0
  /\ \A i \in 1 .. Len(s) : s[i].k \in {"elif", "else"} =>
       \E j \in 1 .. (i - 1) : /\ s[j].k = "if" /\ Nesting(s, i) = Nesting(s, j) /\ Closing(s, j) > i
                               /\ \A m \in (j + 1) .. (i - 1) :
                                    ~ (s[m].k = "else" /\ Nesting(s, m) = Nesting(s, j))
  /\ \A i \in 1 .. Len(s) : s[i].k = "source" => i = Len(s)

Note(s, e) == [s EXCEPT !.log = Append(@, e)]
Over(s) == s.stop \/ Len(s.log) >= LogMax
Probed(s, c, no) == [Note(s, Tested(c, s.x, no)) EXCEPT !.code = CodeAfter(c, s.code, no)]

RECURSIVE Denotes(_, _, _, _, _), Branch(_, _, _, _, _), LoopBack(_, _, _, _, _), Each(_, _, _, _, _)

\* What the lines i .. j do in state s.
Denotes(p, i, j, s, no) ==
  IF i > j \/ Over(s) THEN s
  ELSE CASE p[i].k \in Statements -> Denotes(p, i + 1, j, Statement(p[i].k, s, no), no)
         [] p[i].k = "exit" -> [s EXCEPT !.stop = TRUE]
         [] p[i].k = "source" ->
              IF "read" \in no THEN [s EXCEPT !.code = 1] ELSE Denotes(Sourced, 1, Len(Sourced), s, no)
         [] p[i].k = "if" -> Denotes(p, Closing(p, i) + 1, j, Branch(p, Heads(p, i), Closing(p, i), s, no), no)
         [] p[i].k = "while" -> Denotes(p, Closing(p, i) + 1, j, LoopBack(p, i, Closing(p, i), s, no), no)
         [] p[i].k = "for" -> Denotes(p, Closing(p, i) + 1, j, Each(p, i, Items, s, no), no)

Branch(p, heads, close, s, no) ==
  IF heads = <<>> \/ Over(s) THEN s
  ELSE LET h == Head(heads)
           end == IF Len(heads) > 1 THEN heads[2] - 1 ELSE close - 1
       IN  CASE p[h].k = "else" -> Denotes(p, h + 1, end, s, no)
             [] EvalCondition(p[h].c, s.x, no) -> Denotes(p, h + 1, end, Probed(s, p[h].c, no), no)
             [] OTHER -> Branch(p, Tail(heads), close, Probed(s, p[h].c, no), no)

LoopBack(p, i, close, s, no) ==
  IF Over(s) THEN s
  ELSE IF ~ EvalCondition(p[i].c, s.x, no) THEN Probed(s, p[i].c, no)
  ELSE LoopBack(p, i, close, Denotes(p, i + 1, close - 1, Probed(s, p[i].c, no), no), no)

Each(p, i, items, s, no) ==
  IF items = <<>> \/ Over(s) THEN s
  ELSE Each(p, i, Tail(items), Denotes(p, i + 1, Closing(p, i) - 1, [s EXCEPT !.x = Head(items)], no), no)

-----------------------------------------------------------------------------
(* The interpreter.                                                        *)

SoshInit ==
  /\ \E n \in 1 .. ScriptMax : script \in [1 .. n -> Alphabet]
  /\ WellFormed(script) /\ lines = script
  /\ x \in Starts /\ refused \in {{}, {"read", "console", "env", "exec"}}
  /\ lineNo = 1 /\ blocks = <<>> /\ code = 0 /\ exiting = FALSE /\ log = <<>>
  /\ expected = Denotes(script, 1, Len(script), [x |-> x, code |-> 0, log |-> <<>>, stop |-> FALSE], refused).log

Interpreting == lineNo <= Len(lines) /\ ~ exiting /\ Len(log) < LogMax
Line == lines[lineNo]
Executing == \A i \in 1 .. Len(blocks) : blocks[i].active
Parents == \A i \in 1 .. (Len(blocks) - 1) : blocks[i].active
LineAt(k) == Interpreting /\ Line.k = k
Rest == UNCHANGED <<script, lines, exiting, refused, expected>>

NewBlock(type, active, done, items) ==
  [type |-> type, active |-> active, done |-> done, start |-> lineNo, items |-> items]

\* The condition of line l is evaluated now.
Evaluates(l) == code' = CodeAfter(l.c, code, refused) /\ log' = Append(log, Tested(l.c, x, refused))
Holds(l) == EvalCondition(l.c, x, refused)

IfLine ==
  /\ LineAt("if") /\ Len(blocks) < SoshNesting
  /\ IF Executing
     THEN Evaluates(Line) /\ blocks' = Append(blocks, NewBlock("if", Holds(Line), Holds(Line), <<>>))
     ELSE UNCHANGED <<code, log>> /\ blocks' = Append(blocks, NewBlock("if", FALSE, TRUE, <<>>))
  /\ lineNo' = lineNo + 1 /\ UNCHANGED x /\ Rest

ElifLine ==
  /\ LineAt("elif") /\ blocks # <<>> /\ Last(blocks).type = "if"
  /\ IF Parents /\ ~ Last(blocks).done
     THEN /\ Evaluates(Line)
          /\ blocks' = [blocks EXCEPT ![Len(blocks)].active = Holds(Line), ![Len(blocks)].done = Holds(Line)]
     ELSE UNCHANGED <<code, log>> /\ blocks' = [blocks EXCEPT ![Len(blocks)].active = FALSE]
  /\ lineNo' = lineNo + 1 /\ UNCHANGED x /\ Rest

ElseActive(b, parents) == parents /\ ~ b.done

ElseLine ==
  /\ LineAt("else") /\ blocks # <<>> /\ Last(blocks).type = "if"
  /\ blocks' = [blocks EXCEPT ![Len(blocks)].active = ElseActive(Last(blocks), Parents),
                              ![Len(blocks)].done = @ \/ ElseActive(Last(blocks), Parents)]
  /\ lineNo' = lineNo + 1 /\ UNCHANGED <<x, code, log>> /\ Rest

WhileLine ==
  /\ LineAt("while") /\ Len(blocks) < SoshNesting
  /\ IF Executing
     THEN Evaluates(Line) /\ blocks' = Append(blocks, NewBlock("while", Holds(Line), FALSE, <<>>))
     ELSE UNCHANGED <<code, log>> /\ blocks' = Append(blocks, NewBlock("while", FALSE, FALSE, <<>>))
  /\ lineNo' = lineNo + 1 /\ UNCHANGED x /\ Rest

ForLine ==
  /\ LineAt("for") /\ Len(blocks) < SoshNesting
  /\ IF Executing
     THEN x' = Head(Items) /\ blocks' = Append(blocks, NewBlock("for", TRUE, FALSE, Tail(Items)))
     ELSE UNCHANGED x /\ blocks' = Append(blocks, NewBlock("for", FALSE, FALSE, <<>>))
  /\ lineNo' = lineNo + 1 /\ UNCHANGED <<code, log>> /\ Rest

\* An end that jumps to the first line of its loop: the line itself runs again.
JumpToHead(start) == start
JumpBack(start) == start + 1

EndLine ==
  /\ LineAt("end") /\ blocks # <<>> /\ Rest
  /\ LET blk == Last(blocks)
     IN  CASE blk.type = "while" /\ blk.active ->
                /\ Evaluates(lines[blk.start]) /\ UNCHANGED x
                /\ IF Holds(lines[blk.start])
                   THEN lineNo' = JumpBack(blk.start) /\ UNCHANGED blocks
                   ELSE lineNo' = lineNo + 1 /\ blocks' = Front(blocks)
           [] blk.type = "for" /\ blk.active /\ blk.items # <<>> ->
                /\ x' = Head(blk.items) /\ lineNo' = JumpBack(blk.start)
                /\ blocks' = [blocks EXCEPT ![Len(blocks)].items = Tail(@)]
                /\ UNCHANGED <<code, log>>
           [] OTHER -> lineNo' = lineNo + 1 /\ blocks' = Front(blocks) /\ UNCHANGED <<x, code, log>>

SimpleLine ==
  /\ Interpreting /\ Line.k \in Statements
  /\ LET s == [x |-> x, code |-> code, log |-> log]
         after == IF Executing THEN Statement(Line.k, s, refused) ELSE s
     IN  x' = after.x /\ code' = after.code /\ log' = after.log
  /\ lineNo' = lineNo + 1 /\ UNCHANGED blocks /\ Rest

ExitLine ==
  /\ LineAt("exit") /\ exiting' = Executing /\ lineNo' = lineNo + 1
  /\ UNCHANGED <<script, lines, blocks, x, code, refused, log, expected>>

\* sosh_eval_script again, on the same arrays; the caller has no line left.
SourceLine ==
  /\ LineAt("source") /\ Executing
  /\ IF "read" \in refused
     THEN code' = 1 /\ lineNo' = lineNo + 1 /\ UNCHANGED <<lines, blocks>>
     ELSE lines' = Sourced /\ lineNo' = 1 /\ blocks' = <<>> /\ UNCHANGED code
  /\ UNCHANGED <<script, x, exiting, refused, log, expected>>

SoshNext ==
  \/ IfLine \/ ElifLine \/ ElseLine \/ WhileLine \/ ForLine \/ EndLine
  \/ SimpleLine \/ ExitLine \/ SourceLine

-----------------------------------------------------------------------------
\* The line walk of sosh_eval_script does what the block structure of the script
\* means: the same commands, output and tests in the same order, whatever is
\* nested in a branch or loop that is skipped, repeated or left early.
SoshFollowsStructure ==
  /\ IsPrefix(log, expected)
  /\ (lineNo > Len(lines) \/ exiting) => log = expected

-----------------------------------------------------------------------------
(***************************************************************************)
(* The text side of the script shell: the tokenizer of a line              *)
(* (user/libs/soshlib/sosh_lexer.c), the table of variables and arguments  *)
(* (sosh_vars.c) and the expressions over both (sosh_eval.c).  The control *)
(* flow above takes the lines already classified.                          *)
(*                                                                         *)
(* A text is a sequence of one-character strings.  The variables are a     *)
(* state machine; a line is lexed, and an expression evaluated, in any     *)
(* state of it.                                                            *)
(***************************************************************************)

CONSTANTS
  VarNames,    \* names the scripts set, shorter than SOSH_VAR_NAME_MAX
  VarValues,   \* values they are given
  VarMax,      \* SOSH_VAR_MAX
  ValueMax,    \* SOSH_VAR_VALUE_MAX
  TokenMax,    \* SOSH_TOKEN_MAX
  TokenLenMax, \* SOSH_TOKEN_LEN_MAX
  ArgMax,      \* 10: $0 .. $9
  ArgTexts,    \* argument strings of a script
  CommandOut,  \* what the commands a script captures print
  TokenLists,  \* the token lists that lines are written from
  Exprs        \* the token lists evaluated as expressions

VARIABLES
  entries,     \* the used entries of the table: sequence of [name, value]
  argv,        \* args[0 .. arg_count-1]
  allArgs,     \* $@
  lastExit,    \* $?
  given,       \* history: the value last given to each name
  asked        \* the last question and its answer

soshTextVars == <<entries, argv, allArgs, lastExit, given, asked>>

NUL == "NUL"

At(line, i) == IF i <= Len(line) THEN line[i] ELSE NUL

Cut(s, max) == SubSeq(s, 1, IF Len(s) < max THEN Len(s) ELSE max - 1)

Tok(type, value) == [type |-> type, value |-> value]

-----------------------------------------------------------------------------
(* sosh_lexer.c *)

is_space(c) == c \in {" ", "\t"}

is_var_char(c) == c \in {"a", "b", "n", "0", "1", "2", "3", "_"}

is_word_char(c) == is_var_char(c) \/ c \in {"/", ".", "-"}

AddToken(out, type, value) ==
  IF Len(out) >= TokenMax THEN out ELSE Append(out, Tok(type, Cut(value, TokenLenMax)))

Unescaped(c) == IF c = "n" THEN "\n" ELSE IF c = "t" THEN "\t" ELSE c

GrownToken(buf, c) == IF Len(buf) < TokenLenMax - 1 THEN Append(buf, c) ELSE buf

(* The quoted text from position i: its value and the position after it.   *)
RECURSIVE Quoted(_, _, _)
Quoted(line, i, buf) ==
  IF At(line, i) = NUL THEN [value |-> buf, next |-> i]
  ELSE IF At(line, i) = "\"" THEN [value |-> buf, next |-> i + 1]
  ELSE IF At(line, i) = "\\" /\ At(line, i + 1) # NUL
       THEN Quoted(line, i + 2, GrownToken(buf, Unescaped(At(line, i + 1))))
  ELSE Quoted(line, i + 1, GrownToken(buf, At(line, i)))

(* The text of a command capture, up to the parenthesis that closes it.    *)
RECURSIVE Captured(_, _, _, _)
Captured(line, i, depth, buf) ==
  IF At(line, i) = NUL THEN [value |-> buf, next |-> i]
  ELSE IF At(line, i) = ")" /\ depth = 1 THEN [value |-> buf, next |-> i + 1]
  ELSE Captured(line, i + 1,
                IF At(line, i) = "(" THEN depth + 1 ELSE IF At(line, i) = ")" THEN depth - 1 ELSE depth,
                GrownToken(buf, At(line, i)))

(* The text of ${...}, up to the brace.                                    *)
RECURSIVE Braced(_, _, _)
Braced(line, i, buf) ==
  IF At(line, i) = NUL THEN [value |-> buf, next |-> i]
  ELSE IF At(line, i) = "}" THEN [value |-> buf, next |-> i + 1]
  ELSE Braced(line, i + 1, GrownToken(buf, At(line, i)))

RECURSIVE VarRun(_, _, _)
VarRun(line, i, buf) ==
  IF is_var_char(At(line, i)) /\ Len(buf) < TokenLenMax - 1
  THEN VarRun(line, i + 1, Append(buf, At(line, i)))
  ELSE [value |-> buf, next |-> i]

TokenEnds == {NUL, " ", "\t", "\"", "$", "+", "=", "<", ">", "!"}

RECURSIVE WordRun(_, _, _)
WordRun(line, i, buf) ==
  IF At(line, i) \notin TokenEnds /\ Len(buf) < TokenLenMax - 1
  THEN WordRun(line, i + 1, Append(buf, At(line, i)))
  ELSE [value |-> buf, next |-> i]

RECURSIVE SkipSpace(_, _)
SkipSpace(line, i) == IF is_space(At(line, i)) THEN SkipSpace(line, i + 1) ELSE i

Scanned(type, r) == [type |-> type, value |-> r.value, next |-> r.next]

Symbol(type, text, next) == [type |-> type, value |-> text, next |-> next]

lex_dollar(line, i) ==
  CASE At(line, i) = "(" -> Scanned("CAPTURE", Captured(line, i + 1, 1, <<>>))
    [] At(line, i) = "{" /\ At(line, i + 1) = "#" -> Scanned("VARLEN", Braced(line, i + 2, <<>>))
    [] At(line, i) = "{" /\ At(line, i + 1) # "#" -> Scanned("VARSUBSTR", Braced(line, i + 1, <<>>))
    [] At(line, i) \in {"@", "?"} -> Symbol("VAR", <<At(line, i)>>, i + 1)
    [] OTHER -> Scanned("VAR", VarRun(line, i, <<>>))

Compare == [c \in {"=", "!", "<", ">"} |->
  IF c = "=" THEN "EQ" ELSE IF c = "!" THEN "NEQ" ELSE IF c = "<" THEN "LTE" ELSE "GTE"]

Single == [c \in {"=", "<", ">", "+"} |->
  IF c = "=" THEN "ASSIGN" ELSE IF c = "<" THEN "LT" ELSE IF c = ">" THEN "GT" ELSE "PLUS"]

(* The token that starts at a character that is not a space.               *)
OneToken(line, i, c) ==
  CASE c = "\"" -> Scanned("STRING", Quoted(line, i + 1, <<>>))
    [] c = "$" -> lex_dollar(line, i + 1)
    [] c \in DOMAIN Compare /\ At(line, i + 1) = "=" -> Symbol(Compare[c], <<c, "=">>, i + 2)
    [] c \in DOMAIN Single /\ (c = "+" \/ At(line, i + 1) # "=") -> Symbol(Single[c], <<c>>, i + 1)
    [] c = "-" /\ ~is_word_char(At(line, i + 1)) -> Symbol("MINUS", <<c>>, i + 1)
    [] OTHER -> Scanned("WORD", WordRun(line, i, <<>>))

(* Nothing is added for an empty name or word; a character that starts no  *)
(* token (a lone !) is never passed, and the loop does not end: Stuck.     *)
Stuck == <<Tok("STUCK", <<>>)>>

Added(out, t) ==
  IF t.value = <<>> /\ t.type \in {"VAR", "WORD"} THEN out ELSE AddToken(out, t.type, t.value)

RECURSIVE LexFrom(_, _, _)
LexFrom(line, i, out) ==
  IF At(line, i) \in {NUL, "#"} THEN out
  ELSE IF OneToken(line, i, line[i]).next = i THEN Stuck
  ELSE LexFrom(line, SkipSpace(line, OneToken(line, i, line[i]).next),
               Added(out, OneToken(line, i, line[i])))

sosh_lex_line(line) == LexFrom(line, SkipSpace(line, 1), <<>>)

-----------------------------------------------------------------------------
(* sosh_vars.c *)

SlotsOf(name) == {k \in 1..Len(entries) : entries[k].name = name}

sosh_vars_get(name) ==
  IF name = <<"?">> THEN lastExit
  ELSE IF name = <<"@">> THEN allArgs
  ELSE IF Len(name) = 1 /\ name[1] \in {"0", "1", "2", "3"}
       THEN IF (CHOOSE k \in 0..3 : <<"0", "1", "2", "3">>[k + 1] = name[1]) < Len(argv)
            THEN argv[1 + (CHOOSE k \in 0..3 : <<"0", "1", "2", "3">>[k + 1] = name[1])]
            ELSE <<>>
  ELSE IF SlotsOf(name) = {} THEN <<>>
  ELSE entries[CHOOSE k \in SlotsOf(name) : TRUE].value

(* The entry is added without looking for the name first.                  *)
SetAppends(name, value) ==
  IF Len(entries) = VarMax THEN entries
  ELSE Append(entries, [name |-> name, value |-> Cut(value, ValueMax)])

SetEntries(name, value) ==
  IF SlotsOf(name) # {}
  THEN [k \in 1..Len(entries) |->
          IF entries[k].name = name THEN [entries[k] EXCEPT !.value = Cut(value, ValueMax)]
                                    ELSE entries[k]]
  ELSE IF Len(entries) = VarMax THEN entries
  ELSE Append(entries, [name |-> name, value |-> Cut(value, ValueMax)])

SetRefused(name) == SlotsOf(name) = {} /\ Len(entries) = VarMax

(* The words of an argument string, at most ArgMax - 1 of them.            *)
RECURSIVE ArgWord(_, _, _)
ArgWord(s, i, buf) ==
  IF At(s, i) = NUL \/ is_space(At(s, i)) THEN [value |-> buf, next |-> i]
  ELSE ArgWord(s, i + 1, Append(buf, At(s, i)))

RECURSIVE ArgsFrom(_, _, _)
ArgsFrom(s, i, out) ==
  IF At(s, i) = NUL \/ Len(out) >= ArgMax THEN out
  ELSE ArgsFrom(s, SkipSpace(s, ArgWord(s, i, <<>>).next),
                Append(out, Cut(ArgWord(s, i, <<>>).value, ValueMax)))

Digits == <<"0", "1", "2", "3", "4", "5", "6", "7", "8", "9">>

IsDigit(c) == c \in Range(Digits)

DigitOf(c) == CHOOSE d \in 0..9 : Digits[d + 1] = c

RECURSIVE Numeral(_)
Numeral(n) == IF n < 10 THEN <<Digits[n + 1]>> ELSE Append(Numeral(n \div 10), Digits[(n % 10) + 1])

sosh_itoa(n) == IF n < 0 THEN <<"-">> \o Numeral(-n) ELSE Numeral(n)

sosh_vars_length(name) == Len(sosh_vars_get(name))

(* length < 0: none was given.                                             *)
sosh_vars_substring(val, start, length) ==
  IF start >= Len(val) THEN <<>>
  ELSE SubSeq(val, start + 1,
              IF length < 0 \/ start + length > Len(val) THEN Len(val) ELSE start + length)

-----------------------------------------------------------------------------
(* Expressions of sosh_eval.c *)

RECURSIVE AtoiFrom(_, _, _)
AtoiFrom(s, i, val) ==
  IF IsDigit(At(s, i)) THEN AtoiFrom(s, i + 1, val * 10 + DigitOf(At(s, i))) ELSE val

sosh_atoi(s) == IF At(s, 1) = "-" THEN -AtoiFrom(s, 2, 0) ELSE AtoiFrom(s, 1, 0)

sosh_is_numeric(s) ==
  /\ s \notin {<<>>, <<"-">>}
  /\ \A i \in 1..Len(s) : IsDigit(s[i]) \/ (i = 1 /\ s[i] = "-")

(* "VAR:start:len": the parts, and a part that names a variable.           *)
Colons(v) == {i \in 1..Len(v) : v[i] = ":"}

PartEnd(v, i) ==
  IF \E j \in Colons(v) : j > i THEN CHOOSE j \in Colons(v) : j > i /\ \A k \in Colons(v) : k > i => j <= k
  ELSE Len(v) + 1

NumberOf(part) ==
  IF At(part, 1) = "$" THEN sosh_atoi(sosh_vars_get(Tail(part))) ELSE sosh_atoi(part)

Substr(v, c1, c2) ==
  sosh_vars_substring(sosh_vars_get(SubSeq(v, 1, c1 - 1)),
    IF c1 > Len(v) \/ NumberOf(SubSeq(v, c1 + 1, c2 - 1)) < 0 THEN 0
    ELSE NumberOf(SubSeq(v, c1 + 1, c2 - 1)),
    IF c2 > Len(v) THEN -1 ELSE NumberOf(SubSeq(v, c2 + 1, Len(v))))

(* A captured command runs with the rest of the text as its arguments; the *)
(* newlines at the end of what it prints are dropped.                      *)
RECURSIVE Trimmed(_)
Trimmed(s) == IF s # <<>> /\ Last(s) \in {"\n", "\r"} THEN Trimmed(Front(s)) ELSE s

CommandOf(v) == ArgWord(v, SkipSpace(v, 1), <<>>).value

resolve_token(t) ==
  CASE t.type = "VAR" -> sosh_vars_get(t.value)
    [] t.type = "VARLEN" -> sosh_itoa(sosh_vars_length(t.value))
    [] t.type = "VARSUBSTR" -> Substr(t.value, PartEnd(t.value, 0), PartEnd(t.value, PartEnd(t.value, 0)))
    [] t.type = "CAPTURE" -> Trimmed(CommandOut[CommandOf(t.value)])
    [] OTHER -> t.value

Joined(out, right) ==
  IF sosh_is_numeric(out) /\ sosh_is_numeric(right)
  THEN sosh_itoa(sosh_atoi(out) + sosh_atoi(right)) ELSE Cut(out \o right, ValueMax)

(* The chain of + and - after the first operand, from the token at pos;    *)
(* the result is the value and the position reached.                       *)
RECURSIVE Chain(_, _, _)
Chain(ts, pos, out) ==
  IF pos > Len(ts) \/ ts[pos].type \notin {"PLUS", "MINUS"} THEN [value |-> out, pos |-> pos]
  ELSE IF pos = Len(ts) THEN [value |-> out, pos |-> pos + 1]
  ELSE IF ts[pos].type = "PLUS" THEN Chain(ts, pos + 2, Joined(out, resolve_token(ts[pos + 1])))
  ELSE IF sosh_is_numeric(out) /\ sosh_is_numeric(resolve_token(ts[pos + 1]))
       THEN Chain(ts, pos + 2, sosh_itoa(sosh_atoi(out) - sosh_atoi(resolve_token(ts[pos + 1]))))
  ELSE [value |-> out, pos |-> pos + 2]

eval_expr(ts) ==
  IF ts = <<>> THEN [value |-> <<>>, pos |-> 1] ELSE Chain(ts, 2, resolve_token(ts[1]))

-----------------------------------------------------------------------------
(* The state machine of the table, and the questions asked of it *)

NoQuestion == [kind |-> "none", of |-> <<>>, answer |-> <<>>]

SoshTextInit ==
  /\ entries = <<>> /\ argv = <<>> /\ allArgs = <<>> /\ lastExit = <<"0">>
  /\ given = [name \in VarNames |-> <<>>]
  /\ asked = NoQuestion

SetArgs(text) ==
  /\ argv = <<>>
  /\ argv' = ArgsFrom(text, SkipSpace(text, 1), <<<<"a">>>>)
  /\ allArgs' = Cut(text, ValueMax)
  /\ asked' = NoQuestion
  /\ UNCHANGED <<entries, lastExit, given>>

(* A question changes nothing: a script goes on from the state before it.  *)
Ready == argv # <<>> /\ asked.kind \in {"none", "set"}

SetVar(name, value) ==
  /\ Ready
  /\ entries' = SetEntries(name, value)
  /\ given' = IF SetRefused(name) THEN given ELSE [given EXCEPT ![name] = Cut(value, ValueMax)]
  /\ asked' = [kind |-> "set", of |-> name, answer |-> ~SetRefused(name)]
  /\ UNCHANGED <<argv, allArgs, lastExit>>

SetExitCode(n) ==
  /\ Ready
  /\ lastExit' = sosh_itoa(n)
  /\ asked' = NoQuestion
  /\ UNCHANGED <<entries, argv, allArgs, given>>

EvalExpr(ts) ==
  /\ asked' = [kind |-> "expr", of |-> ts, answer |-> eval_expr(ts)]
  /\ UNCHANGED <<entries, argv, allArgs, lastExit, given>>

-----------------------------------------------------------------------------
(* A line written from a list of tokens *)

Escaped(v) ==
  FlattenSeq([i \in 1..Len(v) |->
    IF v[i] = "\n" THEN <<"\\", "n">> ELSE IF v[i] \in {"\"", "\\"} THEN <<"\\", v[i]>> ELSE <<v[i]>>])

Written(t) ==
  CASE t.type = "STRING" -> <<"\"">> \o Escaped(t.value) \o <<"\"">>
    [] t.type = "VAR" -> <<"$">> \o t.value
    [] t.type = "VARLEN" -> <<"$", "{", "#">> \o t.value \o <<"}">>
    [] t.type = "VARSUBSTR" -> <<"$", "{">> \o t.value \o <<"}">>
    [] t.type = "CAPTURE" -> <<"$", "(">> \o t.value \o <<")">>
    [] OTHER -> t.value

(* Tokens that may stand next to each other without a space.               *)
Closed(t) == t.type \in {"STRING", "VARLEN", "VARSUBSTR", "CAPTURE", "PLUS"}

Opens(t) == t.type \in {"STRING", "VAR", "VARLEN", "VARSUBSTR", "CAPTURE", "PLUS"}

MayTouch(t, u) ==
  \/ Opens(u) /\ t.type # "MINUS"
  \/ Closed(t) /\ u.type \in {"WORD", "EQ", "ASSIGN", "LTE"}

LineOf(ts, tight) ==
  FlattenSeq([i \in 1..Len(ts) |->
    IF i = 1 THEN Written(ts[1])
    ELSE IF tight /\ MayTouch(ts[i - 1], ts[i]) THEN Written(ts[i])
    ELSE <<" ">> \o Written(ts[i])])

(* The tokenizer does not look at the table: one state of it is enough.    *)
Fresh == argv = <<>> /\ asked = NoQuestion

LexLine(ts, tight) ==
  /\ asked' = [kind |-> "lex", of |-> ts, answer |-> sosh_lex_line(LineOf(ts, tight))]
  /\ UNCHANGED <<entries, argv, allArgs, lastExit, given>>

SoshTextNext ==
  \/ \E text \in ArgTexts : SetArgs(text)
  \/ \E name \in VarNames, value \in VarValues : SetVar(name, value)
  \/ SetExitCode(-12)
  \/ Ready /\ \E ts \in Exprs : EvalExpr(ts)
  \/ Fresh /\ \E ts \in TokenLists, tight \in BOOLEAN : LexLine(ts, tight)

-----------------------------------------------------------------------------
(* Properties *)

Kept(ts) ==
  [i \in 1..(IF Len(ts) < TokenMax THEN Len(ts) ELSE TokenMax) |->
     [ts[i] EXCEPT !.value = Cut(@, TokenLenMax)]]

(* The value an operand stands for, from the values the script gave.       *)
GivenTo(name) == IF name \in VarNames THEN given[name] ELSE sosh_vars_get(name)

SelectIn(s, i) == IF i <= Len(s) THEN <<s[i]>> ELSE <<>>

Means(t) ==
  CASE t.type = "VAR" -> GivenTo(t.value)
    [] t.type = "VARLEN" -> Numeral(Len(GivenTo(t.value)))
    [] t.type = "VARSUBSTR" -> SelectIn(GivenTo(<<t.value[1]>>), 2)
    [] t.type = "CAPTURE" -> <<"2">>
    [] OTHER -> t.value

Operands(ts) == {i \in 1..Len(ts) : i % 2 = 1}

SumOf(ts) ==
  FoldLeft(LAMBDA n, k : IF k = 1 \/ ts[2 * k - 2].type = "PLUS" THEN n + sosh_atoi(Means(ts[2 * k - 1]))
                                                             ELSE n - sosh_atoi(Means(ts[2 * k - 1])),
           0, [k \in 1..((Len(ts) + 1) \div 2) |-> k])

ExprRight(ts, r) ==
  /\ (\A i \in Operands(ts) : sosh_is_numeric(Means(ts[i]))) =>
       /\ sosh_atoi(r.value) = SumOf(ts)
       /\ r.pos = Len(ts) + 1
  /\ (/\ \A i \in Operands(ts) : ~sosh_is_numeric(Means(ts[i]))
      /\ \A i \in 1..Len(ts) : ts[i].type # "MINUS") =>
       r.value = Cut(FlattenSeq([k \in 1..((Len(ts) + 1) \div 2) |-> Means(ts[2 * k - 1])]), ValueMax)

SpaceFree(s) == \A i \in 1..Len(s) : ~is_space(s[i])

(* A line the tokenizer gets comes back as the tokens it was written from  *)
(* (strings through their escapes, nested parentheses, operators with and  *)
(* without spaces), cut only at SOSH_TOKEN_MAX and SOSH_TOKEN_LEN_MAX; a   *)
(* variable reads as the value last set, and is refused only when          *)
(* SOSH_VAR_MAX others exist; the arguments are the words of $@; and an    *)
(* expression of numbers is their sum, one of texts their concatenation.   *)
SoshTextFaithful ==
  /\ asked.kind = "lex" => asked.answer = Kept(asked.of)
  /\ \A name \in VarNames : sosh_vars_get(name) = given[name]
  /\ asked.kind = "set" /\ ~asked.answer =>
       /\ asked.of \notin {entries[k].name : k \in 1..Len(entries)}
       /\ Cardinality({entries[k].name : k \in 1..Len(entries)}) = VarMax
  /\ \A k \in 2..Len(argv) : argv[k] # <<>> /\ SpaceFree(argv[k])
  /\ argv # <<>> /\ Len(argv) < ArgMax =>
       FlattenSeq(Tail(argv)) = SelectSeq(allArgs, LAMBDA c : ~is_space(c))
  /\ asked.kind = "expr" => ExprRight(asked.of, asked.answer)
=============================================================================
