------------------------------- MODULE PtxText -------------------------------
(***************************************************************************)
(* The PTX of a program, as the emulator and as the report read it.  Both  *)
(* number the instructions of all functions, each with patterns of its     *)
(* own: app/ptx_asm/module.cpp and function.cpp, tools/ptx_report/         *)
(* ptx_parser.py.  A profile names instructions by the emulator's number,  *)
(* the report looks them up by its own.                                    *)
(*                                                                         *)
(* What cuobjdump prints is a sequence of items: headers of sections,      *)
(* lines about a section, .file directives and functions [name, params,    *)
(* body].  A line of a body is                                             *)
(*   [kind |-> "label", name]      [kind |-> "loc", file, line]            *)
(*   [kind |-> "reg", prefix, type, count]                                 *)
(*   [kind |-> "instr", name, words]  an instruction or other directive    *)
(*   [kind |-> "skip"]             neither pattern matches it              *)
(*   [kind |-> "brace"]            it has a closing brace                  *)
(***************************************************************************)
EXTENDS CodeGen

Empty == [x \in {} |-> 0]                        \* {} of Python
Put(f, x, v) ==                                  \* f[x] = v
  [y \in DOMAIN f \cup {x} |-> IF y = x THEN v ELSE f[y]]
Update(f, g) ==                                  \* f.update(g)
  [y \in DOMAIN f \cup DOMAIN g |-> IF y \in DOMAIN g THEN g[y] ELSE f[y]]
Get(f, x, default) == IF x \in DOMAIN f THEN f[x] ELSE default
Dict(pairs) ==                                   \* {k: v for k, v in pairs}
  [k \in {pairs[i][1] : i \in DOMAIN pairs} |->
     pairs[Max({i \in DOMAIN pairs : pairs[i][1] = k})][2]]
None == "none"                                   \* None, or an empty string
NoRawLine == [kind |-> None]                     \* an empty line of PTX

\* A text is a sequence, and so are the bodies of its functions; the line of a
\* .loc is a number.
IsList(s) == s \in Seq(Range(s))
IsText(text) ==
  /\ IsList(text)
  /\ \A i \in DOMAIN text : text[i].kind = "func" =>
       LET body == text[i].body
       IN  /\ IsList(body)
           /\ \A k \in DOMAIN body : body[k].kind = "loc" => body[k].line \in Nat

\* The body of a function: both patterns stop at the first closing brace.
Content(body) ==
  LET braces == {i \in DOMAIN body : body[i].kind = "brace"}
  IN  IF braces = {} THEN body ELSE SubSeq(body, 1, Min(braces) - 1)

\* The name that the patterns find in a line they match.
InstrName(line) == IF line.kind = "reg" THEN "reg" ELSE line.name
Numbered(line) == line.kind \in {"reg", "instr"}

-----------------------------------------------------------------------------
\* The emulator's module.

\* Function::Make at pc: its basic blocks start where the instructions before
\* their labels end.  A line number remembers where an instruction is from.
FunctionMake(pc, item, where) ==
  LET body == Content(item.body)
      numbered == {k \in DOMAIN body : Numbered(body[k])}
      labels == {k \in DOMAIN body : body[k].kind = "label"}
      Label(name) == Max({0} \cup {k \in labels : body[k].name = name})
  IN  [pc |-> pc,
       basic_blocks |-> [b \in {"entry"} \cup {body[k].name : k \in labels} |->
                           pc + Cardinality({k \in numbered : k < Label(b)})],
       instrs |-> Kept([k \in DOMAIN body |-> [line |-> body[k], at |-> <<where, k>>]], numbered)]

\* One function in the loop of Module::Make: those without parameters do not
\* match its pattern.
AddFunction(m, text, i) ==
  IF text[i].kind # "func" \/ ~text[i].params THEN m
  ELSE LET f == FunctionMake(Len(m.instructions), text[i], i)
       IN  [instructions |-> m.instructions \o f.instrs,
            functions |-> Put(m.functions, text[i].name,
                              [pc |-> f.pc, basic_blocks |-> f.basic_blocks])]
Make(text) ==
  LET upto[n \in 0..Len(text)] ==
        IF n = 0 THEN [instructions |-> <<>>, functions |-> Empty]
        ELSE AddFunction(upto[n - 1], text, n)
  IN  upto[Len(text)]

GetInstruction(m, pc) == m.instructions[pc + 1]

\* Function::GetBasicBlockAt: the last block that starts no later than pc; of
\* blocks that start together, the one the unordered map has first.
GetBasicBlockAt(f, pc) ==
  LET before == {b \in DOMAIN f.basic_blocks : f.basic_blocks[b] <= pc}
  IN  CHOOSE b \in before : \A c \in before : f.basic_blocks[c] <= f.basic_blocks[b]

\* Module::Make succeeds: every line is a known instruction and matches its
\* pattern.  The name ends before a digit other than 2, so lop3 is not known.
Loads(text) ==
  \A i \in DOMAIN text :
    text[i].kind = "func" /\ text[i].params =>
      \A k \in DOMAIN Content(text[i].body) :
        LET line == Content(text[i].body)[k]
        IN  line.kind = "instr" =>
              /\ line.name \in DOMAIN ISA \ {"lop3"}
              /\ ISA[line.name].kind = "instruction" =>
                   Matches(make_regexp(ISA[line.name]), line.words)

-----------------------------------------------------------------------------
\* The report's module.

\* _extract_ptx_via_cuobjdump on the printed text: the lines of the sections
\* with PTX; nothing, or None, if there is no such section.  The pattern that is to drop
\* the lines about a section ends in \b: of "compressed" and "ptxasOptions" it
\* drops the lines, of the others it matches none and they are kept.
ExtractPtx(raw) ==
  LET Inside(k) == \E h \in 1..k - 1 : /\ raw[h].kind = "ptx"
                                       /\ \A j \in h..k : raw[j].kind # "elf"
  IN  Kept(raw, {k \in DOMAIN raw : raw[k].kind \notin {"ptx", "dropped"} /\ Inside(k)})

_NO_DST_REG ==
  {"st", "bar", "bra", "ret", "exit", "trap", "loc", "pragma", "reg", "shared", "atom", "red"}

\* The first register of a line outside a memory operand, if it may be written.
dst_reg_prefix(line) ==
  IF line.kind = "reg" \/ line.name \in _NO_DST_REG THEN None
  ELSE LET regs == {i \in DOMAIN line.words : line.words[i].class \in {"reg", "reg|reg"}}
       IN  IF regs = {} THEN None ELSE line.words[Min(regs)].prefix

\* Mutant: .loc directives are numbered.
ParseLine_NumbersLoc(s, line, fn, files) ==
  CASE line.kind = "label" -> [s EXCEPT !.bb = line.name]
    [] line.kind = "loc" ->
         [s EXCEPT !.file = Get(files, line.file, None), !.line = line.line, !.pc = @ + 1]
    [] Numbered(line) ->
         [s EXCEPT
            !.pc = @ + 1,
            !.instructions = Append(@,
              [pc |-> s.pc, function_name |-> fn, basic_block |-> s.bb,
               instr_name |-> InstrName(line), raw_line |-> line,
               source_file |-> s.file, source_line |-> s.line,
               dst_reg_prefix |-> dst_reg_prefix(line)]),
            !.regs = IF line.kind = "reg"
                     THEN Put(@, line.prefix, [count |-> line.count, type |-> line.type])
                     ELSE @]
    [] OTHER -> s

\* One line of a body in the loop of parse_ptx.
ParseLine(s, line, fn, files) ==
  CASE line.kind = "label" -> [s EXCEPT !.bb = line.name]
    [] line.kind = "loc" ->
         [s EXCEPT !.file = Get(files, line.file, None), !.line = line.line]
    [] Numbered(line) ->
         [s EXCEPT
            !.pc = @ + 1,
            !.instructions = Append(@,
              [pc |-> s.pc, function_name |-> fn, basic_block |-> s.bb,
               instr_name |-> InstrName(line), raw_line |-> line,
               source_file |-> s.file, source_line |-> s.line,
               dst_reg_prefix |-> dst_reg_prefix(line)]),
            !.regs = IF line.kind = "reg"
                     THEN Put(@, line.prefix, [count |-> line.count, type |-> line.type])
                     ELSE @]
    [] OTHER -> s

NoLine == -1   \* no .loc has been seen: source_line is None

\* The lines of a function from pc on.
ParseBody(pc, item, files) ==
  LET body == Content(item.body)
      upto[n \in 0..Len(body)] ==
        IF n = 0 THEN [pc |-> pc, bb |-> "entry", file |-> None, line |-> NoLine,
                       regs |-> Empty, instructions |-> <<>>]
        ELSE ParseLine(upto[n - 1], body[n], item.name, files)
  IN  upto[Len(body)]

\* One function in the loop of parse_ptx.
ParseFunction(m, item, files) ==
  IF item.kind # "func" THEN m
  ELSE LET s == ParseBody(m.pc, item, files)
       IN  [pc |-> s.pc, instructions |-> m.instructions \o s.instructions,
            func_regs |-> IF s.regs = Empty THEN m.func_regs
                          ELSE Put(m.func_regs, item.name, s.regs)]

\* parse_ptx: one table of files for the whole text, one pc for all functions.
\* by_func_pc names an instruction by its place in instructions.
parse_ptx(text) ==
  LET named == SelectSeq(text, LAMBDA item : item.kind = "file")
      files == Dict([n \in DOMAIN named |-> <<named[n].id, named[n].path>>])
      upto[n \in 0..Len(text)] ==
        IF n = 0 THEN [pc |-> 0, instructions |-> <<>>, func_regs |-> Empty]
        ELSE ParseFunction(upto[n - 1], text[n], files)
      m == upto[Len(text)]
      At(i) == <<m.instructions[i].function_name, m.instructions[i].pc>>
  IN  [instructions |-> m.instructions,
       by_func_pc |-> Dict([i \in DOMAIN m.instructions |-> <<At(i), i>>]),
       source_files |-> Empty,
       func_reg_declarations |-> m.func_regs]

\* merge_ptx: what a later module says of a function replaces what was there.
NoModule == [instructions |-> <<>>, by_func_pc |-> Empty, source_files |-> Empty,
             func_reg_declarations |-> Empty]
MergeModule(a, m) ==
  [instructions |-> a.instructions \o m.instructions,
   by_func_pc |-> Update(a.by_func_pc, [k \in DOMAIN m.by_func_pc |->
                                          m.by_func_pc[k] + Len(a.instructions)]),
   source_files |-> Update(a.source_files, m.source_files),
   func_reg_declarations |-> Update(a.func_reg_declarations, m.func_reg_declarations)]
merge_ptx(modules) ==
  LET upto[n \in 0..Len(modules)] ==
        IF n = 0 THEN NoModule ELSE MergeModule(upto[n - 1], modules[n])
  IN  upto[Len(modules)]

-----------------------------------------------------------------------------
\* Sources.  disk: path -> the lines of a file that can be read; name_of: path ->
\* name of the file.

\* The first loop of load_sources: a referenced path is read from where it
\* says, or else from a provided file of the same name (pick is the one the
\* set yields); what is read is kept under the path that refers to it.  A path
\* that is not in disk does not exist: there is none that cannot be opened, for
\* which the code would not look among the provided files.
ReadReferenced(m, candidates, disk, name_of, pick) ==
  LET referenced == {m.instructions[i].source_file : i \in DOMAIN m.instructions} \ {None}
      By(name) == {p \in candidates : name_of[p] = name}
      Resolved(path) == IF path \in DOMAIN disk THEN path
                        ELSE IF By(name_of[path]) # {} THEN pick[name_of[path]] ELSE None
      found == {path \in referenced : Resolved(path) \in DOMAIN disk}
  IN  [m EXCEPT !.source_files = Update(@, [p \in found |-> disk[Resolved(p)]])]

\* The second loop for one provided file: unless it is there under its own
\* path it is read, and every instruction whose file has its name moves to it.
ReadProvided(m, p, disk, name_of) ==
  IF p \in DOMAIN m.source_files \/ p \notin DOMAIN disk THEN m
  ELSE [m EXCEPT
          !.source_files = Put(@, p, disk[p]),
          !.instructions = [i \in DOMAIN @ |->
             IF @[i].source_file # None /\ name_of[@[i].source_file] = name_of[p]
             THEN [@[i] EXCEPT !.source_file = p] ELSE @[i]]]

\* load_sources; order is the one in which the set of provided files is walked,
\* pick the file that another set yields first for a name: both arbitrary, and
\* not the same each time the tool runs.
load_sources(m, order, pick, disk, name_of) ==
  LET upto[n \in 0..Len(order)] ==
        IF n = 0 THEN ReadReferenced(m, Range(order), disk, name_of, pick)
        ELSE ReadProvided(upto[n - 1], order[n], disk, name_of)
  IN  upto[Len(order)]

\* get_source_line: the text of a line, or None; lines count from 1.
get_source_line(m, source_file, line) ==
  IF source_file = None \/ line \in {NoLine, 0} THEN None
  ELSE LET lines == Get(m.source_files, source_file, <<>>)
       IN  IF line \in DOMAIN lines THEN lines[line] ELSE None
=============================================================================
