----------------------------- MODULE MCReportTool -----------------------------
(***************************************************************************)
(* Programs for module ReportTool.  Program a has a kernel with source     *)
(* lines, a loop and directives, one without .loc, and a device function   *)
(* without parameters, which only the report numbers.  Program b declares  *)
(* another file under the same id.                                         *)
(***************************************************************************)
EXTENDS ReportTool

CONSTANTS h1, h2

Reg(prefix) == [class |-> "reg", prefix |-> prefix]
Word(class) == [class |-> class]
Instr(name, words) == [kind |-> "instr", name |-> name, words |-> words]
Loc(file, line) == [kind |-> "loc", file |-> file, line |-> line]
Label(name) == [kind |-> "label", name |-> name]
Declare(prefix, count) == [kind |-> "reg", prefix |-> prefix, type |-> "b32", count |-> count]
Function(name, params, body) ==
  [kind |-> "func", name |-> name, params |-> params, body |-> body]
File(id, path) == [kind |-> "file", id |-> id, path |-> path]
Section == <<[kind |-> "ptx"], [kind |-> "meta"], [kind |-> "dropped"]>>
Elf == <<[kind |-> "elf"], [kind |-> "meta"]>>

Ld(dst, addr) == Instr("ld", <<Word("global"), NoWord, Word("s32"), Reg(dst), Word(addr)>>)
Add == Instr("add", <<Word("s32"), Reg("r"), Reg("r"), NoWord, Word("imm")>>)
Bra == Instr("bra", <<Reg("p"), NoWord, Word("sym")>>)
Cvt == Instr("cvt", <<NoWord, Word("s32"), Word("u64"), Reg("rd"), Reg("r")>>)
St == Instr("st", <<Word("global"), NoWord, Word("b32"), Word("addr"), Reg("r")>>)
Ret == Instr("ret", <<>>)
Pragma == Instr("pragma", <<>>)

kernel ==
  <<Declare("r", 4), Declare("rd", 2), Pragma, Loc(1, 2), Ld("r", "addr"),
    Label("L1"), Loc(1, 0), Pragma, Loc(1, 3), Add, Loc(1, 2), Bra, Label("L2"), Ret,
    [kind |-> "brace"], Ret>>
plain == <<Declare("rd", 3), [kind |-> "skip"], Cvt, Ret>>
other == <<Declare("r", 1), Loc(1, 1), St, Loc(2, 1), Ret>>

ProgramA ==
  Elf \o Section \o
  <<File(1, "/src/k.cu"), Function("k", TRUE, kernel), Function("p", TRUE, plain),
    Function("d", FALSE, <<Ret>>)>> \o Elf
ProgramB == Section \o <<File(1, "/src/lib/k.cu"), Function("o", TRUE, other)>>
ProgramC == Section \o <<Function("q", TRUE, plain)>>
\* Registers that are written and not counted, or counted and not written: the
\* second of two, that of atom, and the one that says how long to sleep.
Pair(prefix, second) == [class |-> "reg|reg", prefix |-> prefix, second |-> second]
Shfl == Instr("shfl", <<Word("sync"), Word("bfly"), Word("b32"), Pair("r", "p"), Reg("r"), Reg("r"),
                        Reg("r"), Reg("r"), NoWord>>)
Atomic(name, dst) ==
  Instr(name, <<NoWord, Word("global"), Word("add"), Word("s32")>> \o dst \o
              <<Word("addr"), Reg("r"), NoWord>>)
Atom == [Atomic("atom", <<Reg("r")>>) EXCEPT !.words = @ \o <<NoWord, NoWord>>]
Red == Atomic("red", <<>>)
Nanosleep == Instr("nanosleep", <<Reg("r"), NoWord>>)
ProgramS == Section \o <<Function("s", TRUE, <<Declare("r", 4), Declare("p", 1), Shfl, Ret>>)>>
ProgramT == Section \o <<Function("t", TRUE, <<Declare("r", 4), Red, Atom, Ret>>)>>
ProgramU == Section \o <<Function("u", TRUE, <<Declare("r", 4), Red, Nanosleep, Ret>>)>>

\* The PTX of two object files, each with its own file 1; and a function that
\* only the report numbers before a kernel.
ProgramM == ProgramB \o Section \o <<File(1, "/src/m.cu"), Function("r", TRUE, <<Ret>>)>>
ProgramN == Section \o <<Function("d", FALSE, <<Ret>>), Function("q", TRUE, plain)>>
\* No PTX, and an instruction with a word its pattern does not accept.
ProgramE == Elf
ProgramX == Section \o <<Function("x", TRUE, <<Instr("bra", <<NoWord, NoWord, Reg("p")>>)>>)>>

Texts == [a |-> ProgramA, b |-> ProgramB, c |-> ProgramC, e |-> ProgramE, x |-> ProgramX,
          m |-> ProgramM, n |-> ProgramN, s |-> ProgramS, t |-> ProgramT, u |-> ProgramU]

\* A PTX file has no headers of sections.
PtxOnly == [b \in DOMAIN Texts |-> SelectSeq(Texts[b], LAMBDA i : i.kind \in {"file", "func"})]

\* Where and with which lanes and values of the metrics.
Step(at, lanes, eff) ==
  [at |-> at, lanes |-> lanes,
   values |-> [branch_efficiency |-> eff, bank_conflicts |-> 1,
               global_mem_transactions |-> 2, global_coalescing |-> 50]]

\* The loop of kernel k is left at once, or one lane stays in it.
WarpPaths ==
  [a |-> [k |-> {<<Step(0, 2, 0), Step(1, 2, 0), Step(2, 2, 0), Step(3, 2, 100),
                   Step(4, 2, 0), Step(5, 2, 100), Step(6, 2, 100), Step(7, 2, 100)>>,
                 <<Step(0, 2, 0), Step(1, 2, 0), Step(2, 2, 0), Step(3, 2, 100),
                   Step(4, 2, 0), Step(5, 2, 100), Step(6, 2, 50), Step(7, 1, 50),
                   Step(4, 1, 0), Step(5, 1, 50), Step(6, 1, 50), Step(7, 1, 50)>>},
          p |-> {<<Step(0, 2, 0), Step(1, 2, 100), Step(2, 2, 100)>>}],
   b |-> [o |-> {<<Step(0, 2, 0), Step(1, 2, 100), Step(2, 2, 100)>>}],
   c |-> [q |-> {<<Step(0, 1, 0), Step(1, 1, 100), Step(2, 1, 100)>>}],
   m |-> [o |-> {<<Step(0, 2, 0), Step(1, 2, 100), Step(2, 2, 100)>>}],
   n |-> [q |-> {<<Step(0, 1, 0), Step(1, 1, 100), Step(2, 1, 100)>>}],
   s |-> [s |-> {<<Step(0, 2, 0), Step(1, 2, 0), Step(2, 2, 100), Step(3, 2, 100)>>}],
   t |-> [t |-> {<<Step(0, 2, 0), Step(1, 2, 100), Step(2, 2, 100), Step(3, 2, 100)>>}],
   u |-> [u |-> {<<Step(0, 2, 0), Step(1, 2, 100), Step(2, 2, 100), Step(3, 2, 100)>>}],
   e |-> Empty, x |-> Empty]
Launches == [b \in DOMAIN Texts |-> IF b = "a" THEN 3 ELSE 1]

Sources == [p \in {"/src/k.cu", "/home/k.cu"} |->
              IF p = "/src/k.cu" THEN <<"s1", "s2", "s3", "s4">> ELSE <<"h1">>]
Names == [p \in {"/src/k.cu", "/home/k.cu", "/src/lib/k.cu", "/src/m.cu", "/tmp/m.cu"} |->
            IF p \in {"/src/m.cu", "/tmp/m.cu"} THEN "m.cu" ELSE "k.cu"]

Line(profiling, binaries, ptx_files, sources) ==
  [profiling |-> profiling, binaries |-> binaries, ptx_files |-> ptx_files, sources |-> sources]
CommandLines ==
  {Line(None, <<>>, <<"a">>, {}),
   Line(None, <<"b", "c">>, <<>>, {}),
   Line(None, <<"x">>, <<>>, {}),
   Line("a", <<"e">>, <<>>, {}),
   Line("a", <<>>, <<"a">>, {"/home/k.cu", "/tmp/m.cu"}),
   Line("b", <<"b">>, <<"a">>, {"/home/k.cu"})}

\* Command lines for what the documentation says.
CommandLinesOfDocs ==
  {Line(None, <<"b", "b">>, <<>>, {}), Line(None, <<"a">>, <<>>, {}),
   Line(None, <<"m">>, <<>>, {}), Line(None, <<"n">>, <<>>, {}),
   Line(None, <<"s">>, <<>>, {}), Line(None, <<"t">>, <<>>, {}), Line(None, <<"u">>, <<>>, {})}
=============================================================================
