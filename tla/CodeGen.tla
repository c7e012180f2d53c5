------------------------------- MODULE CodeGen -------------------------------
(***************************************************************************)
(* The code generator of the instruction set (app/ptx_asm/codegen/         *)
(* autogen.py).  At build time it turns the description of an instruction  *)
(* into the pattern its lines must match and into the list of metrics its  *)
(* executor records.  A name is a sequence of parts, so that one parameter *)
(* name may begin with another; a word of a line is its class and, for a   *)
(* register, its prefix, for two registers the second's too; punctuation   *)
(* is left out.                                                            *)
(***************************************************************************)
EXTENDS Integers, Sequences, SequencesExt

NoWord == [class |-> "absent"]   \* an optional operand that is not there

\* instructions.json: what the regular expression of an operand type accepts.
Operands ==
  [registerOperand       |-> {"reg"},
   doubleRegisterOperand |-> {"reg|reg"},
   immediateOperand      |-> {"imm"},
   symbolOperand         |-> {"sym", "imm"},
   addressOperand        |-> {"addr", "reg", "sym", "imm"}]

Operand(type) == [arg_type |-> "operand", dtype |-> type]
Qualifier(values) == [arg_type |-> "qualifier", values |-> values]
Local(words) == [arg_type |-> "local", regexp |-> words]
Group(name) == [holder |-> name, optional |-> FALSE]
Optional(name) == [holder |-> name, optional |-> TRUE]
Param(name, arg) == [name |-> name, arg |-> arg]

\* Of a qualifier's values those that occur.
Types == Qualifier({"b32", "s32", "u64", "f32"})
Spaces == Qualifier({"global", "shared"})
Register == Operand("registerOperand")
Immediate == Operand("immediateOperand")
Address == Operand("addressOperand")

\* The instructions of instructions.json that the programs here use: kind of
\* the template, its groups in order, and the parameters in order.
Entry(kind, template, params) == [kind |-> kind, template |-> template, params |-> params]

regInstruction == Entry("directive", <<>>, <<>>)
pragmaInstruction == Entry("directive", <<>>, <<>>)
retInstruction == Entry("instruction", <<>>, <<>>)
braInstruction ==
  Entry("instruction",
    <<Optional(<<"prd">>), Optional(<<"uni">>), Group(<<"sym">>)>>,
    <<Param(<<"prd">>, Register), Param(<<"uni">>, Local({"uni"})),
      Param(<<"sym">>, Operand("symbolOperand"))>>)
addInstruction ==
  Entry("instruction",
    <<Group(<<"data">>), Group(<<"dst">>), Group(<<"src", "1">>), Optional(<<"src", "2">>),
      Optional(<<"imm">>)>>,
    <<Param(<<"data">>, Types), Param(<<"dst">>, Register), Param(<<"src", "1">>, Register),
      Param(<<"src", "2">>, Register), Param(<<"imm">>, Immediate)>>)
ldInstruction ==
  Entry("instruction",
    <<Optional(<<"space">>), Optional(<<"mode">>), Optional(<<"data">>), Group(<<"dst">>),
      Group(<<"addr">>)>>,
    <<Param(<<"space">>, Spaces), Param(<<"mode">>, Qualifier({"cg"})), Param(<<"data">>, Types),
      Param(<<"dst">>, Register), Param(<<"addr">>, Address)>>)
stInstruction ==
  Entry("instruction",
    <<Optional(<<"space">>), Optional(<<"mode">>), Optional(<<"data">>), Group(<<"addr">>),
      Group(<<"src">>)>>,
    <<Param(<<"space">>, Spaces), Param(<<"mode">>, Qualifier({"cg"})), Param(<<"data">>, Types),
      Param(<<"addr">>, Address), Param(<<"src">>, Register)>>)
cvtInstruction ==
  Entry("instruction",
    <<Optional(<<"mode">>), Group(<<"src", "data">>), Group(<<"dst", "data">>), Group(<<"dst">>),
      Group(<<"src">>)>>,
    <<Param(<<"mode">>, Qualifier({"rn"})), Param(<<"src", "data">>, Types),
      Param(<<"dst", "data">>, Types), Param(<<"dst">>, Register), Param(<<"src">>, Register)>>)
shflInstruction ==
  Entry("instruction",
    <<Optional(<<"sync">>), Group(<<"mode">>), Group(<<"data">>), Group(<<"dst">>),
      Group(<<"src", "1">>), Group(<<"src", "2">>), Group(<<"src", "3">>), Optional(<<"mask">>),
      Optional(<<"mask", "imm">>)>>,
    <<Param(<<"sync">>, Local({"sync"})), Param(<<"mode">>, Qualifier({"bfly", "down"})),
      Param(<<"data">>, Types), Param(<<"dst">>, Operand("doubleRegisterOperand")),
      Param(<<"src", "1">>, Register), Param(<<"src", "2">>, Register), Param(<<"src", "3">>, Register),
      Param(<<"mask">>, Register), Param(<<"mask", "imm">>, Immediate)>>)
atomInstruction ==
  Entry("instruction",
    <<Optional(<<"scope">>), Group(<<"space">>), Group(<<"op">>), Group(<<"data">>),
      Group(<<"dst">>), Group(<<"addr">>), Optional(<<"src", "1">>), Optional(<<"imm", "1">>),
      Optional(<<"src", "2">>), Optional(<<"imm", "2">>)>>,
    <<Param(<<"scope">>, Qualifier({"gpu"})), Param(<<"space">>, Spaces),
      Param(<<"op">>, Qualifier({"add"})), Param(<<"data">>, Types), Param(<<"dst">>, Register),
      Param(<<"addr">>, Address), Param(<<"src", "1">>, Register), Param(<<"imm", "1">>, Immediate),
      Param(<<"src", "2">>, Register), Param(<<"imm", "2">>, Immediate)>>)
redInstruction ==
  Entry("instruction",
    <<Optional(<<"scope">>), Group(<<"space">>), Group(<<"op">>), Group(<<"data">>),
      Group(<<"addr">>), Optional(<<"src">>), Optional(<<"imm">>)>>,
    <<Param(<<"scope">>, Qualifier({"gpu"})), Param(<<"space">>, Spaces),
      Param(<<"op">>, Qualifier({"add"})), Param(<<"data">>, Types), Param(<<"addr">>, Address),
      Param(<<"src">>, Register), Param(<<"imm">>, Immediate)>>)
nanosleepInstruction ==
  Entry("instruction", <<Optional(<<"src">>), Optional(<<"imm">>)>>,
    <<Param(<<"src">>, Register), Param(<<"imm">>, Immediate)>>)
lop3Instruction ==
  Entry("instruction",
    <<Group(<<"dst">>), Group(<<"src", "1">>), Group(<<"src", "2">>), Group(<<"src", "3">>),
      Group(<<"imm">>)>>,
    <<Param(<<"dst">>, Register), Param(<<"src", "1">>, Register), Param(<<"src", "2">>, Register),
      Param(<<"src", "3">>, Register), Param(<<"imm">>, Immediate)>>)

\* No program has brx: its pattern has a closing brace, which ends a function.
ISA ==
  [reg |-> regInstruction, pragma |-> pragmaInstruction, ret |-> retInstruction,
   bra |-> braInstruction, add |-> addInstruction, ld |-> ldInstruction, st |-> stInstruction,
   cvt |-> cvtInstruction, shfl |-> shflInstruction, atom |-> atomInstruction,
   red |-> redInstruction, nanosleep |-> nanosleepInstruction, lop3 |-> lop3Instruction]

\* The instructions proper: the others are directives.
Instructions == {name \in DOMAIN ISA : ISA[name].kind = "instruction"}

-----------------------------------------------------------------------------
\* The classes of words that stand for a parameter (make_regexp, 15-27).
Regexp(arg) ==
  CASE "regexp" \in DOMAIN arg -> arg.regexp
    [] arg.arg_type \in {"qualifier", "children"} -> arg.values
    [] arg.arg_type = "operand" -> Operands[arg.dtype]

\* tmp.replace: the parameter's name is replaced wherever a placeholder starts
\* with it; what is left of a longer name stays in the pattern as text.
Substitute(tmp, p) ==
  [i \in DOMAIN tmp |->
     IF "holder" \in DOMAIN tmp[i] /\ IsPrefix(p.name, tmp[i].holder)
     THEN [accepts |-> Regexp(p.arg), optional |-> tmp[i].optional,
           text |-> SubSeq(tmp[i].holder, Len(p.name) + 1, Len(tmp[i].holder))]
     ELSE tmp[i]]

\* The pattern of an instruction: a sequence of [accepts, text, optional].
make_regexp(instr) == FoldLeft(Substitute, instr.template, instr.params)

\* A line matches: each group finds its word, or may be empty and does.
\* No operand of PTX is followed by the text a placeholder leaves behind.
Matches(pattern, words) ==
  /\ Len(words) = Len(pattern)
  /\ \A i \in DOMAIN pattern :
       \/ words[i] = NoWord /\ pattern[i].optional
       \/ words[i].class \in pattern[i].accepts /\ pattern[i].text = <<>>

\* Make gives the word of group number i to parameter number i.
Bound(instr, name, words) ==
  LET i == CHOOSE j \in DOMAIN instr.params : instr.params[j].name = name
  IN  words[i]

\* What the description means: every word fits the parameter its group names.
Described(instr, words) ==
  /\ Len(words) = Len(instr.template)
  /\ \A i \in DOMAIN words :
       \/ words[i] = NoWord /\ instr.template[i].optional
       \/ \E p \in Range(instr.params) :
            p.name = instr.template[i].holder /\ words[i].class \in Regexp(p.arg)

-----------------------------------------------------------------------------
\* profiling_metrics.json
KnownMetrics ==
  {"branch_efficiency", "bank_conflicts", "global_mem_transactions", "global_coalescing"}
DefaultMetrics == <<"branch_efficiency">>
SpecificMetrics(name) ==
  CASE name = "ld" -> <<"branch_efficiency", "bank_conflicts", "global_mem_transactions",
                        "global_coalescing">>
    [] name = "st" -> <<"branch_efficiency", "global_mem_transactions", "global_coalescing">>
    [] OTHER -> <<>>

\* The elements of s at the places in keep, in their order.
Kept(s, keep) == FlattenSeq([i \in DOMAIN s |-> IF i \in keep THEN <<s[i]>> ELSE <<>>])

\* load_profiling_metrics: the metrics an instruction records, in this order;
\* none for a directive, whose executor then records nothing at all.
ProfilingMetrics(name) ==
  LET all == DefaultMetrics \o SpecificMetrics(name)
      first == {i \in DOMAIN all : \A j \in 1..i-1 : all[j] # all[i]}
  IN  IF name \notin Instructions THEN <<>>
      ELSE Kept(all, {i \in first : all[i] \in KnownMetrics})
=============================================================================
