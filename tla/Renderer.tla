------------------------------- MODULE Renderer -------------------------------
(***************************************************************************)
(* The page that shows a report (tools/ptx_report/renderer.py), as data:   *)
(* which sections, tabs, tables, rows and cells it has, in which order,    *)
(* and which identifiers its script will find.  Colours, markup and the    *)
(* format of numbers are left out.  A cell is <<heading, value>>, with the *)
(* heading it is meant for; a bar is what it shows and its filled width.   *)
(***************************************************************************)
EXTENDS Aggregator

Dash == "-"
NoSid == <<None, NoLine>>     \* None, null or ""

\* _bar: the filled width in pixels; its value is a fraction.
_bar(value, max_value, width) ==
  IF max_value <= 0 THEN 0
  ELSE Min({width, (width * value.num) \div (value.den * max_value)})

\* _kernel_id: the id of a section.  Names of functions have no character
\* that would be replaced.
_kernel_id(fn) == <<fn.launch_id, fn.name>>

Shown(i) == IF i.ptx_line # NoRawLine THEN i.ptx_line ELSE i.instr_name
MaxIssues(fn) == Max({fn.instructions[n].issue_count : n \in DOMAIN fn.instructions})
HasSid(x) == x.source_file # None /\ x.source_line # NoLine
Sid(x) == IF HasSid(x) THEN <<x.source_file, x.source_line>> ELSE NoSid

-----------------------------------------------------------------------------
\* The split view of source and assembly.

\* The files of a function's source_lines, in some order.
Files(fn) == SetToSeq({at[1] : at \in DOMAIN fn.source_lines})

\* The lines of a file that the source panel has: all of a file that could be
\* read, else three before and after each line with instructions.  (A file that
\* was read and is empty has one line, ''; it is not among the files here.)
LinesShown(fn, sf, full_src) ==
  LET lines == {at[2] : at \in {a \in DOMAIN fn.source_lines : a[1] = sf}}
  IN  IF full_src # <<>> THEN 1..Max({Max(lines), Len(full_src)})
      ELSE {l \in UNION {ln - 3..ln + 3 : ln \in lines} : l >= 1}

\* The row of the source panel for line ln of file sf.
SrcRow(fn, sf, full_src, ln) ==
  LET at == <<sf, ln>>
      active == at \in DOMAIN fn.source_lines
      sl == fn.source_lines[at]
      n_ptx == Cardinality({n \in DOMAIN fn.instructions : Sid(fn.instructions[n]) = at})
  IN  [ln |-> ln, active |-> active, n_ptx |-> n_ptx,
       text |-> IF active /\ sl.text # None THEN sl.text
                ELSE IF ln \in DOMAIN full_src THEN full_src[ln] ELSE None,
       sid |-> IF n_ptx > 0 THEN at ELSE NoSid,
       exec |-> IF active THEN sl.issue_count ELSE 0,
       eff |-> IF active THEN avg_branch_efficiency(sl) ELSE Fraction(1, 1),
       sums |-> IF active THEN sl.sums ELSE NoSums]

src_rows(fn, source_files) ==
  FlattenSeq([n \in DOMAIN Files(fn) |->
    LET sf == Files(fn)[n]
        full_src == Get(source_files, sf, <<>>)
        lines == Ascending(LinesShown(fn, sf, full_src))
    IN  [k \in DOMAIN lines |-> SrcRow(fn, sf, full_src, lines[k])]])

AsmRow(i) ==
  [is_sep |-> FALSE, is_dir |-> i.is_directive, pc |-> i.pc, ptx |-> Shown(i),
   exec |-> i.issue_count, eff |-> avg_branch_efficiency(i), sums |-> i.sums,
   coal |-> avg_global_coalescing(i), sid |-> Sid(i)]
Separator(at) == [is_sep |-> TRUE, sep_label |-> at, sid |-> NoSid]

\* Mutant: a separator only where the file changes.
AddAsmRow_PerFile(acc, i) ==
  IF HasSid(i) /\ Sid(i)[1] # acc.prev[1]
  THEN [rows |-> acc.rows \o <<Separator(Sid(i)), AsmRow(i)>>, prev |-> Sid(i)]
  ELSE [acc EXCEPT !.rows = Append(@, AsmRow(i))]

\* The next row of the assembly panel: after a separator where the source line
\* differs from the one of the last row that had any.
AddAsmRow(acc, i) ==
  IF HasSid(i) /\ Sid(i) # acc.prev
  THEN [rows |-> acc.rows \o <<Separator(Sid(i)), AsmRow(i)>>, prev |-> Sid(i)]
  ELSE [acc EXCEPT !.rows = Append(@, AsmRow(i))]
asm_rows(fn) ==
  LET upto[n \in 0..Len(fn.instructions)] ==
        IF n = 0 THEN [rows |-> <<>>, prev |-> NoSid]
        ELSE AddAsmRow(upto[n - 1], fn.instructions[n])
  IN  upto[Len(fn.instructions)].rows

MaxOr(S, default) == IF S = {} THEN default ELSE Max(S)

_render_split_view(fn, source_files) ==
  [src |-> src_rows(fn, source_files), asm |-> asm_rows(fn),
   hasBc |-> has_bank_conflicts(fn), hasCoal |-> has_coalescing(fn), maxExec |-> MaxIssues(fn),
   maxSrcExec |-> MaxOr({fn.source_lines[at].issue_count : at \in DOMAIN fn.source_lines}, 1)]

-----------------------------------------------------------------------------
\* The other tables.

Column(condition, cell) == IF condition THEN cell ELSE <<>>

\* A row of the assembly table; hot if it has four fifths of the most issues.
AsmTableRow(fn, i) ==
  LET eff == avg_branch_efficiency(i)
      Metric(value) == IF i.is_directive THEN Dash ELSE value
      Memory(value) == IF i.is_directive \/ ~UsesGlobalMemory(i) THEN Dash ELSE value
  IN  [hot |-> ~i.is_directive /\ 10 * i.issue_count >= 8 * MaxIssues(fn),
       cells |->
         <<<<"PC", i.pc>>,
           <<"Basic Block", IF i.is_directive THEN None ELSE i.basic_block>>,
           <<"PTX Instruction", Shown(i)>>,
           <<"Exec Count", Metric(<<i.issue_count, _bar(Fraction(i.issue_count, 1), MaxIssues(fn), 70)>>)>>,
           <<"Branch Eff", Metric(<<eff, _bar(eff, 1, 60)>>)>>>>
         \o Column(has_bank_conflicts(fn),
                   <<<<"Bank Conflicts", Metric(i.sums["bank_conflicts"])>>>>)
         \o Column(has_coalescing(fn),
                   <<<<"Mem Trans", Memory(i.sums["global_mem_transactions"])>>,
                     <<"Avg Coalescing", Memory(<<avg_global_coalescing(i),
                                                  _bar(avg_global_coalescing(i), 1, 50)>>)>>>>)]

_render_asm_table(fn) ==
  [cols |-> <<"PC", "Basic Block", "PTX Instruction", "Exec Count", "Branch Eff">>
              \o Column(has_bank_conflicts(fn), <<"Bank Conflicts">>)
              \o Column(has_coalescing(fn), <<"Mem Trans", "Avg Coalescing">>),
   rows |-> [n \in DOMAIN fn.instructions |-> AsmTableRow(fn, fn.instructions[n])]]

\* The cells of a hotspot; the source line comes second.
HotRow(fn, i) ==
  LET eff == avg_branch_efficiency(i)
      max_exec == Max({1, MaxIssues(fn)})
  IN  <<<<"PC", i.pc>>>>
      \o Column(has_source(fn), <<<<"Src", IF i.source_line \in {0, NoLine} THEN None ELSE i.source_line>>>>)
      \o <<<<"PTX Instruction", Shown(i)>>,
           <<"Exec Count", <<i.issue_count, _bar(Fraction(i.issue_count, 1), max_exec, 60)>>>>,
           <<"Branch Eff", <<eff, _bar(eff, 1, 50)>>>>,
           <<"Bank Conflicts", i.sums["bank_conflicts"]>>>>

\* _hot_table: "" without instructions; the heading of the source line is third.
_hot_table(fn, title, instrs) ==
  IF instrs = <<>> THEN <<>>
  ELSE <<[title |-> title,
          cols |-> <<"PC", "PTX Instruction">> \o Column(has_source(fn), <<"Src">>)
                     \o <<"Exec Count", "Branch Eff", "Bank Conflicts">>,
          rows |-> [n \in DOMAIN instrs |-> HotRow(fn, instrs[n])]]>>

_render_hotspots(fn) ==
  _hot_table(fn, "Top instructions by execution count", hotspots_by_exec(fn, 10))
    \o _hot_table(fn, "Most divergent", hotspots_by_divergence(fn, 10))
    \o _hot_table(fn, "Most bank conflicts", hotspots_by_conflicts(fn, 10))
    \o _hot_table(fn, "Worst coalescing", hotspots_by_coalescing(fn, 10))

\* The names of the instructions by issues, at most 16; ties as they came.
_render_itype_chart(fn) ==
  LET names == FoldLeft(LAMBDA s, i : IF Contains(s, i.instr_name) THEN s ELSE Append(s, i.instr_name),
                        <<>>, fn.instructions)
      counts == [n \in Range(names) |-> Issues(SelectSeq(fn.instructions, LAMBDA i : i.instr_name = n))]
      sorted == First(Sorted(names, LAMBDA a, b : counts[a] > counts[b]), 16)
      max_count == Max(Range(counts))
  IN  [n \in DOMAIN sorted |->
         [name |-> sorted[n], count |-> counts[sorted[n]],
          height |-> Max({2, (60 * counts[sorted[n]]) \div max_count})]]

total_declared(fn) ==
  FoldFunctionOnSet(LAMBDA r, n : r.declared + n, 0, fn.registers, DOMAIN fn.registers)

_render_register_table(fn) ==
  [total |-> total_declared(fn),
   rows |-> [p \in DOMAIN fn.registers |->
     [fn.registers[p] EXCEPT !.write_ops = IF @ = 0 THEN Dash ELSE @]]]

_render_stat_pills(fn) ==
  <<<<"Total Executions", fn.total_exec_count>>,
    <<"Avg Branch Eff", function_avg_branch_efficiency(fn)>>,
    <<"Bank Conflicts", fn.sums["bank_conflicts"]>>,
    <<"Unique PCs", Len(fn.instructions)>>>>
  \o Column(total_declared(fn) > 0, <<<<"Registers / Thread", total_declared(fn)>>>>)
  \o Column(has_coalescing(fn),
            <<<<"Mem Transactions", fn.sums["global_mem_transactions"]>>,
              <<"Avg Coalescing", function_avg_global_coalescing(fn)>>>>)

-----------------------------------------------------------------------------
\* Sections, summary and page.

badges(fn) ==
  LET eff == function_avg_branch_efficiency(fn)
      coal == function_avg_global_coalescing(fn)
  IN  Column(Less(eff, Fraction(9, 10)), <<<<"Avg eff", eff>>>>)
      \o Column(has_bank_conflicts(fn), <<<<"bank conflicts", fn.sums["bank_conflicts"]>>>>)
      \o Column(has_coalescing(fn) /\ Less(coal, Fraction(1, 2)), <<<<"Avg coalescing", coal>>>>)

\* A section: its tabs, the first of them active, and a pane for each.
_render_kernel_section(fn, source_files) ==
  [kid |-> _kernel_id(fn), launch_id |-> fn.launch_id, badges |-> badges(fn),
   tabs |-> <<"stats", IF has_source(fn) THEN "split" ELSE "asm", "hot">>,
   stats |-> [pills |-> _render_stat_pills(fn), itype |-> _render_itype_chart(fn),
              registers |-> _render_register_table(fn)],
   split |-> IF has_source(fn) THEN _render_split_view(fn, source_files)
             ELSE [src |-> <<>>, asm |-> <<>>],
   table |-> IF has_source(fn) THEN [cols |-> <<>>, rows |-> <<>>] ELSE _render_asm_table(fn),
   hot |-> _render_hotspots(fn)]

\* A row of the summary; a click on it shows the section onclick.
SummaryRow(fn, any_coal) ==
  [onclick |-> _kernel_id(fn), launch_id |-> fn.launch_id, name |-> fn.name,
   total |-> fn.total_exec_count, eff |-> function_avg_branch_efficiency(fn),
   bc |-> IF has_bank_conflicts(fn) THEN fn.sums["bank_conflicts"] ELSE Dash,
   coal |-> IF ~any_coal THEN None
            ELSE IF has_coalescing(fn) THEN function_avg_global_coalescing(fn) ELSE Dash,
   source |-> has_source(fn), unique_pcs |-> Len(fn.instructions)]

_render_summary(report) ==
  LET any_coal == \E n \in DOMAIN report.functions : has_coalescing(report.functions[n])
  IN  [n \in DOMAIN report.functions |-> SummaryRow(report.functions[n], any_coal)]

render_html(report) ==
  [summary |-> _render_summary(report),
   sections |-> [n \in DOMAIN report.functions |->
                   _render_kernel_section(report.functions[n], report.source_files)],
   n_kernels |-> Len(report.functions),
   n_records |-> SumOver(report.functions, LAMBDA fn : Issues(fn.instructions))]
=============================================================================
