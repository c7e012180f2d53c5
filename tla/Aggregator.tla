------------------------------ MODULE Aggregator ------------------------------
(***************************************************************************)
(* The report as data (tools/ptx_report/aggregator.py): the records of a   *)
(* profile counted per launch, function and instruction, annotated from    *)
(* the PTX, and summed per source line and function.  The emulator's       *)
(* fractions are in percent here; an average is a fraction [num, den].     *)
(***************************************************************************)
EXTENDS PtxText

_DIRECTIVE_NAMES == {"loc", "reg", "shared", "pragma"}

\* sum()
Total(s) ==
  LET upto[n \in 0..Len(s)] == IF n = 0 THEN 0 ELSE upto[n - 1] + s[n]
  IN  upto[Len(s)]
SumOver(s, Value(_)) == Total([i \in DOMAIN s |-> Value(s[i])])
NoSums == [m \in KnownMetrics |-> 0]

\* sorted(): Before is the order of the keys; equal ones stay as they were.
Sorted(s, Before(_, _)) ==
  LET upto[n \in 0..Len(s)] ==
        IF n = 0 THEN <<>>
        ELSE LET acc == upto[n - 1]
             IN  InsertAt(acc, 1 + Max({0} \cup {k \in 1..n - 1 : ~Before(s[n], acc[k])}), s[n])
  IN  upto[Len(s)]
Ascending(S) == Kept([k \in 1..Max(S) + 1 |-> k - 1], {k \in 1..Max(S) + 1 : k - 1 \in S})

Fraction(num, den) == [num |-> num, den |-> den]
Less(a, b) == a.num * b.den < b.num * a.den

-----------------------------------------------------------------------------
\* The averages of InstrStats, SourceLineStats and FunctionReport.

\* avg_branch_efficiency of an instruction, and of a source line
avg_branch_efficiency(x) ==
  IF x.issue_count > 0 THEN Fraction(x.sums["branch_efficiency"], 100 * x.issue_count)
  ELSE Fraction(1, 1)

avg_global_coalescing(i) ==
  IF i.sums["global_mem_transactions"] = 0 \/ i.issue_count = 0 THEN Fraction(0, 1)
  ELSE Fraction(i.sums["global_coalescing"], 100 * i.issue_count)

Issues(instructions) == SumOver(instructions, LAMBDA i : i.issue_count)
UsesGlobalMemory(i) == i.sums["global_mem_transactions"] > 0

function_avg_branch_efficiency(fn) ==
  LET count == Issues(fn.instructions)
  IN  IF count > 0 THEN Fraction(fn.sums["branch_efficiency"], 100 * count) ELSE Fraction(1, 1)

function_avg_global_coalescing(fn) ==
  LET global_issues == Issues(SelectSeq(fn.instructions, UsesGlobalMemory))
  IN  IF global_issues > 0 THEN Fraction(fn.sums["global_coalescing"], 100 * global_issues)
      ELSE Fraction(0, 1)

has_source(fn) == \E n \in DOMAIN fn.instructions : fn.instructions[n].source_line # NoLine
has_bank_conflicts(fn) == fn.sums["bank_conflicts"] > 0
has_coalescing(fn) == fn.sums["global_mem_transactions"] > 0

\* [:n] of a list
First(s, n) == SubSeq(s, 1, Min({n, Len(s)}))

hotspots_by_exec(fn, n) ==
  First(Sorted(SelectSeq(fn.instructions, LAMBDA i : ~i.is_directive),
               LAMBDA i, j : i.exec_count > j.exec_count), n)

hotspots_by_divergence(fn, n) ==
  First(Sorted(SelectSeq(fn.instructions, LAMBDA i :
                 i.issue_count > 0 /\ Less(avg_branch_efficiency(i), Fraction(1, 1))),
               LAMBDA i, j : Less(avg_branch_efficiency(i), avg_branch_efficiency(j))), n)

hotspots_by_conflicts(fn, n) ==
  First(Sorted(SelectSeq(fn.instructions, LAMBDA i : i.sums["bank_conflicts"] > 0),
               LAMBDA i, j : i.sums["bank_conflicts"] > j.sums["bank_conflicts"]), n)

hotspots_by_coalescing(fn, n) ==
  First(Sorted(SelectSeq(fn.instructions, UsesGlobalMemory),
               LAMBDA i, j : Less(avg_global_coalescing(i), avg_global_coalescing(j))), n)

-----------------------------------------------------------------------------
\* aggregate, step by step.

NewStats(pc, fn, basic_block, name) ==
  [pc |-> pc, function_name |-> fn, basic_block |-> basic_block, instr_name |-> name,
   is_directive |-> name \in _DIRECTIVE_NAMES, exec_count |-> 0, issue_count |-> 0,
   sums |-> NoSums, ptx_line |-> NoRawLine, source_file |-> None, source_line |-> NoLine]

\* Mutant: an issue counts once whatever lanes were active.
Counted_Issues(stats, rec) ==
  IF rec.instr_name \in _DIRECTIVE_NAMES THEN stats
  ELSE [stats EXCEPT !.exec_count = @ + 1, !.issue_count = @ + 1,
                     !.sums = [m \in KnownMetrics |-> @[m] + Get(rec.metrics, m, 0)]]

\* What a record adds to its row; a metric it lacks adds nothing.
Counted(stats, rec) ==
  IF rec.instr_name \in _DIRECTIVE_NAMES THEN stats
  ELSE [stats EXCEPT !.exec_count = @ + rec.active_threads, !.issue_count = @ + 1,
                     !.sums = [m \in KnownMetrics |-> @[m] + Get(rec.metrics, m, 0)]]

\* Mutant: the launches of a function share their rows.
Key_AllLaunches(rec) == <<0, rec.function_name>>

\* The section of the report that a record belongs to.
Key(rec) == <<rec.launch_id, rec.function_name>>

\* One record in the loop of aggregate: rows is launch_func_pcs, keys its keys
\* in the order of their first records.
CountRecord(t, rec) ==
  LET pcs == Get(t.rows, Key(rec), Empty)
      row == Get(pcs, rec.pc, NewStats(rec.pc, rec.function_name, rec.basic_block, rec.instr_name))
  IN  [keys |-> IF Key(rec) \in DOMAIN t.rows THEN t.keys ELSE Append(t.keys, Key(rec)),
       rows |-> Put(t.rows, Key(rec), Put(pcs, rec.pc, Counted(row, rec)))]
Count(records) ==
  LET upto[n \in 0..Len(records)] ==
        IF n = 0 THEN [keys |-> <<>>, rows |-> Empty] ELSE CountRecord(upto[n - 1], records[n])
  IN  upto[Len(records)]

\* The PTX's line and source of a row.
Annotate(stats, i) ==
  [stats EXCEPT !.ptx_line = i.raw_line, !.source_file = i.source_file,
                !.source_line = i.source_line]

\* Mutant: every instruction of the function that was not executed has a row.
AnnotateAll_Everything(fn, pcs, ptx) ==
  LET Instr(pc) == ptx.instructions[ptx.by_func_pc[<<fn, pc>>]]
      missing == {k[2] : k \in {k \in DOMAIN ptx.by_func_pc : k[1] = fn}} \ DOMAIN pcs
  IN  [pc \in DOMAIN pcs \cup missing |->
         LET row == IF pc \in DOMAIN pcs THEN pcs[pc]
                    ELSE NewStats(pc, fn, Instr(pc).basic_block, Instr(pc).instr_name)
         IN  IF <<fn, pc>> \in DOMAIN ptx.by_func_pc THEN Annotate(row, Instr(pc)) ELSE row]

\* The rows of a function: annotated, with a row for each of its directives.
AnnotateAll(fn, pcs, ptx) ==
  LET Instr(pc) == ptx.instructions[ptx.by_func_pc[<<fn, pc>>]]
      directives == {k[2] : k \in {k \in DOMAIN ptx.by_func_pc :
                       k[1] = fn /\ Instr(k[2]).instr_name \in _DIRECTIVE_NAMES}} \ DOMAIN pcs
  IN  [pc \in DOMAIN pcs \cup directives |->
         LET row == IF pc \in DOMAIN pcs THEN pcs[pc]
                    ELSE NewStats(pc, fn, Instr(pc).basic_block, Instr(pc).instr_name)
         IN  IF <<fn, pc>> \in DOMAIN ptx.by_func_pc THEN Annotate(row, Instr(pc)) ELSE row]

\* source_lines: the rows of each line of each file; its counts exec_count and
\* pc_count are the same number.
SourceLines(instructions, ptx) ==
  LET Located == {i \in Range(instructions) : i.source_file # None /\ i.source_line # NoLine}
      At(i) == <<i.source_file, i.source_line>>
      SumAt(at, Value(_)) ==
        SumOver(instructions, LAMBDA i : IF i \in Located /\ At(i) = at THEN Value(i) ELSE 0)
  IN  [at \in {At(i) : i \in Located} |->
         [issue_count |-> SumAt(at, LAMBDA i : i.issue_count),
          sums |-> [m \in KnownMetrics |-> SumAt(at, LAMBDA i : i.sums[m])],
          text |-> get_source_line(ptx, at[1], at[2])]]

\* registers: prefix -> [type, declared, write_ops]; their order is left out.
Registers(fn, instructions, ptx) ==
  LET declared == Get(ptx.func_reg_declarations, fn, Empty)
      Writes(i, prefix) ==
        /\ ~i.is_directive
        /\ <<fn, i.pc>> \in DOMAIN ptx.by_func_pc
        /\ ptx.instructions[ptx.by_func_pc[<<fn, i.pc>>]].dst_reg_prefix = prefix
  IN  [p \in DOMAIN declared |->
         [type |-> declared[p].type, declared |-> declared[p].count,
          write_ops |-> SumOver(SelectSeq(instructions, LAMBDA i : Writes(i, p)),
                                LAMBDA i : i.exec_count)]]

\* The FunctionReport of a key.
FunctionReport(key, pcs, ptx) ==
  LET rows == AnnotateAll(key[2], pcs, ptx)
      pc == Ascending(DOMAIN rows)
      instructions == [n \in DOMAIN pc |-> rows[pc[n]]]
  IN  [name |-> key[2], launch_id |-> key[1], instructions |-> instructions,
       source_lines |-> SourceLines(instructions, ptx),
       total_exec_count |-> Issues(instructions),
       sums |-> [m \in KnownMetrics |-> SumOver(instructions, LAMBDA i : i.sums[m])],
       registers |-> Registers(key[2], instructions, ptx)]

\* The order of the sections: by launch, and the one that executed most first.
ByLaunch(f, g) ==
  \/ f.launch_id < g.launch_id
  \/ f.launch_id = g.launch_id /\ f.total_exec_count > g.total_exec_count

\* aggregate; without PTX its module is merge_ptx(<<>>).
aggregate(records, ptx) ==
  LET counted == Count(records)
      reports == [n \in DOMAIN counted.keys |->
                    FunctionReport(counted.keys[n], counted.rows[counted.keys[n]], ptx)]
  IN  [functions |-> Sorted(reports, ByLaunch), source_files |-> ptx.source_files]
=============================================================================
