------------------------------ MODULE ReportTool ------------------------------
(***************************************************************************)
(* The report tool (tools/ptx_report/__main__.py): from a profile that the *)
(* user made, or one it makes by running the emulator on each binary in    *)
(* turn, and from the PTX of the binaries, to the page and the browser.    *)
(* Whatever the tool asks of its environment may fail.                     *)
(***************************************************************************)
EXTENDS ProfileStream, Renderer, ReportPage

CONSTANTS
  Args,        \* command lines: [profiling, binaries, ptx_files, sources];
               \* profiling is None, or the binary that the user runs for it
  PtxFiles,    \* --ptx: name -> text
  Disk,        \* path -> lines of the source files that can be read
  BaseName     \* path -> name of the file

ASSUME ReportAssumption ==
  /\ Args \subseteq [profiling : Binaries \cup {None}, binaries : Seq(Binaries),
                    ptx_files : Seq(DOMAIN PtxFiles), sources : SUBSET DOMAIN BaseName]
  /\ \A f \in DOMAIN PtxFiles : IsText(PtxFiles[f])
  /\ \A p \in DOMAIN Disk : IsList(Disk[p])
  /\ IsFiniteSet(DOMAIN BaseName)

VARIABLES
  args,
  phase,       \* what main does next
  next,        \* the binary or file it has come to
  parts,       \* profiling_parts
  texts,       \* ptx_texts: [of, text]
  temp,        \* the temporary profiles that exist
  exit,        \* exit code; -1 while it runs
  report,      \* what has been aggregated, or NoReport
  html_out,    \* the page that is written
  ran          \* the runs whose profiles are in parts (history)

main_state == <<args, phase, next, parts, texts, temp, exit, report, html_out, ran>>
vars == <<emulator, main_state, ui>>

NoReport == aggregate(<<>>, merge_ptx(<<>>))
NoArgs == [profiling |-> None, binaries |-> <<>>, ptx_files |-> <<>>, sources |-> {}]

Init ==
  /\ EmulatorInit
  /\ PageInit
  /\ args \in Args
  /\ phase = IF args.profiling # None THEN "user" ELSE "args"
  /\ next = 1
  /\ parts = <<>> /\ texts = <<>> /\ temp = {} /\ exit = -1 /\ ran = <<>>
  /\ report = NoReport /\ html_out = render_html(NoReport)

-----------------------------------------------------------------------------
Goto(p) == phase' = p /\ next' = 1 /\ exit' = exit
Return(code) == phase' = "exit" /\ exit' = code /\ next' = next

\* The profile of the run that has ended is one more part.
AddPart(b) ==
  /\ parts' = Append(parts, output)
  /\ ran' = Append(ran, [binary |-> b, failed |-> status # 0, flushed |-> flushed,
                         overlapped |-> overlapped])

\* The user runs a program for its profile, and does not mind how it ends.
RunByUser ==
  /\ phase = "user"
  /\ Start(args.profiling)
  /\ Goto("args")
  /\ UNCHANGED <<args, parts, texts, temp, report, html_out, ran, ui>>

\* The arguments are checked, and a given profile is read.
ReadProfile ==
  /\ phase = "args" /\ program = None
  /\ \/ /\ args.profiling = None
        /\ IF args.binaries = <<>> THEN Return(1) ELSE Goto("find")
        /\ UNCHANGED <<parts, ran>>
     \/ /\ args.profiling # None
        /\ AddPart(args.profiling)
        /\ Goto("extract")
     \/ /\ args.profiling # None                    \* OSError
        /\ Return(1)
        /\ UNCHANGED <<parts, ran>>
  /\ UNCHANGED <<emulator, args, texts, temp, report, html_out, ui>>

FindCuemu ==
  /\ phase = "find"
  /\ Goto("binary") \/ Return(1)
  /\ UNCHANGED <<emulator, args, parts, texts, temp, report, html_out, ran, ui>>

\* The next binary is run with a temporary file for its profile.
RunEmulator ==
  /\ phase = "binary"
  /\ next <= Len(args.binaries)
  /\ \/ Return(1) /\ UNCHANGED <<temp, emulator>>    \* there is no such file
     \/ /\ temp' = temp \cup {next}
        /\ Start(args.binaries[next])
        /\ phase' = "emulator" /\ UNCHANGED <<next, exit>>
  /\ UNCHANGED <<args, parts, texts, report, html_out, ran, ui>>

\* Mutant: the file is removed only when its profile has been read.
EmulatorReturned_Leak ==
  /\ phase = "emulator" /\ program = None
  /\ \/ /\ returncode = 0
        /\ AddPart(args.binaries[next])
        /\ temp' = temp \ {next}
        /\ phase' = "binary" /\ next' = next + 1 /\ exit' = exit
     \/ Return(1) /\ UNCHANGED <<parts, ran, temp>>
  /\ UNCHANGED <<emulator, args, texts, report, html_out, ui>>

\* Its profile is read if the emulator returned 0; an error, or an exception
\* of the reading, ends the tool.  The temporary file is removed in any case.
EmulatorReturned ==
  /\ phase = "emulator" /\ program = None
  /\ temp' = temp \ {next}
  /\ \/ /\ returncode = 0
        /\ AddPart(args.binaries[next])
        /\ phase' = "binary" /\ next' = next + 1 /\ exit' = exit
     \/ Return(1) /\ UNCHANGED <<parts, ran>>
  /\ UNCHANGED <<emulator, args, texts, report, html_out, ui>>

AllBinariesRun ==
  /\ phase = "binary"
  /\ next > Len(args.binaries)
  /\ Goto("extract")
  /\ UNCHANGED <<emulator, args, parts, texts, temp, report, html_out, ran, ui>>

\* The PTX of the next binary, or without binaries the next --ptx file.  None
\* is added if the binary is gone, cuobjdump or the reading fails, or the
\* binary has no PTX.
Inputs == IF args.binaries # <<>> THEN args.binaries ELSE args.ptx_files
Text(b) == IF args.binaries # <<>> THEN ExtractPtx(Printed[b]) ELSE PtxFiles[b]
ExtractNext ==
  /\ phase = "extract"
  /\ next <= Len(Inputs)
  /\ \/ /\ Text(Inputs[next]) # <<>>
        /\ texts' = Append(texts, [of |-> Inputs[next], text |-> Text(Inputs[next])])
     \/ texts' = texts
  /\ next' = next + 1
  /\ UNCHANGED <<emulator, args, phase, parts, temp, exit, report, html_out, ran, ui>>

records == parse_profiling(FlattenSeq(parts))

\* The module of the report, with the sources in any order of the sets.
Loaded ==
  LET merged == merge_ptx([n \in DOMAIN texts |-> parse_ptx(texts[n].text)])
      S == args.sources
      names == {BaseName[p] : p \in S}
  IN  {load_sources(merged, order, pick, Disk, BaseName) :
         order \in {o \in [1..Cardinality(S) -> S] : Range(o) = S},
         pick \in {f \in [names -> S] : \A n \in names : BaseName[f[n]] = n}}

\* The records are aggregated with the PTX, and the page is written.
WriteReport ==
  /\ phase = "extract"
  /\ next > Len(Inputs)
  /\ \/ /\ records # <<>>
        /\ \E ptx \in IF texts = <<>> THEN {merge_ptx(<<>>)} ELSE Loaded : report' = aggregate(records, ptx)
        /\ html_out' = render_html(report')
        /\ phase' = "written" /\ exit' = 0 /\ next' = next
     \/ Return(1) /\ UNCHANGED <<report, html_out>>             \* no functions, or OSError
  /\ UNCHANGED <<emulator, args, parts, texts, temp, ran, ui>>

\* The user opens the report; what made it is forgotten.
Sids(rows) == [n \in DOMAIN rows |-> rows[n].sid]
Open ==
  /\ phase = "written"
  /\ LET sections == html_out.sections
     IN  /\ Len(sections) <= MaxSections
         /\ load([s \in DOMAIN sections |->
                    [kid |-> sections[s].kid, tabs |-> sections[s].tabs,
                     src |-> Sids(sections[s].split.src), asm |-> Sids(sections[s].split.asm)]])
  /\ phase' = "page"
  /\ args' = NoArgs /\ next' = 1 /\ parts' = <<>> /\ texts' = <<>> /\ exit' = 0
  /\ report' = NoReport /\ html_out' = render_html(NoReport) /\ ran' = <<>>
  /\ status' = 0 /\ output' = <<>> /\ launch_counter' = 0 /\ flushed' = <<>> /\ overlapped' = {}
  /\ UNCHANGED <<program, running, temp>>

Emulate == EmulatorNext /\ UNCHANGED <<main_state, ui>>
Browse == PageNext /\ UNCHANGED <<emulator, main_state>>

Next ==
  \/ RunByUser \/ ReadProfile \/ FindCuemu \/ RunEmulator \/ EmulatorReturned
  \/ AllBinariesRun \/ ExtractNext \/ WriteReport \/ Open \/ Emulate \/ Browse

Spec == Init /\ [][Next]_vars /\ Timers

-----------------------------------------------------------------------------
\* The records of the runs in the report, with the run they are of.
Flushed ==
  FlattenSeq([r \in DOMAIN ran |->
    [i \in DOMAIN ran[r].flushed |-> [run |-> r, launch |-> ran[r].flushed[i].launch,
       function |-> ran[r].flushed[i].function, rec |-> ran[r].flushed[i].rec]]])

\* Launches, by number, that overlapped another one in no run.
Alone(l) == \A r \in DOMAIN ran : l \notin ran[r].overlapped
Written == phase = "written"
RowsOfSid(rows, sid) == {k \in DOMAIN rows : rows[k].sid = sid}
Headings(cells) == [n \in DOMAIN cells |-> cells[n][1]]

(***************************************************************************)
(* The report reads back exactly the records that reached the files, in    *)
(* order and with their function and basic block, however launches and     *)
(* runs follow or overlap each other, and where a killed program tore the  *)
(* last record of a file.                                                  *)
(***************************************************************************)
RecordsReadBack ==
  Written =>
    LET Read(r) == <<r.function_name, r.basic_block, r.instr_name, r.pc, r.active_threads>>
        Sent(x) == <<x.function, x.rec.basic_block, x.rec.instr_name, x.rec.pc, x.rec.lanes>>
    IN  /\ [i \in DOMAIN records |-> Read(records[i])]
             = [i \in DOMAIN Flushed |-> Sent(Flushed[i])]
        /\ \A i \in DOMAIN records :
             LET sent == Flushed[i].rec.metrics
             IN  /\ DOMAIN records[i].metrics = {sent[k][1] : k \in DOMAIN sent}
                 /\ \A k \in DOMAIN sent : records[i].metrics[sent[k][1]] = sent[k][2]

(***************************************************************************)
(* A record of a launch that no other launch of its run overlapped is      *)
(* attributed to the number of that launch; one of an overlapped launch    *)
(* never to a launch of the run that ran alone.                            *)
(***************************************************************************)
Attribution ==
  Written =>
    \A i \in DOMAIN records :
      \/ records[i].launch_id = Flushed[i].launch
      \/ {records[i].launch_id, Flushed[i].launch} \subseteq ran[Flushed[i].run].overlapped

(***************************************************************************)
(* The counts of the report: for a launch number that overlapped in no     *)
(* run, each row is what the warps of the runs recorded, issue by issue    *)
(* and lane by lane, and so are the sums of the metrics that reached the   *)
(* file; over all launches no issue is lost or counted twice.              *)
(***************************************************************************)
RowsRight ==
  Written =>
    LET MetricIn(x, m) == SumOver(x.rec.metrics, LAMBDA kv : IF kv[1] = m THEN kv[2] ELSE 0)
        fns == report.functions
    IN  /\ \A n \in DOMAIN fns : Alone(fns[n].launch_id) =>
             \A k \in DOMAIN fns[n].instructions :
               LET i == fns[n].instructions[k]
                   Mine(x) == /\ x.launch = fns[n].launch_id /\ x.function = fns[n].name
                              /\ x.rec.pc = i.pc
                   SumOfMine(Value(_)) == SumOver(Flushed, LAMBDA x : IF Mine(x) THEN Value(x) ELSE 0)
               IN  /\ i.issue_count = SumOfMine(LAMBDA x : 1)
                   /\ i.exec_count = SumOfMine(LAMBDA x : x.rec.lanes)
                   /\ \A m \in KnownMetrics : i.sums[m] = SumOfMine(LAMBDA x : MetricIn(x, m))
        /\ \A j \in DOMAIN Flushed :
             LET f == Flushed[j].function
                 pc == Flushed[j].rec.pc
                 IssuesAt(fn) == SumOver(fn.instructions, LAMBDA i : IF i.pc = pc THEN i.issue_count ELSE 0)
             IN  SumOver(Flushed, LAMBDA x : IF x.function = f /\ x.rec.pc = pc THEN 1 ELSE 0)
                   = SumOver(fns, LAMBDA fn : IF fn.name = f THEN IssuesAt(fn) ELSE 0)

-----------------------------------------------------------------------------
\* What the printed text says of line k of item n: the .loc before it, the
\* file that its section gives the id, and how many registers the line writes.
BodyOf(b, at) == Printed[b][at[1]].body
LineOf(b, at) ==
  LET locs == {k \in 1..at[2] : BodyOf(b, at)[k].kind = "loc"}
  IN  IF locs = {} THEN [file |-> 0, line |-> NoLine] ELSE BodyOf(b, at)[Max(locs)]
SectionOf(b, n) == Max({k \in 1..n : Printed[b][k].kind = "ptx"})
FileOf(b, at) ==
  LET id == LineOf(b, at).file
      named == {k \in DOMAIN Printed[b] : /\ Printed[b][k].kind = "file"
                                          /\ Printed[b][k].id = id
                                          /\ SectionOf(b, k) = SectionOf(b, at[1])}
  IN  IF named = {} THEN None ELSE Printed[b][CHOOSE k \in named : TRUE].path
HasDst(line) ==
  line.kind = "instr" /\ \E p \in Range(ISA[line.name].params) : p.name = <<"dst">>
WriteCount(line, prefix) ==
  LET dst == Bound(ISA[line.name], <<"dst">>, line.words)
  IN  IF HasDst(line)
      THEN Cardinality({f \in {"prefix", "second"} \cap DOMAIN dst : dst[f] = prefix})
      ELSE 0

\* The instructions that the emulator has for function f of binary b.
EmulatorHas(b, f) ==
  {n \in DOMAIN Modules[b].instructions :
     Printed[b][Modules[b].instructions[n].at[1]].name = f}

(***************************************************************************)
(* The report shows, for a row of a function whose PTX it has, the line    *)
(* that the emulator executed at this pc, with the file and line that the  *)
(* .loc before it names, in the copy that was read or provided; it has a   *)
(* row for each directive of the function and for nothing else that was    *)
(* not executed; and the write operations of a prefix are, issue by issue, *)
(* lanes times the destinations of the instruction that have it ("Write    *)
(* Ops = total register writes across all threads", renderer.py:995).  The *)
(* emulator's and the report's parsers number instructions independently.  *)
(***************************************************************************)
Annotated ==
  Written =>
    \A n \in DOMAIN report.functions : \A t \in DOMAIN texts :
      LET fn == report.functions[n]
          b == texts[t].of
          At(pc) == GetInstruction(Modules[b], pc)
          pcs == {fn.instructions[k].pc : k \in DOMAIN fn.instructions}
          executed == {Flushed[i].rec.pc : i \in {j \in DOMAIN Flushed : Flushed[j].function = fn.name}}
          declared == {k \in DOMAIN Modules[b].instructions :
                         InstrName(Modules[b].instructions[k].line) \in _DIRECTIVE_NAMES}
      IN  fn.name \in DOMAIN Modules[b].functions =>
            /\ \A k \in DOMAIN fn.instructions :
                 LET i == fn.instructions[k]
                 IN  /\ i.pc + 1 \in EmulatorHas(b, fn.name)
                     /\ i.ptx_line = At(i.pc).line
                     /\ i.source_line = LineOf(b, At(i.pc).at).line
                     /\ \/ i.source_file = FileOf(b, At(i.pc).at)
                        \/ i.source_file \in args.sources
                             /\ BaseName[i.source_file] = BaseName[FileOf(b, At(i.pc).at)]
            /\ {k - 1 : k \in EmulatorHas(b, fn.name) \cap declared} \subseteq pcs
            /\ pcs \subseteq executed \cup {k - 1 : k \in declared}
            /\ Alone(fn.launch_id) => \A p \in DOMAIN fn.registers :
                 fn.registers[p].write_ops =
                   SumOver(Flushed, LAMBDA x :
                     IF x.launch = fn.launch_id /\ x.function = fn.name
                     THEN x.rec.lanes * WriteCount(At(x.rec.pc).line, p) ELSE 0)

(***************************************************************************)
(* The page agrees with the records: each row of the summary opens one     *)
(* section; header, summary, tables and grids add up to the records read;  *)
(* a row of the assembly grid has one row of the source grid with its sid  *)
(* (line 0 has none), which counts it, and the separator above it names    *)
(* its line; a row of the assembly table has a cell under each heading.    *)
(***************************************************************************)
PageRight ==
  Written =>
    LET html == html_out
        ids == [s \in DOMAIN html.sections |-> html.sections[s].kid]
        counted == Cardinality({i \in DOMAIN records : records[i].instr_name \notin _DIRECTIVE_NAMES})
    IN  /\ IsInjective(ids)
        /\ [s \in DOMAIN html.summary |-> html.summary[s].onclick] = ids
        /\ html.n_records = counted /\ SumOver(html.summary, LAMBDA row : row.total) = counted
        /\ \A s \in DOMAIN html.sections :
             LET section == html.sections[s]
                 src == section.split.src
                 asm == section.split.asm
                 Linked(r) == r.sid # NoSid /\ r.sid[2] # 0
                 unlinked == SumOver(asm, LAMBDA r : IF r.is_sep \/ Linked(r) THEN 0 ELSE r.exec)
             IN  /\ section.tabs[2] = "split" =>
                      SumOver(src, LAMBDA r : r.exec) + unlinked = html.summary[s].total
                 /\ \A n \in DOMAIN asm : Linked(asm[n]) =>
                      /\ \E k \in RowsOfSid(src, asm[n].sid) :
                           /\ RowsOfSid(src, asm[n].sid) = {k}
                           /\ src[k].n_ptx = Cardinality(RowsOfSid(asm, asm[n].sid))
                      /\ asm[Max({k \in 1..n : asm[k].is_sep})].sep_label = asm[n].sid
                 /\ \A n \in DOMAIN section.table.rows :
                      Headings(section.table.rows[n].cells) = section.table.cols

(***************************************************************************)
(* The tool leaves no temporary profile behind, whichever step fails; it   *)
(* ends with 0 only with a report of every binary it ran.                  *)
(***************************************************************************)
Outcome ==
  /\ temp # {} => phase = "emulator" /\ temp = {next}
  /\ Written => /\ exit = 0
                /\ [r \in DOMAIN ran |-> ran[r].binary]
                     = IF args.profiling # None THEN <<args.profiling>> ELSE args.binaries

-----------------------------------------------------------------------------
\* What the documentation says and the code does not do, part by part.

(***************************************************************************)
(* A cell of a hotspot table is under its heading (renderer.py:855-863).   *)
(***************************************************************************)
HeadingsFit ==
  \A s \in DOMAIN html_out.sections : \A t \in DOMAIN html_out.sections[s].hot :
    LET table == html_out.sections[s].hot[t]
    IN  \A n \in DOMAIN table.rows : Headings(table.rows[n]) = table.cols

(***************************************************************************)
(* A program that fails is an error (__main__.py:54-61), so a report is    *)
(* made only of programs that did not.                                     *)
(***************************************************************************)
FailuresReported ==
  Written /\ args.profiling = None => \A r \in DOMAIN ran : ~ran[r].failed

(***************************************************************************)
(* "Exec Count | Total active-thread executions across all warps and       *)
(* blocks" (README.md): the column of the assembly table.                  *)
(***************************************************************************)
ExecCountIsThreads ==
  \A s \in DOMAIN html_out.sections :
    \A n \in DOMAIN html_out.sections[s].table.rows :
      LET row == html_out.sections[s].table.rows[n].cells
          i == report.functions[s].instructions[n]
      IN  ~i.is_directive => row[4][2][1] = i.exec_count

(***************************************************************************)
(* "top instructions by execution count" (README.md): the first hotspot    *)
(* table is sorted by its Exec Count.                                      *)
(***************************************************************************)
HotspotsSorted ==
  \A s \in DOMAIN html_out.sections :
    LET rows == html_out.sections[s].hot[1].rows
        ExecCount(row) == row[Len(row) - 2][2][1]
    IN  html_out.sections[s].hot # <<>> =>
          \A n \in 2..Len(rows) : ExecCount(rows[n]) <= ExecCount(rows[n - 1])

(***************************************************************************)
(* "Repeat for multiple binaries" (__main__.py:152): a section is about a  *)
(* launch of one of them.                                                  *)
(***************************************************************************)
SectionsOfOneRun ==
  Written =>
    \A n \in DOMAIN report.functions :
      Cardinality({Flushed[i].run : i \in {j \in DOMAIN Flushed :
        records[j].launch_id = report.functions[n].launch_id
        /\ records[j].function_name = report.functions[n].name}}) = 1

(***************************************************************************)
(* The description of an instruction is what its pattern accepts           *)
(* (instructions.json): each word of shfl may be any its parameter allows. *)
(***************************************************************************)
PatternsAccept ==
  Written => \A mask \in {NoWord, [class |-> "reg"], [class |-> "imm"]} :
    LET reg == [class |-> "reg"]
        words == <<NoWord, [class |-> "bfly"], [class |-> "b32"], [class |-> "reg|reg"], reg, reg,
                   reg, NoWord, mask>>
    IN  Described(ISA.shfl, words) => Matches(make_regexp(ISA.shfl), words)

AsDocumented ==
  /\ HeadingsFit
  /\ FailuresReported
  /\ ExecCountIsThreads
  /\ HotspotsSorted
  /\ SectionsOfOneRun
  /\ Annotated
  /\ PatternsAccept
=============================================================================
