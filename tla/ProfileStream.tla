---------------------------- MODULE ProfileStream ----------------------------
(***************************************************************************)
(* The profile from the emulator to the report.  A program runs under the  *)
(* emulator: its PTX is loaded, its host threads launch kernels, and       *)
(* Profiler (app/context/profiler.cpp) writes a header for a launch and    *)
(* later, block by block, the buffer of each warp, all into one file under *)
(* one mutex.  The program ends, or is killed while it writes.             *)
(* parse_profiling (tools/ptx_report/parser.py) reads the file back.       *)
(* A line is a record of its kind and its fields; timestamps and the ids   *)
(* of blocks and warps are left out.                                       *)
(***************************************************************************)
EXTENDS PtxText

CONSTANTS
  Hosts,       \* threads of a program
  Binaries,    \* the programs
  Printed,     \* binary -> what cuobjdump -ptx prints of it
  Paths,       \* binary -> function that it launches -> what a warp may
               \* execute of it: sequences of [at, lanes, values], the place
               \* of an instruction in the function, its active lanes, and
               \* what each metric would be
  MaxLaunches, \* bound: binary -> launches in a run of it
  ExitCodes,   \* what a program may return from main
  MaxRecords   \* bound: no flush once a run has flushed so many records

ASSUME ProfileAssumption ==
  /\ None \notin Binaries
  /\ DOMAIN Printed = Binaries /\ DOMAIN Paths = Binaries
  /\ \A b \in Binaries : \A f \in DOMAIN Paths[b] :
       Paths[b][f] \subseteq Seq([at : Nat, lanes : Nat, values : [KnownMetrics -> Nat]])
  /\ \A b \in Binaries : IsText(Printed[b]) /\ DOMAIN Paths[b] \subseteq DOMAIN Make(Printed[b]).functions
  /\ MaxLaunches \in [Binaries -> Nat] /\ MaxRecords \in Nat

VARIABLES
  program,         \* the binary that runs, or None
  status,          \* wait status of the one that ran last
  output,          \* lines of the profile
  launch_counter,
  running,         \* launches in progress: host -> its launch, or Idle
  flushed,         \* the records that reached the file (history)
  overlapped       \* launches during which another one ran (history)

emulator == <<program, status, output, launch_counter, running, flushed, overlapped>>

Idle == [nth |-> -1, function |-> None]
Busy == {h \in Hosts : running[h] # Idle}
Modules == [b \in Binaries |-> Make(Printed[b])]

-----------------------------------------------------------------------------
\* The emulator's side.

\* What the executor of an instruction records: its pc, the block that the
\* launch's function has there, its name and its metrics in order.
Recorded(m, f, step) ==
  LET pc == m.functions[f].pc + step.at
      name == InstrName(GetInstruction(m, pc).line)
      metrics == ProfilingMetrics(name)
  IN  [pc |-> pc, basic_block |-> GetBasicBlockAt(m.functions[f], pc), instr_name |-> name,
       lanes |-> step.lanes, at |-> GetInstruction(m, pc).at,
       metrics |-> [i \in DOMAIN metrics |-> <<metrics[i], step.values[metrics[i]]>>]]

\* The buffer of a warp at the end of its block: directives record nothing.
Buffer(m, f, path) ==
  LET all == [i \in DOMAIN path |-> Recorded(m, f, path[i])]
  IN  Kept(all, {i \in DOMAIN all : all[i].instr_name \in Instructions})

\* A record after one of block cur_bb, with a header if its own is another.
RecordLines(cur_bb, r) ==
  (IF r.basic_block = cur_bb THEN <<>> ELSE <<[kind |-> "Basic Block", name |-> r.basic_block]>>)
    \o <<[kind |-> "Record", rec |-> r]>>

\* Mutant: the block is taken to be the first one until another is printed.
Lines_FromEntry(f, buf) ==
  IF buf = <<>> THEN <<>>
  ELSE <<[kind |-> "Function", name |-> f]>>
         \o FlattenSeq([n \in DOMAIN buf |->
              RecordLines(IF n = 1 THEN "entry" ELSE buf[n - 1].basic_block, buf[n])])

\* What Flush prints: nothing for an empty buffer, else a header where a name
\* differs from the last one printed by this call.  All records of a warp have
\* the function of the launch, so its header comes once, before the first.
Lines(f, buf) ==
  IF buf = <<>> THEN <<>>
  ELSE <<[kind |-> "Function", name |-> f]>>
         \o FlattenSeq([n \in DOMAIN buf |->
              RecordLines(IF n = 1 THEN None ELSE buf[n - 1].basic_block, buf[n])])

EmulatorInit ==
  /\ program = None
  /\ status = 0
  /\ output = <<>>
  /\ launch_counter = 0
  /\ running = [h \in Hosts |-> Idle]
  /\ flushed = <<>>
  /\ overlapped = {}

\* What system() returns for a killed program: its status, or the exit code
\* that a shell in between makes of it.
Killed(signal) == {signal, 256 * (128 + signal)}

\* A binary is started with an empty profile.  If its PTX cannot be loaded the
\* emulator throws where the program registers it, and that is its end.
Start(b) ==
  /\ program = None
  /\ output' = <<>>
  /\ launch_counter' = 0
  /\ flushed' = <<>>
  /\ overlapped' = {}
  /\ IF Loads(Printed[b]) THEN program' = b /\ status' = 0
     ELSE program' = None /\ status' \in Killed(6)           \* SIGABRT
  /\ UNCHANGED running

\* How many launches there have been (history): the header's id is compared
\* with this number.
Launched == Cardinality({i \in DOMAIN output : output[i].kind = "Launch"})
Overlap == IF Busy = {} THEN overlapped
           ELSE overlapped \cup {Launched} \cup {running[g].nth : g \in Busy}

\* Mutant: the counter is read but not advanced.
BeginLaunch_SameId(h, f) ==
  /\ program # None
  /\ running[h] = Idle
  /\ Launched < MaxLaunches[program]
  /\ output' = Append(output, [kind |-> "Launch", id |-> launch_counter, name |-> f])
  /\ running' = [running EXCEPT ![h] = [nth |-> Launched, function |-> f]]
  /\ overlapped' = Overlap
  /\ UNCHANGED <<program, status, launch_counter, flushed>>

\* KernelLaunch begins: BeginLaunch numbers the launch and prints its header.
BeginLaunch(h, f) ==
  /\ program # None
  /\ running[h] = Idle
  /\ Launched < MaxLaunches[program]
  /\ output' = Append(output, [kind |-> "Launch", id |-> launch_counter, name |-> f])
  /\ launch_counter' = launch_counter + 1
  /\ running' = [running EXCEPT ![h] = [nth |-> Launched, function |-> f]]
  /\ overlapped' = Overlap
  /\ UNCHANGED <<program, status, flushed>>

\* The flushed records with their launch and function.
Of(launch, records) ==
  [i \in DOMAIN records |->
     [launch |-> launch.nth, function |-> launch.function, rec |-> records[i]]]

\* A block has ended: the buffer of one of its warps is flushed.
Flush(h, path) ==
  /\ running[h] # Idle
  /\ Len(flushed) < MaxRecords
  /\ LET buf == Buffer(Modules[program], running[h].function, path)
     IN  /\ output' = output \o Lines(running[h].function, buf)
         /\ flushed' = flushed \o Of(running[h], buf)
  /\ UNCHANGED <<program, status, launch_counter, running, overlapped>>

\* What may be left of a record that was being written: it is no record
\* until its name has begun, and its metrics may be missing from some point.
\* A cut inside a metric's number, which would read as another, is left out.
Cut(r) == {[r EXCEPT !.metrics = SubSeq(@, 1, n)] : n \in 0..Len(r.metrics) - 1}
            \cup {[r EXCEPT !.metrics = <<>>, !.instr_name = "cut"]}

\* The program is killed in the middle of a flush: the file ends in it.
Torn(h, path, signal) ==
  /\ running[h] # Idle
  /\ Len(flushed) < MaxRecords
  /\ LET f == running[h].function
         buf == Buffer(Modules[program], f, path)
     IN  \E n \in DOMAIN buf : \E r \in Cut(buf[n]) :
           LET left == Append(SubSeq(buf, 1, n - 1), r)
           IN  /\ output' = output \o Lines(f, left)
               /\ flushed' = flushed \o Of(running[h], left)
  /\ program' = None
  /\ status' \in Killed(signal)
  /\ running' = [g \in Hosts |-> Idle]
  /\ UNCHANGED <<launch_counter, overlapped>>

\* The last block has been flushed, or a warp threw: its block is not flushed
\* and there are no more.
EndLaunch(h) ==
  /\ running[h] # Idle
  /\ running' = [running EXCEPT ![h] = Idle]
  /\ UNCHANGED <<program, status, output, launch_counter, flushed, overlapped>>

\* The program returns from main.
Exit(code) ==
  /\ program # None
  /\ Busy = {}
  /\ program' = None
  /\ status' = 256 * code
  /\ UNCHANGED <<output, launch_counter, running, flushed, overlapped>>

\* The emulator returns what system() gave it: a byte of it is its exit code.
returncode == status % 256

EmulatorNext ==
  \/ \E h \in Hosts :
       \/ program # None /\ \E f \in DOMAIN Paths[program] : BeginLaunch(h, f)
       \/ running[h] # Idle /\ \E path \in Paths[program][running[h].function] :
            Flush(h, path) \/ Torn(h, path, 9)
       \/ EndLaunch(h)
  \/ \E code \in ExitCodes : Exit(code)

-----------------------------------------------------------------------------
\* The report's side.

\* Mutant: the launch a record belongs to is taken from the first header only.
ReadLine_FirstLaunch(st, l) ==
  CASE l.kind = "Launch" ->
         [st EXCEPT !.launch = IF st.records = <<>> THEN l.id ELSE @,
                    !.function = None, !.bb = None]
    [] l.kind = "Function" -> [st EXCEPT !.function = l.name, !.bb = None]
    [] l.kind = "Basic Block" -> [st EXCEPT !.bb = l.name]
    [] l.kind = "Record" ->
         [st EXCEPT !.records = Append(@,
            [launch_id |-> st.launch, function_name |-> st.function, basic_block |-> st.bb,
             instr_name |-> l.rec.instr_name, pc |-> l.rec.pc, active_threads |-> l.rec.lanes,
             metrics |-> Dict(l.rec.metrics)])]

\* One line in the loop of parse_profiling.
ReadLine(st, l) ==
  CASE l.kind = "Launch" ->
         [st EXCEPT !.launch = l.id, !.function = None, !.bb = None]
    [] l.kind = "Function" -> [st EXCEPT !.function = l.name, !.bb = None]
    [] l.kind = "Basic Block" -> [st EXCEPT !.bb = l.name]
    [] l.kind = "Record" ->
         [st EXCEPT !.records = Append(@,
            [launch_id |-> st.launch, function_name |-> st.function, basic_block |-> st.bb,
             instr_name |-> l.rec.instr_name, pc |-> l.rec.pc, active_threads |-> l.rec.lanes,
             metrics |-> Dict(l.rec.metrics)])]

\* The loop, from state st on.
ReadAll(st, lines) ==
  LET state[n \in 0..Len(lines)] == IF n = 0 THEN st ELSE ReadLine(state[n - 1], lines[n])
  IN  state[Len(lines)]

parse_profiling(lines) ==
  ReadAll([launch |-> 0, function |-> None, bb |-> None, records |-> <<>>], lines).records
=============================================================================
