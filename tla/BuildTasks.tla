----------------------------- MODULE BuildTasks -----------------------------
(***************************************************************************)
(* src/build.py: the tasks that simulate and build a design in the         *)
(* container, write it to the FPGA, and write the firmware of the MCU.     *)
(* A task is a sequence of commands, each followed by the assertions that  *)
(* end the task when its output has, or lacks, certain words.  A failure   *)
(* that does not print the words looked for is not noticed, and the task   *)
(* goes on.  What a command makes stays in the container for the next      *)
(* task.  The commands are external, and so is lxdev, which runs them      *)
(* there and copies the directory to and from the container.               *)
(***************************************************************************)
EXTENDS Integers, Sequences

CONSTANT MaxEdits   \* bound: edits of the sources

ASSUME BuildTasksAssumption == MaxEdits \in Nat

VARIABLES
  host, box,   \* the directory on the host and in the container: version of
               \* the sources, and of the sources each output was made of
  fpga,        \* the design in the FPGA: a version, Missing or Passthru
  mcu,         \* firmware in its flash, versions of /pyboard and /pyboard/test_common
  task,        \* the task that runs, and the commands it has left
  says,        \* how the last task ended: "done", "aborted"
  unnoticed    \* history: a command of the last task failed and was let pass

buildVars == <<host, box, fpga, mcu, task, says, unnoticed>>

Missing == -1
Passthru == -2
Outputs == {"bitstream", "waves", "generated"}
Commands ==
  [upload   |-> <<"rsync_to", "venv", "build", "rsync_from", "write">>,
   passthru |-> <<"rsync_to", "write_passthru">>,
   simulate |-> <<"rsync_to", "venv", "simulate", "rsync_from">>,
   generate |-> <<"rsync_to", "venv", "generate", "rsync_from">>,
   reflash  |-> <<"have_binary", "port", "communicate", "rsync_to", "erase", "flash">>,
   update   |-> <<"port", "rsync_to", "copy_source", "copy_common", "repl">>,
   repl     |-> <<"port", "repl">>]
NoTask == [name |-> "none", left |-> <<>>]

BuildInit ==
  /\ host = [sources |-> 0, made |-> [o \in Outputs |-> Missing]]
  /\ box = host
  /\ fpga = Missing /\ mcu = [firmware |-> 0, source |-> Missing, common |-> Missing]
  /\ task = NoTask /\ says = "done" /\ unnoticed = FALSE

-----------------------------------------------------------------------------
\* The user edits, whatever runs, or switches the board off and on.
Edit ==
  /\ host.sources < MaxEdits
  /\ host' = [host EXCEPT !.sources = @ + 1]
  /\ UNCHANGED <<box, fpga, mcu, task, says, unnoticed>>

PowerCycle == fpga' = Missing /\ UNCHANGED <<host, box, mcu, task, says, unnoticed>>

do_task ==
  /\ task = NoTask
  /\ \E name \in DOMAIN Commands : task' = [name |-> name, left |-> Commands[name]]
  /\ unnoticed' = FALSE
  /\ UNCHANGED <<host, box, fpga, mcu, says>>

Runs(command) == task.left # <<>> /\ Head(task.left) = command
Continued ==
  IF Len(task.left) = 1
  THEN task' = NoTask /\ says' = "done"
  ELSE task' = [task EXCEPT !.left = Tail(@)] /\ UNCHANGED says
Passed == Continued /\ UNCHANGED unnoticed
PassedUnnoticed == Continued /\ unnoticed' = TRUE
Aborted == task' = NoTask /\ says' = "aborted" /\ UNCHANGED unnoticed

\* A command that changes nothing, or whose assertion fails before it has.
\* The MCU is reached through the FPGA, which has to route its UART.
NeedMcu == {"communicate", "erase", "flash", "copy_source", "copy_common", "repl"}
Check ==
  /\ \E c \in {"venv", "have_binary", "port", "communicate", "repl"} : Runs(c)
  /\ (\E c \in NeedMcu : Runs(c)) => fpga # Missing
  /\ Passed /\ UNCHANGED <<host, box, fpga, mcu>>
Fails == task # NoTask /\ ~Runs("generate") /\ Aborted /\ UNCHANGED <<host, box, fpga, mcu>>

\* rsync with --delete: what is only in the container goes.
rsync_to_container ==
  /\ Runs("rsync_to") /\ Passed
  /\ box' = host /\ UNCHANGED <<host, fpga, mcu>>

\* Only outputs change in the container, so only they come back.
rsync_from_container ==
  /\ Runs("rsync_from") /\ Passed
  /\ host' = [host EXCEPT !.made = box.made] /\ UNCHANGED <<box, fpga, mcu>>

Make(output) ==
  /\ box' = [box EXCEPT !.made[output] = box.sources]
  /\ UNCHANGED <<host, fpga, mcu>>
KeepMade == UNCHANGED <<host, box, fpga, mcu>>

\* Faulty variant of AfterFailure: the output is not looked at, as in generate.
UncheckedFailure == Passed
AfterFailure == Aborted

\* "failed" and "Traceback" end the task; a SyntaxError of the file that is started,
\* or a file that is not there, prints neither.
build_bitstream ==
  /\ Runs("build")
  /\ \/ Make("bitstream") /\ Passed
     \/ KeepMade /\ AfterFailure
     \/ KeepMade /\ PassedUnnoticed
\* So do "Traceback" and "[Errno" here, and a SyntaxError prints neither.
simulate_file ==
  /\ Runs("simulate")
  /\ \/ Make("waves") /\ Passed
     \/ KeepMade /\ AfterFailure
     \/ KeepMade /\ PassedUnnoticed
\* Nothing is looked for.
generate_file ==
  /\ Runs("generate")
  /\ (Make("generated") /\ Passed) \/ (KeepMade /\ PassedUnnoticed)

\* fujprog takes the bitstream from the container; when it fails half way the
\* FPGA has no design.
upload_binary ==
  /\ \/ Runs("write") /\ box.made["bitstream"] # Missing /\ fpga' = box.made["bitstream"] /\ Passed
     \/ Runs("write_passthru") /\ fpga' = Passthru /\ Passed
     \/ (Runs("write") \/ Runs("write_passthru")) /\ fpga' = Missing /\ Aborted
  /\ UNCHANGED <<host, box, mcu>>

erase_flash_from_device ==
  /\ Runs("erase") /\ fpga # Missing
  /\ mcu' = [firmware |-> Missing, source |-> Missing, common |-> Missing]
  /\ Passed \/ Aborted
  /\ UNCHANGED <<host, box, fpga>>

write_binary_to_device ==
  /\ Runs("flash") /\ fpga # Missing
  /\ mcu' = [mcu EXCEPT !.firmware = 0] /\ Passed /\ UNCHANGED <<host, box, fpga>>

\* rshell says what it checks or adds as it begins, and that is all the
\* assertions look for: a copy that breaks off, before its first file or after some,
\* passes too.
Copied(version) ==
  \/ Runs("copy_source") /\ mcu' = [mcu EXCEPT !.source = version]
  \/ Runs("copy_common") /\ mcu' = [mcu EXCEPT !.common = version]
rsync_micropython_files_between ==
  /\ fpga # Missing /\ mcu.firmware # Missing
  /\ \/ Copied(box.sources) /\ Passed
     \/ Copied(Missing) /\ PassedUnnoticed
     \/ (Runs("copy_source") \/ Runs("copy_common")) /\ UNCHANGED mcu /\ PassedUnnoticed
  /\ UNCHANGED <<host, box, fpga>>

Command ==
  \/ Check \/ Fails \/ rsync_to_container \/ rsync_from_container
  \/ build_bitstream \/ simulate_file \/ generate_file \/ upload_binary
  \/ erase_flash_from_device \/ write_binary_to_device \/ rsync_micropython_files_between

BuildNext == Edit \/ PowerCycle \/ do_task \/ Command
BuildSpec == BuildInit /\ [][BuildNext]_buildVars

-----------------------------------------------------------------------------
Versions == 0 .. MaxEdits
Directories == [sources : Versions, made : [Outputs -> Versions \cup {Missing}]]

BuildTypeOK ==
  /\ {host, box} \subseteq Directories
  /\ fpga \in Versions \cup {Missing, Passthru}
  /\ mcu \in [firmware : {0, Missing}, source : Versions \cup {Missing},
              common : Versions \cup {Missing}]
  /\ task = NoTask \/ task.name \in DOMAIN Commands
  /\ says \in {"done", "aborted"} /\ unnoticed \in BOOLEAN

\* A task that says it is done (build.py:45) has done it, whatever earlier tasks
\* left behind when they failed: the FPGA has the sources that were sent, and no
\* older bitstream, the waves and the generated file are of the same sources, the MCU
\* has both its directories from them, or just firmware.  What a command let pass when
\* it failed in this very task is the one exception; even then the FPGA has a design,
\* the one whose bitstream the host has got, and a reflash is never excused.
DoneIsDone ==
  [][ LET finished(name) == task.name = name /\ task' = NoTask /\ says' = "done"
          done(name) == finished(name) /\ ~unnoticed'
      IN
      /\ finished("upload") => fpga' # Missing /\ fpga' = host'.made["bitstream"]
      /\ done("upload")   => fpga' = box.sources
      /\ done("simulate") => host'.made["waves"] = box.sources
      /\ done("generate") => host'.made["generated"] = box.sources
      /\ done("update")   => mcu'.source = box.sources /\ mcu'.common = box.sources
      /\ finished("reflash") => mcu' = [firmware |-> 0, source |-> Missing, common |-> Missing]
    ]_buildVars
=============================================================================
