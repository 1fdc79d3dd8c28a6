----------------------------- MODULE BatchDriver -----------------------------
(***************************************************************************)
(* The batch loop of main() in main.py with what bin/decompile.py makes of *)
(* its result: inputs are decompiled one after the other into files of an  *)
(* output directory, one file, or standard output, optionally verified,    *)
(* and what goes wrong with one input is recorded and leaves a <output>_failed *)
(* file.  The operator may press Ctrl-C at any time.                       *)
(*                                                                         *)
(* A job is [inputs, mode, verify].  An input is a record:                 *)
(*   name      its path; equal names are the same file given twice         *)
(*   exists    there is such a file                                        *)
(*   pyc       its name ends in .pyc                                       *)
(*   writable  its output file can be opened                               *)
(*   result    of decompile_file: "ok" or "error" (any Exception)          *)
(*   check     of the verification: "valid", "invalid", "skipped" (other   *)
(*             version) or "raises" (an Exception of the check itself)     *)
(***************************************************************************)
EXTENDS Naturals, Sequences, FiniteSets

CONSTANTS Jobs,              \* the command lines a behaviour may start with
          Names,             \* paths of inputs
          NoFile             \* no output file: standard output

ASSUME NoFileAssumption == NoFile \notin Names

Input == [name : Names, exists : BOOLEAN, pyc : BOOLEAN, writable : BOOLEAN,
          result : {"ok", "error"},
          check : {"valid", "invalid", "skipped", "raises"}]

ASSUME JobsAssumption ==
  \A job \in Jobs :
    /\ job.inputs \in Seq(Input)
    /\ \A i, j \in DOMAIN job.inputs :
         job.inputs[i].name = job.inputs[j].name => job.inputs[i] = job.inputs[j]
    /\ job.mode \in {"base", "file", "stdout"}
    /\ job.mode = "file" => Len(job.inputs) = 1
    /\ job.verify \in BOOLEAN

VARIABLES job,
          i,                 \* the input in hand
          phase,             \* where the loop body is: "next", "opened", "try",
                             \* "verify", "except", "else"
          tot, okay, failed, verifyFailed, badCheck,
          output, marker,    \* output file and _failed file of each input's name
          stdoutOpen,
          outcome,           \* "running", "done", "interrupted", "left", "crashed"
          exit

counts == <<tot, okay, failed, verifyFailed>>
files  == <<output, marker>>
vars   == <<job, i, phase, counts, badCheck, files, stdoutOpen, outcome, exit>>

Contents == {"none", "old", "partial", "whole"}

Current == job.inputs[i]
Running == outcome = "running"
AtInput == Running /\ phase = "next" /\ i <= Len(job.inputs)

\* current_outfile, named by its input.  A job of mode "file" has one input.
Target(input) ==
  IF job.mode \in {"base", "file"} \/ (job.verify /\ input.pyc) THEN input.name ELSE NoFile

\* Earlier runs may have left outputs and _failed files behind.
Init == /\ job \in Jobs
        /\ i = 1 /\ phase = "next"
        /\ tot = 0 /\ okay = 0 /\ failed = 0 /\ verifyFailed = 0 /\ badCheck = FALSE
        /\ output \in [Names -> {"none", "old"}]
        /\ marker \in [Names -> {"none", "old"}]
        /\ stdoutOpen = TRUE
        /\ outcome = "running" /\ exit = 0

Advance == i' = i + 1 /\ phase' = "next"

\* Defect: a missing input is not counted as a failure.
SkipSilently == /\ AtInput /\ ~Current.exists
                /\ tot' = tot + 1
                /\ Advance
                /\ UNCHANGED <<job, okay, failed, verifyFailed, badCheck, files,
                               stdoutOpen, outcome, exit>>

\* The input does not exist.
Skip == /\ AtInput /\ ~Current.exists
        /\ failed' = failed + 1 /\ tot' = tot + 1
        /\ Advance
        /\ UNCHANGED <<job, okay, verifyFailed, badCheck, files, stdoutOpen, outcome, exit>>

\* No file: the source goes to standard output.
UseStdout == /\ AtInput /\ Current.exists /\ Target(Current) = NoFile
             /\ phase' = "try"
             /\ UNCHANGED <<job, i, counts, badCheck, files, stdoutOpen, outcome, exit>>

\* Defect: the _failed file of an earlier run is left alone.
OpenKeepingMarker == /\ AtInput /\ Current.exists /\ Target(Current) # NoFile
                     /\ Current.writable
                     /\ output' = [output EXCEPT ![Current.name] = "partial"]
                     /\ phase' = "opened"
                     /\ UNCHANGED <<job, i, counts, badCheck, marker, stdoutOpen, outcome, exit>>

\* Defect: whether the input exists is left to decompile_file.
OpenUnseen == /\ AtInput /\ Target(Current) # NoFile /\ Current.writable
              /\ marker' = [marker EXCEPT ![Current.name] = "none"]
              /\ output' = [output EXCEPT ![Current.name] = "partial"]
              /\ phase' = "opened"
              /\ UNCHANGED <<job, i, counts, badCheck, stdoutOpen, outcome, exit>>

\* _get_outstream: a _failed file is removed, the output is created or truncated.
Open == /\ AtInput /\ Current.exists /\ Target(Current) # NoFile /\ Current.writable
        /\ marker' = [marker EXCEPT ![Current.name] = "none"]
        /\ output' = [output EXCEPT ![Current.name] = "partial"]
        /\ phase' = "opened"
        /\ UNCHANGED <<job, i, counts, badCheck, stdoutOpen, outcome, exit>>

\* open() raises; no handler surrounds it, so the exception ends the command.
OpenRaises == /\ AtInput /\ Current.exists /\ Target(Current) # NoFile /\ ~Current.writable
              /\ marker' = [marker EXCEPT ![Current.name] = "none"]
              /\ outcome' = "crashed" /\ exit' = 1
              /\ UNCHANGED <<job, i, phase, counts, badCheck, output, stdoutOpen>>

\* The try block begins.
Enter == /\ Running /\ phase = "opened"
         /\ phase' = "try"
         /\ UNCHANGED <<job, i, counts, badCheck, files, stdoutOpen, outcome, exit>>

Written == IF Target(Current) = NoFile THEN output
           ELSE [output EXCEPT ![Current.name] = "whole"]

\* decompile_file returns.
Decompile == /\ Running /\ phase = "try" /\ Current.result = "ok"
             /\ output' = Written
             /\ badCheck' = FALSE
             /\ IF job.verify THEN phase' = "verify" /\ UNCHANGED tot
                              ELSE phase' = "else" /\ tot' = tot + 1
             /\ UNCHANGED <<job, i, okay, failed, verifyFailed, marker,
                            stdoutOpen, outcome, exit>>

\* Defect: only errors of the program's own hierarchy are caught.
DecompileEscapes == /\ Running /\ phase = "try" /\ Current.result = "error"
                    /\ outcome' = "crashed" /\ exit' = 1
                    /\ UNCHANGED <<job, i, phase, counts, badCheck, files, stdoutOpen>>

\* decompile_file raises, possibly after writing.
DecompileRaises == /\ Running /\ phase = "try" /\ Current.result = "error"
                   /\ phase' = "except"
                   /\ UNCHANGED <<job, i, counts, badCheck, files, stdoutOpen, outcome, exit>>

\* The written file is closed and checked.
Verify == /\ Running /\ phase = "verify" /\ Target(Current) # NoFile
          /\ Current.check # "raises"
          /\ badCheck' = (Current.check = "invalid")
          /\ verifyFailed' = verifyFailed + (IF Current.check = "invalid" THEN 1 ELSE 0)
          /\ tot' = tot + 1
          /\ phase' = "else"
          /\ UNCHANGED <<job, i, okay, failed, files, stdoutOpen, outcome, exit>>

VerifyRaises == /\ Running /\ phase = "verify" /\ Target(Current) # NoFile
                /\ Current.check = "raises"
                /\ phase' = "except"
                /\ UNCHANGED <<job, i, counts, badCheck, files, stdoutOpen, outcome, exit>>

\* The stream that is closed is sys.stdout; then the "# skipping" line cannot be
\* written to it, and there is no file "<stdout>" to check.
VerifyStdout == /\ Running /\ phase = "verify" /\ Target(Current) = NoFile
                /\ stdoutOpen' = FALSE
                /\ phase' = "except"
                /\ UNCHANGED <<job, i, counts, badCheck, files, outcome, exit>>

\* os.replace: the output becomes the _failed file.
Rename == IF Target(Current) = NoFile \/ output[Current.name] = "none" THEN UNCHANGED files
          ELSE /\ marker' = [marker EXCEPT ![Current.name] = output[Current.name]]
               /\ output' = [output EXCEPT ![Current.name] = "none"]

\* Defect: the partial output keeps its name.
RecordOnly == /\ Running /\ phase = "except" /\ stdoutOpen
              /\ failed' = failed + 1 /\ tot' = tot + 1
              /\ Advance
              /\ UNCHANGED <<job, okay, verifyFailed, badCheck, files, stdoutOpen, outcome, exit>>

\* except Exception: the failure is reported, counted and marked.
Record == /\ Running /\ phase = "except" /\ stdoutOpen
          /\ failed' = failed + 1 /\ tot' = tot + 1
          /\ Rename
          /\ Advance
          /\ UNCHANGED <<job, okay, verifyFailed, badCheck, stdoutOpen, outcome, exit>>

\* The report itself raises when standard output is closed.
ReportRaises == /\ Running /\ phase = "except" /\ ~stdoutOpen
                /\ outcome' = "crashed" /\ exit' = 1
                /\ UNCHANGED <<job, i, phase, counts, badCheck, files, stdoutOpen>>

\* Defect: an output that failed its verification keeps its name.
SettleUnmarked == /\ Running /\ phase = "else"
                  /\ okay' = okay + 1
                  /\ Advance
                  /\ UNCHANGED <<job, tot, failed, verifyFailed, badCheck, files,
                                 stdoutOpen, outcome, exit>>

\* else: the output is closed; one that failed its verification is marked.
Settle == /\ Running /\ phase = "else"
          /\ IF job.verify /\ badCheck THEN Rename ELSE UNCHANGED files
          /\ okay' = okay + 1
          /\ Advance
          /\ UNCHANGED <<job, tot, failed, verifyFailed, badCheck, stdoutOpen, outcome, exit>>

\* Defect: files that failed their verification do not count for the exit status.
FinishLenient == /\ Running /\ phase = "next" /\ i > Len(job.inputs)
                 /\ outcome' = "done"
                 /\ exit' = IF failed > 0 THEN 1 ELSE 0
                 /\ UNCHANGED <<job, i, phase, counts, badCheck, files, stdoutOpen>>

\* main returns, main_bin sets the exit status.
Finish == /\ Running /\ phase = "next" /\ i > Len(job.inputs)
          /\ outcome' = "done"
          /\ exit' = IF failed > 0 \/ verifyFailed > 0 THEN 1 ELSE 0
          /\ UNCHANGED <<job, i, phase, counts, badCheck, files, stdoutOpen>>

\* Ctrl-C inside the try block.
Interrupt == /\ Running /\ phase \in {"try", "verify"}
             /\ Rename
             /\ outcome' = "interrupted" /\ exit' = 1
             /\ UNCHANGED <<job, i, phase, counts, badCheck, stdoutOpen>>

\* Ctrl-C where no handler is: the files stay as they are.
InterruptOutside == /\ Running /\ phase \in {"next", "opened", "except", "else"}
                    /\ outcome' = "left" /\ exit' = 1
                    /\ UNCHANGED <<job, i, phase, counts, badCheck, files, stdoutOpen>>

Progress == \/ Skip \/ UseStdout \/ Open \/ OpenRaises \/ Enter
            \/ Decompile \/ DecompileRaises
            \/ Verify \/ VerifyRaises \/ VerifyStdout
            \/ Record \/ ReportRaises \/ Settle \/ Finish

Next == Progress \/ Interrupt \/ InterruptOutside

Spec == Init /\ [][Next]_vars
-----------------------------------------------------------------------------
\* Types; no input that does not exist gets past the start of the loop body.
TypeOK ==  /\ job \in Jobs
           /\ i \in 1 .. Len(job.inputs) + 1
           /\ phase \in {"next", "opened", "try", "verify", "except", "else"}
           /\ phase # "next" => i <= Len(job.inputs) /\ Current.exists
           /\ {tot, okay, failed, verifyFailed} \subseteq 0 .. Len(job.inputs)
           /\ badCheck \in BOOLEAN /\ stdoutOpen \in BOOLEAN
           /\ output \in [Names -> Contents] /\ marker \in [Names -> Contents]
           /\ outcome \in {"running", "done", "interrupted", "left", "crashed"}
           /\ exit \in {0, 1}

\* What the user means by success: recovered, and not refuted by the check.
Good(input) ==
  /\ input.exists /\ input.result = "ok"
  /\ job.verify => input.check \in {"valid", "skipped"}

\* Between two inputs every input so far is counted once, as okay or failed,
\* and the failed ones are those that are missing or raised.
CountsAddUp ==
  Running /\ phase = "next" =>
    /\ tot = i - 1 /\ tot = okay + failed
    /\ verifyFailed <= okay
    /\ okay - verifyFailed = Cardinality({k \in 1 .. i - 1 : Good(job.inputs[k])})

\* Exit status 0 says that every input was recovered and passed its check.
ExitTellsAll ==
  outcome = "done" => (exit = 0 <=> \A k \in DOMAIN job.inputs : Good(job.inputs[k]))

\* After the run an output is there exactly for what is good, and a _failed
\* file exactly for what is not, whatever earlier runs left behind.
MarkersTellTheTruth ==
  outcome = "done" =>
    \A k \in DOMAIN job.inputs :
      LET input == job.inputs[k]
      IN  input.exists /\ Target(input) # NoFile =>
            /\ Good(input) => output[input.name] = "whole" /\ marker[input.name] = "none"
            /\ ~Good(input) => output[input.name] = "none"
                               /\ marker[input.name] \in {"partial", "whole"}

\* At most one partial output keeps its name, that of the input in hand, and only
\* when Ctrl-C falls between its opening and the try block or in the except branch.
NoPartialOutput ==
  outcome # "running" =>
    \A n \in Names : output[n] = "partial" =>
      outcome = "left" /\ phase \in {"opened", "except"} /\ n = Current.name

\* One input that fails does not keep the others from being processed: the
\* command ends early only over an output that cannot be opened or over a
\* standard output that a verification has closed.
EndsEarlyOnlyByOutput ==
  outcome = "crashed" => (phase = "next" /\ ~Current.writable) \/ ~stdoutOpen

\* What README.rst says: a batch continues after an individual input failure.
BatchContinues == outcome = "crashed" => phase = "next" /\ ~Current.writable
=============================================================================
