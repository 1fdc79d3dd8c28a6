-------------------------- MODULE BatchDriverProofs --------------------------
(***************************************************************************)
(* The batch loop keeps its books for any command line: any number of      *)
(* inputs, the same one given several times, any mixture of failures, and  *)
(* Ctrl-C between any two steps.                                           *)
(***************************************************************************)
EXTENDS BatchDriver, FiniteSetTheorems, TLAPS

GoodBefore(k) == {n \in 1 .. k - 1 : Good(job.inputs[n])}

Counted(k) == (failed = 0 /\ verifyFailed = 0) <=> \A n \in 1 .. k - 1 : Good(job.inputs[n])

\* What each place of the loop body knows of the input in hand.
InHand ==
  /\ phase # "next" => i <= Len(job.inputs) /\ Current.exists
  /\ phase = "opened" => Target(Current) # NoFile
  /\ phase = "verify" => job.verify /\ Current.result = "ok"
  /\ phase = "except" /\ stdoutOpen => ~Good(Current)
  /\ phase = "else" => (Good(Current) <=> ~badCheck) /\ (badCheck => job.verify)
  /\ ~stdoutOpen => phase = "except" /\ Target(Current) = NoFile

\* The counters: one input is in hand, and from "else" on it is counted.
Books ==
  /\ okay + failed = i - 1
  /\ tot = IF phase = "else" THEN i ELSE i - 1
  /\ verifyFailed <= okay + (IF phase = "else" /\ badCheck THEN 1 ELSE 0)
  /\ okay - verifyFailed + (IF phase = "else" /\ badCheck THEN 1 ELSE 0)
       = Cardinality(GoodBefore(i))
  /\ Counted(IF phase = "else" THEN i + 1 ELSE i)

Truth(input) ==
  input.exists /\ Target(input) # NoFile =>
    /\ Good(input) => output[input.name] = "whole" /\ marker[input.name] = "none"
    /\ ~Good(input) => output[input.name] = "none" /\ marker[input.name] \in {"partial", "whole"}

\* The files of the inputs before, but for that of the input in hand when it was
\* given twice; and the files of the input in hand.
Files ==
  outcome \in {"running", "done"} =>
    /\ \A k \in 1 .. i - 1 :
         phase = "next" \/ job.inputs[k].name # Current.name \/ Target(Current) = NoFile
           => Truth(job.inputs[k])
    /\ phase # "next" /\ Target(Current) # NoFile => marker[Current.name] = "none"
    /\ phase = "except" /\ Target(Current) # NoFile => output[Current.name] \in {"partial", "whole"}
    /\ phase \in {"opened", "try"} /\ Target(Current) # NoFile => output[Current.name] = "partial"
    /\ phase \in {"verify", "else"} /\ Target(Current) # NoFile => output[Current.name] = "whole"

\* A partial output is that of the input in hand.
Partial ==
  \A n \in Names : output[n] = "partial" =>
    /\ outcome \in {"running", "left"}
    /\ phase \in {"opened", "try", "except"}
    /\ outcome = "left" => phase # "try"
    /\ Target(Current) # NoFile /\ n = Current.name

Ending == /\ outcome = "done" =>
               /\ phase = "next" /\ i = Len(job.inputs) + 1
               /\ exit = 0 <=> failed = 0 /\ verifyFailed = 0
          /\ EndsEarlyOnlyByOutput

Shape ==  /\ job \in Jobs
          /\ i \in 1 .. Len(job.inputs) + 1
          /\ phase \in {"next", "opened", "try", "verify", "except", "else"}
          /\ tot \in Nat /\ okay \in Nat /\ failed \in Nat /\ verifyFailed \in Nat
          /\ badCheck \in BOOLEAN /\ stdoutOpen \in BOOLEAN
          /\ output \in [Names -> Contents] /\ marker \in [Names -> Contents]
          /\ outcome \in {"running", "done", "interrupted", "left", "crashed"}
          /\ exit \in {0, 1}

Inv == Shape /\ InHand /\ Books /\ Files /\ Partial /\ Ending
-----------------------------------------------------------------------------
\* Facts about the command line, which has a list of inputs of the type above.
LEMMA JobFacts ==
  ASSUME Shape
  PROVE  /\ Len(job.inputs) \in Nat
         /\ \A k \in 1 .. Len(job.inputs) : job.inputs[k] \in Input
         /\ DOMAIN job.inputs = 1 .. Len(job.inputs)
         /\ job.verify \in BOOLEAN /\ job.mode \in {"base", "file", "stdout"}
         /\ \A j, k \in DOMAIN job.inputs :
              job.inputs[j].name = job.inputs[k].name => job.inputs[j] = job.inputs[k]
         /\ i \in Nat
<1>1. job.inputs \in Seq(Input)
  BY JobsAssumption DEF Shape
<1> QED
  BY <1>1, JobsAssumption DEF Shape

\* The input in hand is one of them.
LEMMA CurrentFacts ==
  ASSUME Shape, i <= Len(job.inputs)
  PROVE  /\ Current \in Input /\ Current.name \in Names /\ Current.exists \in BOOLEAN
         /\ Current.result \in {"ok", "error"}
         /\ Current.check \in {"valid", "invalid", "skipped", "raises"}
         /\ Good(Current) \in BOOLEAN
         /\ Target(Current) # NoFile => Target(Current) = Current.name
BY JobFacts DEF Shape, Current, Input, Good, Target

\* The steps of the loop body.
Steps == \/ Skip \/ UseStdout \/ Open \/ OpenRaises \/ Enter \/ Decompile \/ DecompileRaises
         \/ Verify \/ VerifyRaises \/ VerifyStdout \/ Record \/ ReportRaises \/ Settle
         \/ Finish \/ Interrupt \/ InterruptOutside

\* Next with Progress taken apart.
LEMMA NextIsSteps == Next <=> Steps
BY DEF Next, Progress, Steps

\* Before the first input the books are empty, whatever files there are.
LEMMA InitInv == Init => Inv
<1> SUFFICES ASSUME Init PROVE Inv
  OBVIOUS
<1>1. Shape
  <2>1. Len(job.inputs) \in Nat
    BY JobsAssumption DEF Init
  <2>2. output \in [Names -> Contents] /\ marker \in [Names -> Contents]
    BY DEF Init, Contents
  <2>3. i \in 1 .. Len(job.inputs) + 1
    BY <2>1 DEF Init
  <2> QED
    BY <2>2, <2>3 DEF Init, Shape
<1>2. GoodBefore(i) = {} /\ Cardinality({}) = 0
  BY FS_EmptySet DEF Init, GoodBefore
<1> QED
  BY <1>1, <1>2 DEF Init, Inv, InHand, Books, Counted, Files, Partial, Ending, EndsEarlyOnlyByOutput

\* Every step keeps the types.
LEMMA ShapeStep == Inv /\ [Next]_vars => Shape'
<1> SUFFICES ASSUME Inv, [Next]_vars PROVE Shape'
  OBVIOUS
<1>0. Shape /\ InHand /\ Len(job.inputs) \in Nat /\ i \in Nat
  BY JobFacts DEF Inv
<1> USE <1>0 DEF Shape, InHand, AtInput, Running, Advance, counts, files
<1>1. CASE Skip
  BY <1>1 DEF Skip
<1>2. CASE UseStdout
  BY <1>2 DEF UseStdout
<1>3. CASE Open
  <2>1. output' \in [Names -> Contents] /\ marker' \in [Names -> Contents]
    BY <1>3 DEF Open, Contents
  <2> QED
    BY <1>3, <2>1 DEF Open
<1>4. CASE OpenRaises
  <2>1. marker' \in [Names -> Contents]
    BY <1>4 DEF OpenRaises, Contents
  <2> QED
    BY <1>4, <2>1 DEF OpenRaises
<1>5. CASE Enter
  BY <1>5 DEF Enter
<1>6. CASE Decompile
  <2>1. output' \in [Names -> Contents]
    BY <1>6 DEF Decompile, Written, Contents
  <2>2. phase' \in {"verify", "else"} /\ tot' \in {tot, tot + 1} /\ badCheck' = FALSE
    BY <1>6 DEF Decompile
  <2>3. UNCHANGED <<job, i, okay, failed, verifyFailed, marker, stdoutOpen, outcome, exit>>
    BY <1>6 DEF Decompile
  <2>4. job' \in Jobs /\ i' \in 1 .. Len(job'.inputs) + 1
    BY <2>3
  <2>5. /\ phase' \in {"next", "opened", "try", "verify", "except", "else"}
        /\ outcome' \in {"running", "done", "interrupted", "left", "crashed"}
        /\ exit' \in {0, 1}
    BY <2>2, <2>3
  <2>6. tot' \in Nat /\ okay' \in Nat /\ failed' \in Nat /\ verifyFailed' \in Nat
    BY <2>2, <2>3
  <2>7. badCheck' \in BOOLEAN /\ stdoutOpen' \in BOOLEAN /\ marker' \in [Names -> Contents]
    BY <2>2, <2>3
  <2> QED
    BY <2>1, <2>4, <2>5, <2>6, <2>7
<1>7. CASE DecompileRaises
  BY <1>7 DEF DecompileRaises
<1>8. CASE Verify
  BY <1>8 DEF Verify
<1>9. CASE VerifyRaises \/ VerifyStdout
  BY <1>9 DEF VerifyRaises, VerifyStdout
<1>10. Rename => /\ output' \in [Names -> Contents] /\ marker' \in [Names -> Contents]
  BY DEF Rename, Contents
<1>11. CASE Record
  BY <1>10, <1>11 DEF Record
<1>12. CASE Settle
  BY <1>10, <1>12 DEF Settle
<1>13. CASE Interrupt
  BY <1>10, <1>13 DEF Interrupt
<1>14. CASE ReportRaises \/ Finish \/ InterruptOutside
  BY <1>14 DEF ReportRaises, Finish, InterruptOutside
<1>15. CASE UNCHANGED vars
  BY <1>15 DEF vars
<1> QED
  BY <1>1, <1>2, <1>3, <1>4, <1>5, <1>6, <1>7, <1>8, <1>9, <1>11, <1>12, <1>13, <1>14, <1>15,
     NextIsSteps DEF Steps

\* Neither the command line nor what counts as good ever changes.
LEMMA JobKept ==
  ASSUME [Next]_vars
  PROVE  job' = job
BY NextIsSteps DEF Steps, Skip, UseStdout, Open, OpenRaises, Enter, Decompile, DecompileRaises,
   Verify, VerifyRaises, VerifyStdout, Record, ReportRaises, Settle, Finish, Interrupt,
   InterruptOutside, vars

\* Every step knows at its end what its place in the loop body promises.
LEMMA InHandStep == Inv /\ [Next]_vars => InHand'
<1> SUFFICES ASSUME Inv, [Next]_vars PROVE InHand'
  OBVIOUS
<1>0. Shape /\ InHand /\ Len(job.inputs) \in Nat /\ i \in Nat
  BY JobFacts DEF Inv
<1> USE <1>0 DEF Shape, InHand, AtInput, Running, Advance, counts, files
<1>1. job' = job
  BY JobKept
<1>2. i' = i => Current' = Current /\ Target(Current)' = Target(Current)
                /\ Good(Current)' = Good(Current)
  BY <1>1 DEF Current, Target, Good
<1>3. CASE Skip \/ Record \/ Settle
  BY <1>3 DEF Skip, Record, Settle
<1>4. CASE UseStdout
  BY <1>2, <1>4 DEF UseStdout
<1>5. CASE Open
  BY <1>2, <1>5 DEF Open
<1>6. CASE OpenRaises
  BY <1>2, <1>6 DEF OpenRaises
<1>7. CASE Enter
  BY <1>2, <1>7 DEF Enter
<1>8. CASE Decompile
  <2>1. ~job.verify => Good(Current)
    BY <1>8 DEF Decompile, Good
  <2>2. CASE job.verify
    BY <1>1, <1>2, <1>8, <2>2 DEF Decompile
  <2>3. CASE ~job.verify
    BY <1>1, <1>2, <1>8, <2>1, <2>3 DEF Decompile
  <2> QED
    BY <2>2, <2>3
<1>9. CASE DecompileRaises
  <2>1. ~Good(Current)
    BY <1>9 DEF DecompileRaises, Good
  <2> QED
    BY <1>1, <1>2, <1>9, <2>1 DEF DecompileRaises
<1>10. CASE Verify
  <2>1. Good(Current) <=> Current.check # "invalid"
    BY <1>10, CurrentFacts DEF Verify, Good
  <2> QED
    BY <1>1, <1>2, <1>10, <2>1 DEF Verify
<1>11. CASE VerifyRaises
  <2>1. ~Good(Current)
    BY <1>11 DEF VerifyRaises, Good
  <2> QED
    BY <1>1, <1>2, <1>11, <2>1 DEF VerifyRaises
<1>12. CASE VerifyStdout
  BY <1>2, <1>12 DEF VerifyStdout
<1>13. CASE ReportRaises \/ Finish \/ Interrupt \/ InterruptOutside
  BY <1>1, <1>2, <1>13 DEF ReportRaises, Finish, Interrupt, InterruptOutside
<1>14. CASE UNCHANGED vars
  BY <1>1, <1>2, <1>14 DEF vars
<1> QED
  BY <1>3, <1>4, <1>5, <1>6, <1>7, <1>8, <1>9, <1>10, <1>11, <1>12, <1>13, <1>14, NextIsSteps
  DEF Steps

\* One input more: one good input more, or none.
LEMMA OneMore ==
  ASSUME Shape, i <= Len(job.inputs)
  PROVE  /\ Cardinality(GoodBefore(i)) \in Nat
         /\ Cardinality(GoodBefore(i + 1))
              = Cardinality(GoodBefore(i)) + (IF Good(Current) THEN 1 ELSE 0)
         /\ Counted(i + 1) <=> ((failed = 0 /\ verifyFailed = 0) <=>
              (\A n \in 1 .. i - 1 : Good(job.inputs[n])) /\ Good(Current))
<1> USE JobFacts DEF Shape
<1>1. IsFiniteSet(GoodBefore(i))
  <2>1. IsFiniteSet(1 .. i - 1)
    BY FS_Interval, i - 1 \in Int, 1 \in Int
  <2>2. GoodBefore(i) \subseteq 1 .. i - 1
    BY DEF GoodBefore
  <2> QED
    BY <2>1, <2>2, FS_Subset
<1>2. GoodBefore(i + 1) = GoodBefore(i) \union (IF Good(Current) THEN {i} ELSE {})
  BY DEF GoodBefore, Current
<1>3. i \notin GoodBefore(i)
  BY DEF GoodBefore
<1>4. Cardinality(GoodBefore(i)) \in Nat
  BY <1>1, FS_CardinalityType
<1>5. Cardinality(GoodBefore(i + 1)) = Cardinality(GoodBefore(i)) + (IF Good(Current) THEN 1 ELSE 0)
  <2>1. CASE Good(Current)
    <3>1. GoodBefore(i + 1) = GoodBefore(i) \union {i}
      BY <1>2, <2>1
    <3>2. Cardinality(GoodBefore(i) \union {i}) = Cardinality(GoodBefore(i)) + 1
      BY <1>1, <1>3, FS_AddElement
    <3> QED
      BY <2>1, <3>1, <3>2
  <2>2. CASE ~Good(Current)
    <3>1. GoodBefore(i + 1) = GoodBefore(i)
      BY <1>2, <2>2
    <3> QED
      BY <1>4, <2>2, <3>1
  <2> QED
    BY <2>1, <2>2
<1>6. (\A n \in 1 .. i + 1 - 1 : Good(job.inputs[n]))
        <=> (\A n \in 1 .. i - 1 : Good(job.inputs[n])) /\ Good(Current)
  BY DEF Current
<1> QED
  BY <1>4, <1>5, <1>6 DEF Counted

\* Every step leaves the counters equal to what they count.
LEMMA BooksStep == Inv /\ [Next]_vars => Books'
<1> SUFFICES ASSUME Inv, [Next]_vars PROVE Books'
  OBVIOUS
<1>0. Shape /\ InHand /\ Len(job.inputs) \in Nat /\ i \in Nat
  BY JobFacts DEF Inv
<1> USE <1>0 DEF Shape, InHand, AtInput, Running, Advance, counts, files
<1>1. job' = job
  BY JobKept
<1>2. /\ \A k : GoodBefore(k)' = GoodBefore(k)
      /\ \A x : Good(x)' = Good(x)
  BY <1>1 DEF GoodBefore, Good
<1>3. /\ Cardinality(GoodBefore(i)) \in Nat
      /\ Books
  BY OneMore, FS_EmptySet DEF Books, Inv
<1>4. CASE Skip
  <2>1. ~Good(Current)
    BY <1>4 DEF Skip, Good
  <2> QED
    BY <1>1, <1>2, <1>3, <1>4, <2>1, OneMore DEF Skip, Books, Counted
<1>5. CASE Decompile
  <2>1. ~job.verify => Good(Current)
    BY <1>5 DEF Decompile, Good
  <2>2. CASE job.verify
    BY <1>1, <1>2, <1>3, <1>5, <2>2 DEF Decompile, Books, Counted
  <2>3. CASE ~job.verify
    BY <1>1, <1>2, <1>3, <1>5, <2>1, <2>3, OneMore DEF Decompile, Books, Counted
  <2> QED
    BY <2>2, <2>3
<1>6. CASE Verify
  <2>1. Good(Current) <=> Current.check # "invalid"
    BY <1>6, CurrentFacts, <1>0 DEF Verify, Good
  <2>2. /\ UNCHANGED <<i, okay, failed>> /\ tot' = tot + 1
        /\ phase = "verify" /\ phase' = "else" /\ i <= Len(job.inputs)
    BY <1>6 DEF Verify
  <2>3. CASE Current.check = "invalid"
    <3>1. badCheck' = TRUE /\ verifyFailed' = verifyFailed + 1
      BY <1>6, <2>3 DEF Verify
    <3> QED
      BY <1>1, <1>2, <1>3, <2>1, <2>2, <2>3, <3>1, OneMore DEF Books, Counted
  <2>4. CASE Current.check # "invalid"
    <3>1. badCheck' = FALSE /\ verifyFailed' = verifyFailed
      <4>1. badCheck' = FALSE
        BY <1>6, <2>4, Zenon DEF Verify
      <4>2. verifyFailed' = verifyFailed + 0
        BY <1>6, <2>4, Zenon DEF Verify
      <4> QED
        BY <4>1, <4>2
    <3> QED
      BY <1>1, <1>2, <1>3, <2>1, <2>2, <2>4, <3>1, OneMore DEF Books, Counted
  <2> QED
    BY <2>3, <2>4
<1>7. CASE Record
  BY <1>1, <1>2, <1>3, <1>7, OneMore DEF Record, Books, Counted
<1>8. CASE Settle
  BY <1>1, <1>2, <1>3, <1>8, OneMore DEF Settle, Books, Counted
<1>9. CASE \/ UseStdout \/ Open \/ OpenRaises \/ Enter \/ DecompileRaises \/ VerifyRaises
           \/ VerifyStdout \/ ReportRaises \/ Finish \/ Interrupt \/ InterruptOutside
           \/ UNCHANGED vars
  <2>1. /\ UNCHANGED <<i, counts>>
        /\ phase = "else" <=> phase' = "else"
        /\ phase = "else" => badCheck' = badCheck
    BY <1>9 DEF UseStdout, Open, OpenRaises, Enter, DecompileRaises, VerifyRaises, VerifyStdout,
       ReportRaises, Finish, Interrupt, InterruptOutside, vars
  <2> QED
    BY <1>1, <1>2, <1>3, <2>1 DEF Books, Counted
<1> QED
  BY <1>4, <1>5, <1>6, <1>7, <1>8, <1>9, NextIsSteps DEF Steps

\* A partial output is the input's in hand, and gone when that is settled.
LEMMA PartialStep == Inv /\ [Next]_vars => Partial'
<1> SUFFICES ASSUME Inv, [Next]_vars PROVE Partial'
  OBVIOUS
<1>0. Shape /\ InHand /\ Partial /\ Len(job.inputs) \in Nat /\ i \in Nat
  BY JobFacts DEF Inv
<1> USE <1>0 DEF Shape, InHand, AtInput, Running, Advance, counts, files
<1>1. job' = job
  BY JobKept
<1>2. i' = i => Current' = Current /\ Target(Current)' = Target(Current)
  BY <1>1 DEF Current, Target
<1>3. CASE Skip \/ UseStdout \/ OpenRaises \/ Finish
  <2>1. UNCHANGED output /\ phase = "next"
    BY <1>3 DEF Skip, UseStdout, OpenRaises, Finish
  <2> QED
    BY <2>1 DEF Partial
<1>4. CASE Open
  <2>1. \A n \in Names : output'[n] = "partial" => n = Current.name
    BY <1>4 DEF Open, Partial
  <2> QED
    BY <1>2, <1>4, <2>1 DEF Open, Partial
<1>5. CASE Enter \/ DecompileRaises \/ InterruptOutside
  BY <1>2, <1>5 DEF Enter, DecompileRaises, InterruptOutside, Partial
<1>6. CASE Decompile
  <2>1. \A n \in Names : output'[n] # "partial"
    BY <1>6 DEF Decompile, Written, Partial
  <2> QED
    BY <2>1 DEF Partial
<1>7. CASE Verify \/ VerifyRaises \/ VerifyStdout \/ ReportRaises
  <2>1. UNCHANGED output /\ (phase = "verify" \/ ~stdoutOpen)
    BY <1>7 DEF Verify, VerifyRaises, VerifyStdout, ReportRaises
  <2> QED
    BY <2>1 DEF Partial
<1>8. Rename /\ phase \in {"try", "verify", "except"} => \A n \in Names : output'[n] # "partial"
  BY DEF Rename, Partial
<1>9. CASE Record \/ Interrupt
  BY <1>8, <1>9 DEF Record, Interrupt, Partial
<1>10. CASE Settle
  <2>1. \A n \in Names : output[n] # "partial"
    BY <1>10 DEF Settle, Partial
  <2>2. Rename => \A n \in Names : output'[n] # "partial"
    BY <2>1 DEF Rename
  <2> QED
    BY <1>10, <2>1, <2>2 DEF Settle, Partial
<1>11. CASE UNCHANGED vars
  BY <1>2, <1>11 DEF vars, Partial
<1> QED
  BY <1>3, <1>4, <1>5, <1>6, <1>7, <1>9, <1>10, <1>11, NextIsSteps DEF Steps

\* The batch ends only as it may.
LEMMA EndingStep == Inv /\ [Next]_vars => Ending'
<1> SUFFICES ASSUME Inv, [Next]_vars PROVE Ending'
  OBVIOUS
<1>0. Shape /\ InHand /\ Ending /\ Len(job.inputs) \in Nat /\ i \in Nat
  BY JobFacts DEF Inv
<1> USE <1>0 DEF Shape, InHand, AtInput, Running, Advance, counts, files
<1>1. job' = job
  BY JobKept
<1>2. CASE \/ Skip \/ UseStdout \/ Open \/ Enter \/ Decompile \/ DecompileRaises \/ Verify
           \/ VerifyRaises \/ VerifyStdout \/ Record \/ Settle \/ Interrupt \/ InterruptOutside
  <2>1. outcome' \notin {"done", "crashed"}
    BY <1>2 DEF Skip, UseStdout, Open, Enter, Decompile, DecompileRaises, Verify, VerifyRaises,
       VerifyStdout, Record, Settle, Interrupt, InterruptOutside
  <2> QED
    BY <2>1 DEF Ending, EndsEarlyOnlyByOutput
<1>3. CASE OpenRaises
  BY <1>1, <1>3 DEF OpenRaises, Ending, EndsEarlyOnlyByOutput, Current
<1>4. CASE ReportRaises
  BY <1>4 DEF ReportRaises, Ending, EndsEarlyOnlyByOutput
<1>5. CASE Finish
  BY <1>1, <1>5 DEF Finish, Ending, EndsEarlyOnlyByOutput
<1>6. CASE UNCHANGED vars
  BY <1>1, <1>6 DEF vars, Ending, EndsEarlyOnlyByOutput, Current
<1> QED
  BY <1>2, <1>3, <1>4, <1>5, <1>6, NextIsSteps DEF Steps

\* An input is done with: what is true of its own file, and of others for which
\* nothing changed, makes up the truth about all inputs so far.
LEMMA Settled ==
  ASSUME Inv, Running, i <= Len(job.inputs), job' = job, i' = i + 1, phase' = "next",
         \A n \in Names : n # Current.name \/ Target(Current) = NoFile
           => output'[n] = output[n] /\ marker'[n] = marker[n],
         Target(Current) # NoFile /\ Current.exists =>
           /\ Good(Current) => output'[Current.name] = "whole" /\ marker'[Current.name] = "none"
           /\ ~Good(Current) => /\ output'[Current.name] = "none"
                                /\ marker'[Current.name] \in {"partial", "whole"}
  PROVE  Files'
<1>1. Shape /\ Files /\ i \in Nat /\ Len(job.inputs) \in Nat
  BY JobFacts DEF Inv
<1>2. SUFFICES ASSUME NEW k \in 1 .. i PROVE Truth(job.inputs[k])'
  BY <1>1 DEF Files
<1>3. /\ k \in DOMAIN job.inputs /\ i \in DOMAIN job.inputs
      /\ job.inputs[k] \in Input /\ job.inputs[k].name \in Names
  BY <1>1, JobFacts DEF Input
<1>4. Good(job.inputs[k])' = Good(job.inputs[k]) /\ Target(job.inputs[k])' = Target(job.inputs[k])
  BY DEF Good, Target
<1>5. CASE job.inputs[k].name = Current.name
  <2>1. job.inputs[k] = Current
    BY <1>1, <1>3, <1>5, JobFacts DEF Current
  <2> QED
    BY <1>4, <2>1 DEF Truth
<1>6. CASE job.inputs[k].name # Current.name
  <2>1. Truth(job.inputs[k])
    BY <1>1, <1>3, <1>6 DEF Files, Running, Current
  <2> QED
    BY <1>3, <1>4, <1>6, <2>1 DEF Truth
<1> QED
  BY <1>5, <1>6

\* While an input is in hand the files of the others keep still.
LEMMA StillInHand ==
  ASSUME Inv, Running, i <= Len(job.inputs), job' = job, i' = i, phase' # "next",
         \A n \in Names : n # Current.name \/ Target(Current) = NoFile
           => output'[n] = output[n] /\ marker'[n] = marker[n],
         Target(Current) # NoFile =>
           /\ marker'[Current.name] = "none"
           /\ phase' = "except" => output'[Current.name] \in {"partial", "whole"}
           /\ phase' \in {"opened", "try"} => output'[Current.name] = "partial"
           /\ phase' \in {"verify", "else"} => output'[Current.name] = "whole"
  PROVE  Files'
<1>1. Shape /\ Files /\ i \in Nat /\ Len(job.inputs) \in Nat
  BY JobFacts DEF Inv
<1>2. Current' = Current /\ Target(Current)' = Target(Current)
  BY DEF Current, Target
<1>3. ASSUME NEW k \in 1 .. i - 1,
             job.inputs[k].name # Current.name \/ Target(Current) = NoFile
      PROVE  Truth(job.inputs[k])'
  <2>1. /\ k \in DOMAIN job.inputs
        /\ job.inputs[k] \in Input /\ job.inputs[k].name \in Names
    BY <1>1, JobFacts DEF Input
  <2>2. Good(job.inputs[k])' = Good(job.inputs[k])
        /\ Target(job.inputs[k])' = Target(job.inputs[k])
    BY DEF Good, Target
  <2>3. Truth(job.inputs[k])
    BY <1>1, <1>3 DEF Files, Running
  <2> QED
    BY <1>3, <2>1, <2>2, <2>3 DEF Truth
<1> QED
  BY <1>2, <1>3 DEF Files

\* Every step leaves the files of the inputs settled so far as they should be.
LEMMA FilesStep == Inv /\ [Next]_vars => Files'
<1> SUFFICES ASSUME Inv, [Next]_vars PROVE Files'
  OBVIOUS
<1>0. Shape /\ InHand /\ Files /\ Len(job.inputs) \in Nat /\ i \in Nat
  BY JobFacts DEF Inv
<1>1. job' = job
  BY JobKept
<1>2. i <= Len(job.inputs) => Current.name \in Names
  BY <1>0, CurrentFacts
<1>3. CASE Skip
  BY <1>1, <1>3, Settled DEF Skip, AtInput, Advance, files
<1>4. CASE UseStdout
  <2>1. Running /\ i <= Len(job.inputs) /\ i' = i /\ phase' = "try" /\ UNCHANGED files
        /\ Target(Current) = NoFile
    BY <1>4 DEF UseStdout, AtInput
  <2> QED
    BY <1>1, <2>1, StillInHand DEF files
<1>5. CASE Open
  BY <1>0, <1>1, <1>2, <1>5, StillInHand DEF Open, AtInput, Shape
<1>6. CASE Enter \/ DecompileRaises \/ Verify \/ VerifyRaises \/ VerifyStdout
  <2>1. /\ Running /\ i' = i /\ UNCHANGED files /\ i <= Len(job.inputs)
        /\ \/ phase = "opened" /\ phase' = "try"
           \/ phase = "try" /\ phase' = "except"
           \/ phase = "verify" /\ phase' \in {"else", "except"}
    BY <1>0, <1>6 DEF Enter, DecompileRaises, Verify, VerifyRaises, VerifyStdout, InHand
  <2> QED
    BY <1>0, <1>1, <2>1, StillInHand DEF files, Files, Running
<1>7. CASE Decompile
  <2>1. /\ Running /\ i' = i /\ marker' = marker /\ i <= Len(job.inputs)
        /\ phase = "try" /\ phase' \in {"else", "verify"} /\ output' = Written
    BY <1>0, <1>7 DEF Decompile, InHand
  <2>2. /\ \A n \in Names : n # Current.name \/ Target(Current) = NoFile => output'[n] = output[n]
        /\ Target(Current) # NoFile => output'[Current.name] = "whole"
    BY <1>0, <1>2, <2>1 DEF Written, Shape
  <2> QED
    BY <1>0, <1>1, <2>1, <2>2, StillInHand DEF Files, Running
<1>8. ASSUME Rename, i <= Len(job.inputs)
      PROVE  /\ \A n \in Names : n # Current.name \/ Target(Current) = NoFile
                  => output'[n] = output[n] /\ marker'[n] = marker[n]
             /\ Target(Current) # NoFile /\ output[Current.name] # "none" =>
                  output'[Current.name] = "none" /\ marker'[Current.name] = output[Current.name]
  BY <1>0, <1>2, <1>8 DEF Rename, files, Shape
<1>9. CASE Record
  <2>1. /\ Running /\ i <= Len(job.inputs) /\ i' = i + 1 /\ phase = "except" /\ phase' = "next"
        /\ Rename /\ ~Good(Current)
    BY <1>0, <1>9 DEF Record, Advance, InHand
  <2> QED
    BY <1>0, <1>1, <1>8, <2>1, Settled DEF Files, Running
<1>10. CASE Settle
  <2>1. /\ Running /\ i <= Len(job.inputs) /\ i' = i + 1 /\ phase = "else" /\ phase' = "next"
        /\ Target(Current) # NoFile => output[Current.name] = "whole" /\ marker[Current.name] = "none"
    BY <1>0, <1>10 DEF Settle, Advance, InHand, Files, Running
  <2>2. CASE badCheck
    <3>1. Rename /\ ~Good(Current)
      BY <1>0, <1>10, <2>1, <2>2 DEF Settle, InHand
    <3> QED
      BY <1>1, <1>8, <2>1, <3>1, Settled
  <2>3. CASE ~badCheck
    <3>1. UNCHANGED files /\ Good(Current)
      BY <1>0, <1>10, <2>1, <2>3 DEF Settle, InHand
    <3> QED
      BY <1>1, <2>1, <3>1, Settled DEF files
  <2> QED
    BY <2>2, <2>3
<1>11. CASE OpenRaises \/ ReportRaises \/ Interrupt \/ InterruptOutside
  BY <1>11 DEF OpenRaises, ReportRaises, Interrupt, InterruptOutside, Files
<1>12. CASE Finish \/ UNCHANGED vars
  <2>1. /\ UNCHANGED <<i, phase, files>>
        /\ outcome' \in {"running", "done"} => outcome \in {"running", "done"}
    BY <1>12 DEF Finish, Running, vars
  <2>2. Current' = Current /\ \A x : Target(x)' = Target(x) /\ Good(x)' = Good(x)
    BY <1>1, <2>1 DEF Current, Target, Good
  <2>3. \A k : Truth(job.inputs[k])' <=> Truth(job.inputs[k])
    BY <1>1, <2>1, <2>2 DEF Truth, files
  <2> QED
    BY <1>0, <1>1, <2>1, <2>2, <2>3 DEF Files, files
<1> QED
  BY <1>3, <1>4, <1>5, <1>6, <1>7, <1>9, <1>10, <1>11, <1>12, NextIsSteps DEF Steps

\* The invariant of the batch loop.
LEMMA InvHolds == Spec => []Inv
<1>1. Inv /\ [Next]_vars => Inv'
  BY ShapeStep, InHandStep, BooksStep, FilesStep, PartialStep, EndingStep DEF Inv
<1> QED
  BY InitInv, <1>1, PTL DEF Spec

\* The loop never leaves its inputs and counts each at most once.
THEOREM TypeCorrect == Spec => []TypeOK
<1>1. Inv => TypeOK
  BY JobFacts DEF Inv, Shape, InHand, Books, TypeOK
<1> QED
  BY InvHolds, <1>1, PTL

\* Between two inputs of any batch each earlier one is in one counter, and the
\* okay ones less the refuted ones are those that really are good.
THEOREM BooksBalance == Spec => []CountsAddUp
<1>1. Inv => CountsAddUp
  BY JobFacts DEF Inv, Shape, Books, GoodBefore, CountsAddUp
<1> QED
  BY InvHolds, <1>1, PTL

\* main_bin exits with 0 only if every input of the batch was recovered and passed.
THEOREM ExitIsHonest == Spec => []ExitTellsAll
<1>1. Inv => ExitTellsAll
  BY JobFacts DEF Inv, Shape, Books, Counted, Ending, ExitTellsAll
<1> QED
  BY InvHolds, <1>1, PTL

\* After a complete batch the files tell good inputs from bad ones, also when an
\* input was given twice and whatever files were there before.
THEOREM FilesAreHonest == Spec => []MarkersTellTheTruth
<1>1. Inv => MarkersTellTheTruth
  BY JobFacts DEF Inv, Shape, Files, Truth, Ending, MarkersTellTheTruth
<1> QED
  BY InvHolds, <1>1, PTL

\* However the batch ends, no output that was cut short keeps the name of a good
\* one, but for the output in hand when Ctrl-C finds no handler.
THEOREM NoPartialIsLeft == Spec => []NoPartialOutput
<1>1. Inv => NoPartialOutput
  BY DEF Inv, Shape, Ending, Partial, NoPartialOutput
<1> QED
  BY InvHolds, <1>1, PTL

\* Nothing but an output that cannot be opened, or a standard output that was
\* closed by a verification, ends the batch before its last input.
THEOREM FailuresAreContained == Spec => []EndsEarlyOnlyByOutput
<1>1. Inv => EndsEarlyOnlyByOutput
  BY DEF Inv, Ending
<1> QED
  BY InvHolds, <1>1, PTL
=============================================================================
