--------------------------- MODULE CommandCapture ---------------------------
(***************************************************************************)
(* runProgressCommand in internal/lab/run.go, through which every context  *)
(* capture calls az.  Standard output and standard error go through two    *)
(* activityWriters into one bytes.Buffer, and because the two writers are  *)
(* different values os/exec gives each a copying goroutine: their writes   *)
(* to the buffer are a data race.                                          *)
(*                                                                         *)
(* A write is three steps, as in the library's Buffer: the length is read, *)
(* the buffer is resliced, and the bytes are copied to where the length    *)
(* was.  A write that overlaps another may also copy into the array that   *)
(* the other has just replaced, and the copy is lost.  Chunks are numbered *)
(* in each stream; a chunk takes one cell of the buffer.                   *)
(***************************************************************************)
EXTENDS Integers, Sequences

CONSTANTS
  MaxChunks    \* what a stream carries at most

ASSUME MaxChunksAssumption == MaxChunks \in Nat

Streams == {"stdout", "stderr"}
OtherStream(s) == IF s = "stdout" THEN "stderr" ELSE "stdout"
Empty == [stream |-> "stdout", n |-> 0]     \* a byte nobody has copied yet
Chunk == [stream : Streams, n : 0..MaxChunks]

VARIABLES
  child,      \* "none", "running" or "ended"
  printed,    \* chunks written to each stream
  copied,     \* chunks each copier has taken from its pipe
  stage,      \* where a copier stands in Buffer.Write
  at,         \* the length it has read
  cells,      \* the array of the buffer
  length,     \* len(buf)
  raced,      \* the write in progress overlaps another
  overlap,    \* history: two writes overlapped
  waitCh,     \* command.Wait() has been received
  output      \* what is returned

commandVars == <<child, printed, copied, stage, at, cells, length, raced, overlap, waitCh,
          output>>

race == <<raced, overlap>>

Cells == 1..2 * MaxChunks

CommandTypeOK ==
  /\ child \in {"none", "running", "ended"}
  /\ printed \in [Streams -> 0..MaxChunks] /\ copied \in [Streams -> 0..MaxChunks]
  /\ stage \in [Streams -> {"read", "length", "reslice", "copy"}]
  /\ at \in [Streams -> 0..2 * MaxChunks]
  /\ cells \in [Cells -> Chunk] /\ length \in 0..2 * MaxChunks
  /\ raced \in [Streams -> BOOLEAN] /\ overlap \in BOOLEAN
  /\ waitCh \in {"empty", "ready", "received", "panic"}
  /\ output \in Seq(Chunk)

CommandInit ==
  /\ child = "none" /\ printed = [s \in Streams |-> 0] /\ copied = [s \in Streams |-> 0]
  /\ stage = [s \in Streams |-> "read"] /\ at = [s \in Streams |-> 0]
  /\ cells = [c \in Cells |-> Empty] /\ length = 0
  /\ raced = [s \in Streams |-> FALSE] /\ overlap = FALSE /\ waitCh = "empty" /\ output = <<>>

Start ==
  /\ child = "none" /\ child' = "running"
  /\ UNCHANGED <<printed, copied, stage, at, cells, length, race, waitCh, output>>

Emit(s) ==
  /\ child = "running" /\ printed[s] < MaxChunks
  /\ printed' = [printed EXCEPT ![s] = @ + 1]
  /\ UNCHANGED <<child, copied, stage, at, cells, length, race, waitCh, output>>

Exit ==
  /\ child = "running" /\ child' = "ended"
  /\ UNCHANGED <<printed, copied, stage, at, cells, length, race, waitCh, output>>

-----------------------------------------------------------------------------
(* The copier of a stream: activityWriter.Write, then Buffer.Write.        *)

(* Mutant: nobody empties the pipe of standard error.                      *)
ReadPipe_StdoutOnly(s) ==
  /\ s = "stdout" /\ stage[s] = "read" /\ copied[s] < printed[s] /\ waitCh # "panic"
  /\ copied' = [copied EXCEPT ![s] = @ + 1]
  /\ stage' = [stage EXCEPT ![s] = "length"]
  /\ UNCHANGED <<child, printed, at, cells, length, race, waitCh, output>>

ReadPipe(s) ==
  /\ stage[s] = "read" /\ copied[s] < printed[s] /\ waitCh # "panic"
  /\ copied' = [copied EXCEPT ![s] = @ + 1]
  /\ stage' = [stage EXCEPT ![s] = "length"]
  /\ LET both == stage[OtherStream(s)] # "read" IN
       /\ overlap' = (overlap \/ both)
       /\ raced' = [raced EXCEPT ![s] = both, ![OtherStream(s)] = @ \/ both]
  /\ UNCHANGED <<child, printed, at, cells, length, waitCh, output>>

ReadLength(s) ==
  /\ stage[s] = "length" /\ waitCh # "panic"
  /\ at' = [at EXCEPT ![s] = length]
  /\ stage' = [stage EXCEPT ![s] = "reslice"]
  /\ UNCHANGED <<child, printed, copied, cells, length, race, waitCh, output>>

(* A longer array holds what the old one held up to the length that was read. *)
Reslice(s) ==
  /\ stage[s] = "reslice" /\ waitCh # "panic"
  /\ length' = at[s] + 1
  /\ stage' = [stage EXCEPT ![s] = "copy"]
  /\ UNCHANGED <<child, printed, copied, at, cells, race, waitCh, output>>

(* Slicing past a length that the other writer has cut back panics.        *)
Copy(s) ==
  /\ stage[s] = "copy" /\ waitCh # "panic"
  /\ stage' = [stage EXCEPT ![s] = "read"]
  /\ IF at[s] > length
     THEN waitCh' = "panic" /\ UNCHANGED cells
     ELSE /\ UNCHANGED waitCh
          /\ \/ cells' = [cells EXCEPT ![at[s] + 1] = [stream |-> s, n |-> copied[s]]]
             \/ raced[s] /\ UNCHANGED cells
  /\ UNCHANGED <<child, printed, copied, at, length, race, output>>

Drained(s) == stage[s] = "read" /\ copied[s] = printed[s]

(* Mutant: the process is waited for, not its copiers.                     *)
WaitReturns_ProcessOnly ==
  /\ child = "ended" /\ waitCh = "empty" /\ waitCh' = "ready"
  /\ UNCHANGED <<child, printed, copied, stage, at, cells, length, race, output>>

(* command.Wait() waits for both copiers.                                  *)
WaitReturns ==
  /\ child = "ended" /\ waitCh = "empty" /\ \A s \in Streams : Drained(s)
  /\ waitCh' = "ready"
  /\ UNCHANGED <<child, printed, copied, stage, at, cells, length, race, output>>

runProgressCommand ==
  /\ waitCh = "ready" /\ waitCh' = "received"
  /\ output' = [c \in 1..length |-> cells[c]]
  /\ UNCHANGED <<child, printed, copied, stage, at, cells, length, race>>

Run == \/ Start \/ WaitReturns \/ runProgressCommand
       \/ \E s \in Streams : ReadPipe(s) \/ ReadLength(s) \/ Reslice(s) \/ Copy(s)

CommandNext == Run \/ Exit \/ \E s \in Streams : Emit(s)

(* The program and the copiers are scheduled, and az ends: no limit of the *)
(* program ends it.                                                        *)
CommandSpec == CommandInit /\ [][CommandNext]_commandVars /\ WF_commandVars(Run) /\ WF_commandVars(Exit)

-----------------------------------------------------------------------------
StreamOf(s) == [i \in 1..printed[s] |-> [stream |-> s, n |-> i]]

(* What az printed is returned whole, each stream in its order, unless two *)
(* writes overlapped: nothing is cut short by its exit, and no chunk is    *)
(* lost or doubled while the streams take turns.  An az that prints        *)
(* nothing on standard error has no overlapping write: what is parsed is   *)
(* what it printed.                                                        *)
CaptureIsWhole ==
  waitCh = "received" =>
    /\ ~overlap =>
         /\ Len(output) = printed["stdout"] + printed["stderr"]
         /\ \A s \in Streams : \A n \in 1..printed[s] :
                \E c \in DOMAIN output : output[c] = [stream |-> s, n |-> n]
         /\ \A c, d \in DOMAIN output :
                c < d /\ output[c].stream = output[d].stream => output[c].n < output[d].n
    /\ printed["stderr"] = 0 => output = StreamOf("stdout")

(* The call ends, by its return or by a panic.                             *)
CaptureEnds == <>(waitCh \in {"received", "panic"})
=============================================================================
