-------------------------- MODULE Captures_proofs --------------------------
(***************************************************************************)
(* What a learner records is checked against what Azure was made to hold.  *)
(*                                                                         *)
(* The first part is about runProgressCommand (CommandCapture), through    *)
(* which every context capture calls az: what it returns, however many     *)
(* chunks az prints and in whatever order the copiers run.                 *)
(*                                                                         *)
(* The second part is about the foothold (Foothold): what the validator    *)
(* accepts and rejects, for every tenant, subscription and payload.  Truth *)
(* is accepted because each rule of the validator, run over what Azure     *)
(* holds, lists what the findings list; a pass means proven because each   *)
(* rule, run over a passed file, finds the row that names the control.     *)
(***************************************************************************)
EXTENDS CommandCapture, Foothold, SequenceTheorems, FiniteSetTheorems,
        WellFoundedInduction, TLAPS

(* Part 1: runProgressCommand *)

Types ==
  /\ child \in {"none", "running", "ended"}
  /\ printed \in [Streams -> 0..MaxChunks] /\ copied \in [Streams -> Nat]
  /\ stage \in [Streams -> {"read", "length", "reslice", "copy"}]
  /\ at \in [Streams -> Nat] /\ length \in Nat
  /\ cells \in [Cells -> [stream : Streams, n : Nat]]
  /\ raced \in [Streams -> BOOLEAN] /\ overlap \in BOOLEAN
  /\ waitCh \in {"empty", "ready", "received", "panic"}

(* A copier that is not at its pipe has a chunk in hand.                   *)
Begun ==
  /\ \A s \in Streams : copied[s] <= printed[s] /\ (stage[s] # "read" => copied[s] > 0)
  /\ overlap => copied["stderr"] > 0

Alone ==
  ~overlap => /\ stage["stdout"] = "read" \/ stage["stderr"] = "read"
              /\ \A s \in Streams : ~raced[s]

Settled == waitCh \in {"ready", "received"} => child = "ended" /\ \A s \in Streams : Drained(s)

Returned == waitCh = "received" => output = [c \in 1..length |-> cells[c]]

(* The chunks of a stream that are in the buffer, and of both.             *)
Taken(s) == IF stage[s] = "read" THEN copied[s] ELSE copied[s] - 1
Written == Taken("stdout") + Taken("stderr")

(* Where a write in progress stands.                                       *)
InPlace ==
  /\ \A s \in Streams : /\ stage[s] \in {"reslice", "copy"} => at[s] = Written
                        /\ stage[s] = "copy" => length = Written + 1
  /\ (\A s \in Streams : stage[s] # "copy") => length = Written

(* The buffer up to there holds what was taken, each stream in its order.  *)
Merged ==
  /\ \A c \in 1..Written : \E s \in Streams : \E n \in 1..Taken(s) :
       cells[c] = [stream |-> s, n |-> n]
  /\ \A s \in Streams : \A n \in 1..Taken(s) :
       \E c \in 1..Written : cells[c] = [stream |-> s, n |-> n]
  /\ \A c, d \in 1..Written :
       c < d /\ cells[c].stream = cells[d].stream => cells[c].n < cells[d].n
  /\ copied["stderr"] = 0 => \A c \in 1..Written : cells[c] = [stream |-> "stdout", n |-> c]

Whole == ~overlap => InPlace /\ Merged

CaptureInv == Types /\ Begun /\ Alone /\ Settled /\ Returned /\ Whole

LEMMA CaptureInit == CommandInit => CaptureInv
<1> SUFFICES ASSUME CommandInit PROVE CaptureInv
  OBVIOUS
<1>1. Types
  <2>1. Empty \in [stream : Streams, n : Nat]
    BY DEF Empty, Streams
  <2>2. cells \in [Cells -> [stream : Streams, n : Nat]]
    BY <2>1 DEF CommandInit
  <2>3. raced \in [Streams -> BOOLEAN] /\ overlap \in BOOLEAN
    BY DEF CommandInit
  <2>4. QED
    BY <2>2, <2>3, MaxChunksAssumption DEF CommandInit, Types
<1>2. Begun /\ Alone /\ Settled /\ Returned
  BY DEF CommandInit, Begun, Alone, Settled, Returned, Streams
<1>3. (\A s \in Streams : Taken(s) = 0) /\ Written = 0
  BY DEF CommandInit, Taken, Written, Streams
<1>4. InPlace
  BY <1>3 DEF CommandInit, InPlace
<1>5. Merged
  BY <1>3 DEF Merged
<1>6. QED
  BY <1>1, <1>2, <1>4, <1>5 DEF CaptureInv, Whole

LEMMA TakenTypes ==
  ASSUME Types, Begun
  PROVE  /\ \A s \in Streams : Taken(s) \in Nat /\ Taken(s) <= copied[s]
         /\ Written \in Nat
         /\ "stdout" \in Streams /\ "stderr" \in Streams
<1>1. \A s \in Streams : Taken(s) \in Nat /\ Taken(s) <= copied[s]
  BY DEF Types, Begun, Taken
<1>2. QED
  BY <1>1 DEF Written, Streams

(* A step that leaves the cells alone and what is taken of each stream     *)
(* leaves the buffer merged.                                               *)
LEMMA StillMerged ==
  ASSUME Merged, UNCHANGED cells, \A s \in Streams : Taken(s)' = Taken(s),
         copied'["stderr"] = 0 => copied["stderr"] = 0, Types
  PROVE  Merged' /\ Written' = Written
<1>1. Written' = Written
  BY DEF Written, Streams
<1>2. \A c \in 1..Written : \E s \in Streams : \E n \in 1..(Taken(s)') :
        cells'[c] = [stream |-> s, n |-> n]
  BY DEF Merged
<1>3. QED
  BY <1>1, <1>2 DEF Merged

(* The child, the waiting and the return touch neither copier nor buffer.  *)
LEMMA BufferUntouched ==
  ASSUME CaptureInv, UNCHANGED <<copied, stage, at, cells, length, race>>
  PROVE  Alone' /\ Whole'
<1>1. UNCHANGED <<copied, stage, at, cells, length, raced, overlap>>
  BY DEF race
<1>2. \A s \in Streams : Taken(s)' = Taken(s)
  BY <1>1 DEF Taken
<1>3. Alone'
  BY <1>1 DEF CaptureInv, Alone
<1>4. Whole'
  <2>1. SUFFICES ASSUME ~overlap PROVE InPlace' /\ Merged'
    BY <1>1 DEF Whole
  <2>2. InPlace /\ Merged
    BY <2>1 DEF CaptureInv, Whole
  <2>3. Merged' /\ Written' = Written
    BY <1>1, <1>2, <2>2, StillMerged DEF CaptureInv
  <2>4. QED
    BY <1>1, <2>2, <2>3 DEF InPlace
<1>5. QED
  BY <1>3, <1>4

LEMMA StartStep == CaptureInv /\ Start => CaptureInv'
<1> SUFFICES ASSUME CaptureInv, Start PROVE CaptureInv'
  OBVIOUS
<1>1. Alone' /\ Whole'
  BY BufferUntouched DEF Start
<1>2. Types' /\ Begun' /\ Settled' /\ Returned'
  BY DEF CaptureInv, Start, Types, Begun, Settled, Returned, race
<1>3. QED
  BY <1>1, <1>2 DEF CaptureInv

LEMMA ExitStep == CaptureInv /\ Exit => CaptureInv'
<1> SUFFICES ASSUME CaptureInv, Exit PROVE CaptureInv'
  OBVIOUS
<1>1. Alone' /\ Whole'
  BY BufferUntouched DEF Exit
<1>2. Types' /\ Begun' /\ Settled' /\ Returned'
  BY DEF CaptureInv, Exit, Types, Begun, Settled, Returned, race
<1>3. QED
  BY <1>1, <1>2 DEF CaptureInv

LEMMA EmitStep == ASSUME CaptureInv, NEW s \in Streams, Emit(s) PROVE CaptureInv'
<1>1. Alone' /\ Whole'
  BY BufferUntouched DEF Emit
<1>2. printed[s] \in 0..MaxChunks /\ printed[s] < MaxChunks /\ MaxChunks \in Nat
      /\ printed' = [printed EXCEPT ![s] = printed[s] + 1] /\ child = "running"
      /\ UNCHANGED <<child, copied, stage, at, cells, length, raced, overlap, waitCh, output>>
  BY MaxChunksAssumption DEF CaptureInv, Types, Emit, race
<1>3. printed' \in [Streams -> 0..MaxChunks] /\ \A x \in Streams : printed[x] <= printed'[x]
  BY <1>2 DEF CaptureInv, Types
<1>4. Types'
  BY <1>2, <1>3 DEF CaptureInv, Types
<1>5. Begun'
  <2>1. \A x \in Streams : copied[x] \in Nat /\ printed[x] \in Nat /\ printed'[x] \in Nat
                             /\ copied[x] <= printed[x] /\ printed[x] <= printed'[x]
    BY <1>3 DEF CaptureInv, Types, Begun
  <2>2. \A x \in Streams : copied'[x] <= printed'[x]
    BY <1>2, <2>1
  <2>3. QED
    BY <1>2, <2>2 DEF CaptureInv, Begun
<1>6. Settled' /\ Returned'
  BY <1>2 DEF CaptureInv, Settled, Returned
<1>7. QED
  BY <1>1, <1>4, <1>5, <1>6 DEF CaptureInv

LEMMA WaitStep == CaptureInv /\ WaitReturns => CaptureInv'
<1> SUFFICES ASSUME CaptureInv, WaitReturns PROVE CaptureInv'
  OBVIOUS
<1>1. Alone' /\ Whole'
  BY BufferUntouched DEF WaitReturns
<1>2. Types' /\ Begun' /\ Settled' /\ Returned'
  BY DEF CaptureInv, WaitReturns, Types, Begun, Settled, Returned, Drained, race
<1>3. QED
  BY <1>1, <1>2 DEF CaptureInv

LEMMA ReturnStep == CaptureInv /\ runProgressCommand => CaptureInv'
<1> SUFFICES ASSUME CaptureInv, runProgressCommand PROVE CaptureInv'
  OBVIOUS
<1>1. Alone' /\ Whole'
  BY BufferUntouched DEF runProgressCommand
<1>2. Types' /\ Begun' /\ Settled' /\ Returned'
  BY DEF CaptureInv, runProgressCommand, Types, Begun, Settled, Returned, Drained, race
<1>3. QED
  BY <1>1, <1>2 DEF CaptureInv

LEMMA CaptureStutter == CaptureInv /\ UNCHANGED commandVars => CaptureInv'
<1> SUFFICES ASSUME CaptureInv, UNCHANGED commandVars PROVE CaptureInv'
  OBVIOUS
<1>1. Alone' /\ Whole'
  BY BufferUntouched DEF commandVars, race
<1>2. Types' /\ Begun' /\ Settled' /\ Returned'
  BY DEF CaptureInv, commandVars, Types, Begun, Settled, Returned, Drained
<1>3. QED
  BY <1>1, <1>2 DEF CaptureInv

-----------------------------------------------------------------------------
(* The copiers *)

LEMMA ReadPipeStep == ASSUME CaptureInv, NEW s \in Streams, ReadPipe(s) PROVE CaptureInv'
<1> DEFINE both == stage[OtherStream(s)] # "read"
<1>1. /\ stage[s] = "read" /\ copied[s] < printed[s]
      /\ copied' = [copied EXCEPT ![s] = copied[s] + 1] /\ stage' = [stage EXCEPT ![s] = "length"]
      /\ UNCHANGED <<child, printed, at, cells, length, waitCh, output>>
      /\ overlap' = (overlap \/ both)
  BY DEF ReadPipe
<1>2. /\ OtherStream(s) \in Streams /\ OtherStream(s) # s /\ \A x \in Streams : x = s \/ x = OtherStream(s)
      /\ raced' = [raced EXCEPT ![s] = both, ![OtherStream(s)] = raced[OtherStream(s)] \/ both]
  BY DEF ReadPipe, OtherStream, Streams
<1>3. copied[s] \in Nat /\ printed[s] \in Nat /\ raced[OtherStream(s)] \in BOOLEAN
  BY <1>2 DEF CaptureInv, Types
<1>4. Types'
  <2>1. copied' \in [Streams -> Nat] /\ stage' \in [Streams -> {"read", "length", "reslice", "copy"}]
    BY <1>1, <1>3 DEF CaptureInv, Types
  <2>2. both \in BOOLEAN
    OBVIOUS
  <2> HIDE DEF both
  <2>3. raced' \in [Streams -> BOOLEAN]
    BY <1>2, <1>3, <2>2 DEF CaptureInv, Types
  <2>4. overlap' \in BOOLEAN
    BY <1>1, <2>2 DEF CaptureInv, Types
  <2>5. QED
    BY <1>1, <2>1, <2>3, <2>4 DEF CaptureInv, Types
<1>5. Begun'
  <2>1. ASSUME NEW x \in Streams
        PROVE  copied'[x] <= printed'[x] /\ (stage'[x] # "read" => copied'[x] > 0)
    BY <1>1, <1>3 DEF CaptureInv, Types, Begun
  <2>2. ASSUME overlap' PROVE copied'["stderr"] > 0
    <3>1. CASE overlap
      <4>1. copied["stderr"] > 0 /\ copied["stderr"] \in Nat
        BY <3>1 DEF CaptureInv, Begun, Types, Streams
      <4>2. QED
        BY <1>1, <1>3, <4>1 DEF CaptureInv, Types
    <3>2. CASE both
      <4>1. copied'[s] > 0 /\ copied'[OtherStream(s)] > 0
        BY <1>1, <1>2, <1>3, <3>2 DEF CaptureInv, Types, Begun
      <4>2. QED
        BY <1>2, <4>1 DEF Streams
    <3>3. QED
      BY <1>1, <2>2, <3>1, <3>2
  <2>3. QED
    BY <2>1, <2>2 DEF Begun
<1>6. Alone'
  <2>1. SUFFICES ASSUME ~overlap'
                 PROVE  /\ stage'["stdout"] = "read" \/ stage'["stderr"] = "read"
                        /\ \A x \in Streams : ~raced'[x]
    BY DEF Alone
  <2>2. ~overlap /\ ~both
    BY <1>1, <2>1
  <2>3. stage'[OtherStream(s)] = "read"
    BY <1>1, <1>2, <2>2 DEF CaptureInv, Types
  <2>4. ~raced[OtherStream(s)]
    BY <1>2, <2>2 DEF CaptureInv, Alone
  <2> HIDE DEF both
  <2>5. raced'[s] = both /\ raced'[OtherStream(s)] = (raced[OtherStream(s)] \/ both)
    BY <1>2 DEF CaptureInv, Types
  <2>6. QED
    BY <1>2, <2>2, <2>3, <2>4, <2>5 DEF Streams
<1>7. Settled' /\ Returned'
  BY <1>1, <1>3 DEF CaptureInv, Settled, Returned, Drained
<1>8. Whole'
  <2>1. SUFFICES ASSUME ~overlap' PROVE InPlace' /\ Merged'
    BY DEF Whole
  <2>2. ~overlap /\ ~both /\ InPlace /\ Merged
    BY <1>1, <2>1 DEF CaptureInv, Whole
  <2>3. \A x \in Streams : Taken(x)' = Taken(x)
    BY <1>1, <1>3 DEF CaptureInv, Types, Taken
  <2>4. copied'["stderr"] = 0 => copied["stderr"] = 0
    BY <1>1, <1>3 DEF CaptureInv, Types
  <2>5. Merged' /\ Written' = Written
    BY <1>1, <2>2, <2>3, <2>4, StillMerged DEF CaptureInv
  <2>6. InPlace'
    BY <1>1, <1>2, <2>2, <2>5 DEF CaptureInv, Types, InPlace
  <2>7. QED
    BY <2>5, <2>6
<1>9. QED
  BY <1>4, <1>5, <1>6, <1>7, <1>8 DEF CaptureInv

LEMMA ReadLengthStep == ASSUME CaptureInv, NEW s \in Streams, ReadLength(s) PROVE CaptureInv'
<1>1. /\ stage[s] = "length"
      /\ at' = [at EXCEPT ![s] = length] /\ stage' = [stage EXCEPT ![s] = "reslice"]
      /\ UNCHANGED <<child, printed, copied, cells, length, raced, overlap, waitCh, output>>
  BY DEF ReadLength, race
<1>2. Types' /\ Begun' /\ Settled' /\ Returned'
  BY <1>1 DEF CaptureInv, Types, Begun, Settled, Returned, Drained
<1>3. \A x \in Streams : stage'[x] = "read" <=> stage[x] = "read"
  BY <1>1 DEF CaptureInv, Types
<1>4. Alone'
  BY <1>1, <1>3 DEF CaptureInv, Alone, Streams
<1>5. Whole'
  <2>1. SUFFICES ASSUME ~overlap PROVE InPlace' /\ Merged'
    BY <1>1 DEF Whole
  <2>2. InPlace /\ Merged /\ \A x \in Streams \ {s} : stage[x] = "read"
    BY <1>1, <2>1 DEF CaptureInv, Whole, Alone, Streams
  <2>3. \A x \in Streams : Taken(x)' = Taken(x)
    BY <1>1, <1>3 DEF Taken
  <2>4. Merged' /\ Written' = Written
    BY <1>1, <2>2, <2>3, StillMerged DEF CaptureInv
  <2>5. length = Written
    <3>1. \A x \in Streams : stage[x] # "copy"
      BY <1>1, <2>2
    <3>2. QED
      BY <2>2, <3>1 DEF InPlace
  <2>6. InPlace'
    <3>1. at'[s] = Written /\ stage'[s] = "reslice"
      BY <1>1, <2>5 DEF CaptureInv, Types
    <3>2. \A x \in Streams \ {s} : stage'[x] = "read"
      BY <1>1, <2>2 DEF CaptureInv, Types
    <3>3. QED
      BY <1>1, <2>4, <2>5, <3>1, <3>2 DEF InPlace
  <2>7. QED
    BY <2>4, <2>6
<1>6. QED
  BY <1>2, <1>4, <1>5 DEF CaptureInv

LEMMA ResliceStep == ASSUME CaptureInv, NEW s \in Streams, Reslice(s) PROVE CaptureInv'
<1>1. /\ stage[s] = "reslice"
      /\ length' = at[s] + 1 /\ stage' = [stage EXCEPT ![s] = "copy"]
      /\ UNCHANGED <<child, printed, copied, at, cells, raced, overlap, waitCh, output>>
  BY DEF Reslice, race
<1>2. waitCh \notin {"ready", "received"}
  BY <1>1 DEF CaptureInv, Settled, Drained
<1>3. Types' /\ Begun' /\ Settled' /\ Returned'
  BY <1>1, <1>2 DEF CaptureInv, Types, Begun, Settled, Returned
<1>4. \A x \in Streams : stage'[x] = "read" <=> stage[x] = "read"
  BY <1>1 DEF CaptureInv, Types
<1>5. Alone'
  BY <1>1, <1>4 DEF CaptureInv, Alone, Streams
<1>6. Whole'
  <2>1. SUFFICES ASSUME ~overlap PROVE InPlace' /\ Merged'
    BY <1>1 DEF Whole
  <2>2. InPlace /\ Merged /\ \A x \in Streams \ {s} : stage[x] = "read"
    BY <1>1, <2>1 DEF CaptureInv, Whole, Alone, Streams
  <2>3. \A x \in Streams : Taken(x)' = Taken(x)
    BY <1>1, <1>4 DEF Taken
  <2>4. Merged' /\ Written' = Written
    BY <1>1, <2>2, <2>3, StillMerged DEF CaptureInv
  <2>5. InPlace'
    <3>1. at[s] = Written
      BY <1>1, <2>2 DEF InPlace
    <3>2. stage'[s] = "copy" /\ \A x \in Streams \ {s} : stage'[x] = "read"
      BY <1>1, <2>2 DEF CaptureInv, Types
    <3>3. QED
      BY <1>1, <2>4, <3>1, <3>2 DEF InPlace
  <2>6. QED
    BY <2>4, <2>5
<1>7. QED
  BY <1>3, <1>5, <1>6 DEF CaptureInv

(* The chunk in hand goes where the other stream's do not lie.             *)
LEMMA CopyMerges ==
  ASSUME CaptureInv, NEW s \in Streams, Copy(s), ~overlap
  PROVE  InPlace' /\ Merged'
<1> DEFINE here == Written + 1
           chunk == [stream |-> s, n |-> copied[s]]
<1>1. /\ stage[s] = "copy" /\ stage' = [stage EXCEPT ![s] = "read"]
      /\ UNCHANGED <<copied, at, length>>
  BY DEF Copy
<1>2. /\ InPlace /\ Merged /\ ~raced[s] /\ \A x \in Streams \ {s} : stage[x] = "read"
      /\ at[s] = Written /\ length = here
  BY <1>1 DEF CaptureInv, Whole, Alone, Streams, InPlace
<1>3. /\ Written \in Nat /\ \A x \in Streams : Taken(x) \in Nat
      /\ Taken(s) = copied[s] - 1 /\ copied[s] \in Nat
  BY <1>1, TakenTypes DEF CaptureInv, Taken, Types
<1>4. cells' = [cells EXCEPT ![here] = chunk]
  BY <1>2, <1>3 DEF Copy
<1>5. /\ Taken(s)' = copied[s] /\ \A x \in Streams \ {s} : Taken(x)' = Taken(x)
      /\ \A x \in Streams : stage'[x] = "read"
  BY <1>1, <1>2 DEF CaptureInv, Types, Taken
<1>6. Written' = here
  BY <1>3, <1>5 DEF Written, Streams
<1>7. here \in Cells
  <2>1. \A x \in Streams : Taken(x) <= MaxChunks /\ Taken(s) < MaxChunks
    <3>1. \A x \in Streams : copied[x] <= MaxChunks
      BY MaxChunksAssumption DEF CaptureInv, Types, Begun
    <3>2. \A x \in Streams : Taken(x) <= copied[x] /\ copied[x] \in Nat
      BY TakenTypes DEF CaptureInv, Types
    <3>3. QED
      BY <1>3, <3>1, <3>2, MaxChunksAssumption
  <2>2. here <= 2 * MaxChunks
    BY <1>3, <2>1, MaxChunksAssumption DEF Written, Streams
  <2>3. QED
    BY <1>3, <2>2, MaxChunksAssumption DEF Cells
<1>8. /\ cells'[here] = chunk
      /\ \A c \in 1..Written : cells'[c] = cells[c] /\ c # here
  BY <1>3, <1>4, <1>7 DEF CaptureInv, Types
<1>9. 1..here = (1..Written) \cup {here}
  BY <1>3
<1>10. InPlace'
  BY <1>1, <1>2, <1>5, <1>6 DEF InPlace
<1>11. Merged'
  <2>1. ASSUME NEW c \in 1..Written'
        PROVE  \E x \in Streams : \E n \in 1..(Taken(x)') : cells'[c] = [stream |-> x, n |-> n]
    <3>1. CASE c = here
      <4>1. copied[s] \in 1..(Taken(s)')
        BY <1>3, <1>5
      <4>2. QED
        BY <1>8, <3>1, <4>1
    <3>2. CASE c \in 1..Written
      <4>0. PICK x \in Streams : \E n \in 1..Taken(x) : cells[c] = [stream |-> x, n |-> n]
        BY <1>2, <3>2 DEF Merged
      <4>1. PICK n \in 1..Taken(x) : cells[c] = [stream |-> x, n |-> n]
        BY <4>0
      <4>2. n \in 1..(Taken(x)')
        BY <1>3, <1>5
      <4>3. QED
        BY <1>8, <3>2, <4>1, <4>2
    <3>3. QED
      BY <1>6, <1>9, <3>1, <3>2
  <2>2. ASSUME NEW x \in Streams, NEW n \in 1..(Taken(x)')
        PROVE  \E c \in 1..Written' : cells'[c] = [stream |-> x, n |-> n]
    <3>1. CASE n \in 1..Taken(x)
      <4>1. PICK c \in 1..Written : cells[c] = [stream |-> x, n |-> n]
        BY <1>2, <3>1 DEF Merged
      <4>2. QED
        BY <1>6, <1>8, <1>9, <4>1
    <3>2. CASE n \notin 1..Taken(x)
      <4>1. x = s /\ n = copied[s]
        BY <1>3, <1>5, <3>2
      <4>2. QED
        BY <1>3, <1>6, <1>8, <4>1
    <3>3. QED
      BY <3>1, <3>2
  <2>3. ASSUME NEW c \in 1..Written', NEW d \in 1..Written', c < d,
               cells'[c].stream = cells'[d].stream
        PROVE  cells'[c].n < cells'[d].n
    <3>1. c \in 1..Written
      BY <1>3, <1>6, <2>3
    <3>2. CASE d \in 1..Written
      BY <1>2, <1>8, <2>3, <3>1, <3>2 DEF Merged
    <3>3. CASE d = here
      <4>0. PICK x \in Streams : \E n \in 1..Taken(x) : cells[c] = [stream |-> x, n |-> n]
        BY <1>2, <3>1 DEF Merged
      <4>1. PICK n \in 1..Taken(x) : cells[c] = [stream |-> x, n |-> n]
        BY <4>0
      <4>2. x = s
        BY <1>8, <2>3, <3>1, <3>3, <4>1
      <4>3. n < copied[s]
        BY <1>3, <4>1, <4>2
      <4>4. QED
        BY <1>8, <3>1, <3>3, <4>1, <4>3
    <3>4. QED
      BY <1>6, <1>9, <3>2, <3>3
  <2>4. ASSUME copied["stderr"] = 0, NEW c \in 1..Written'
        PROVE  cells'[c] = [stream |-> "stdout", n |-> c]
    <3>1. s = "stdout"
      BY <1>1, <2>4 DEF CaptureInv, Begun, Streams
    <3>2. Taken("stderr") = 0 /\ Written = Taken("stdout")
      BY <1>2, <1>3, <2>4, <3>1 DEF Taken, Written, Streams
    <3>3. CASE c = here
      BY <1>3, <1>8, <3>1, <3>2, <3>3
    <3>4. CASE c \in 1..Written
      BY <1>2, <1>8, <2>4, <3>4 DEF Merged
    <3>5. QED
      BY <1>6, <1>9, <3>3, <3>4
  <2>5. QED
    BY <1>1, <2>1, <2>2, <2>3, <2>4 DEF Merged
<1>12. QED
  BY <1>10, <1>11

LEMMA CopyStep == ASSUME CaptureInv, NEW s \in Streams, Copy(s) PROVE CaptureInv'
<1>1. /\ stage[s] = "copy" /\ stage' = [stage EXCEPT ![s] = "read"]
      /\ UNCHANGED <<child, printed, copied, at, length, raced, overlap, output>>
      /\ waitCh' \in {"panic", waitCh}
      /\ cells' \in {cells, [cells EXCEPT ![at[s] + 1] = [stream |-> s, n |-> copied[s]]]}
  BY DEF Copy, race
<1>2. waitCh \notin {"ready", "received"} /\ waitCh' \notin {"ready", "received"}
  BY <1>1 DEF CaptureInv, Settled, Drained
<1>3. Types'
  <2>1. [stream |-> s, n |-> copied[s]] \in [stream : Streams, n : Nat]
    BY DEF CaptureInv, Types
  <2>2. cells' \in [Cells -> [stream : Streams, n : Nat]]
    BY <1>1, <2>1 DEF CaptureInv, Types
  <2>3. QED
    BY <1>1, <2>2 DEF CaptureInv, Types
<1>4. Begun' /\ Settled' /\ Returned'
  BY <1>1, <1>2 DEF CaptureInv, Types, Begun, Settled, Returned
<1>5. Alone'
  BY <1>1 DEF CaptureInv, Alone, Types, Streams
<1>6. Whole'
  BY <1>1, CopyMerges DEF Whole
<1>7. QED
  BY <1>3, <1>4, <1>5, <1>6 DEF CaptureInv

(* Unless two writes overlapped the buffer is a merge of the two streams,  *)
(* and nothing is returned before both copiers are done.                   *)
THEOREM CaptureInvariant == CommandSpec => []CaptureInv
<1>1. CaptureInv /\ [CommandNext]_commandVars => CaptureInv'
  BY StartStep, ExitStep, EmitStep, WaitStep, ReturnStep, CaptureStutter,
     ReadPipeStep, ReadLengthStep, ResliceStep, CopyStep DEF CommandNext, Run
<1>2. QED
  BY CaptureInit, <1>1, PTL DEF CommandSpec

LEMMA ReturnedWhole == CaptureInv => CaptureIsWhole
<1> SUFFICES ASSUME CaptureInv, waitCh = "received" PROVE CaptureIsWhole
  BY DEF CaptureIsWhole
<1>1. /\ \A s \in Streams : stage[s] = "read" /\ Taken(s) = printed[s] /\ printed[s] \in Nat
      /\ copied["stderr"] = printed["stderr"] /\ "stdout" \in Streams /\ "stderr" \in Streams
  BY MaxChunksAssumption DEF CaptureInv, Settled, Drained, Taken, Types, Streams
<1>2. output = [c \in 1..length |-> cells[c]] /\ length \in Nat
  BY DEF CaptureInv, Returned, Types
<1>3. ASSUME ~overlap
      PROVE  /\ length = printed["stdout"] + printed["stderr"]
             /\ Written = length /\ Merged
  BY <1>1, <1>3 DEF CaptureInv, Whole, InPlace, Written
<1>4. ASSUME ~overlap
      PROVE  /\ Len(output) = printed["stdout"] + printed["stderr"]
             /\ \A s \in Streams : \A n \in 1..printed[s] :
                  \E c \in DOMAIN output : output[c] = [stream |-> s, n |-> n]
             /\ \A c, d \in DOMAIN output :
                  c < d /\ output[c].stream = output[d].stream => output[c].n < output[d].n
  <2>1. DOMAIN output = 1..length /\ Len(output) = length
    BY <1>2
  <2>2. \A c \in 1..length : output[c] = cells[c]
    BY <1>2
  <2>3. \A s \in Streams : \A n \in 1..printed[s] :
          \E c \in 1..length : output[c] = [stream |-> s, n |-> n]
    <3>1. ASSUME NEW s \in Streams, NEW n \in 1..Taken(s)
          PROVE  \E c \in 1..length : output[c] = [stream |-> s, n |-> n]
      <4>1. PICK c \in 1..length : cells[c] = [stream |-> s, n |-> n]
        BY <1>3, <1>4 DEF Merged
      <4>2. QED
        BY <2>2, <4>1
    <3>2. QED
      BY <1>1, <3>1
  <2>4. \A c, d \in 1..length :
          c < d /\ output[c].stream = output[d].stream => output[c].n < output[d].n
    BY <1>3, <1>4, <2>2 DEF Merged
  <2>5. QED
    BY <1>3, <1>4, <2>1, <2>3, <2>4
<1>5. ASSUME printed["stderr"] = 0 PROVE output = StreamOf("stdout")
  <2>1. ~overlap
    BY <1>1, <1>5 DEF CaptureInv, Begun
  <2>2. length = printed["stdout"] /\ \A c \in 1..length : cells[c] = [stream |-> "stdout", n |-> c]
    BY <1>1, <1>3, <1>5, <2>1 DEF Merged
  <2>3. QED
    BY <1>2, <2>2 DEF StreamOf
<1>6. QED
  BY <1>4, <1>5 DEF CaptureIsWhole

(* CaptureIsWhole: what az printed is returned whole unless two writes to  *)
(* the shared buffer overlapped, and always when az prints no error.       *)
THEOREM CaptureStaysWhole == CommandSpec => []CaptureIsWhole
BY CaptureInvariant, ReturnedWhole, PTL

-----------------------------------------------------------------------------
(* Part 2: the foothold *)

-----------------------------------------------------------------------------
(* Sequences and numbers *)

LEMMA Least ==
  ASSUME NEW T, T \subseteq Nat, T # {}
  PROVE  \E x \in T : \A y \in T : x <= y
<1> DEFINE R == {ss \in Nat \X Nat : ss[1] < ss[2]}
<1>1. IsWellFoundedOn(R, Nat)
  BY NatLessThanWellFounded DEF OpToRel
<1> HIDE DEF R
<1>2. PICK x \in T : \A y \in T : ~ (<<y, x>> \in R)
  BY <1>1, WFMin
<1>3. \A y \in T : ~ (y < x)
  BY <1>2 DEF R
<1>4. QED
  BY <1>2, <1>3

LEMMA Greatest ==
  ASSUME NEW n \in Nat, NEW T, T \subseteq 1..n, T # {}
  PROVE  \E x \in T : \A y \in T : y <= x
<1> DEFINE D == {n - x : x \in T}
<1>1. D \subseteq Nat /\ D # {}
  <2>1. \A x \in T : n - x \in Nat
    OBVIOUS
  <2>2. QED
    BY <2>1
<1>2. PICK d \in D : \A e \in D : d <= e
  BY <1>1, Least
<1>3. PICK x \in T : d = n - x
  BY <1>2
<1>4. \A y \in T : n - x <= n - y
  BY <1>2, <1>3
<1>5. QED
  BY <1>4

(* A listing of a finite set leaves nobody out.                            *)
LEMMA ListsAll ==
  ASSUME NEW S, IsFiniteSet(S), NEW list \in SetToSeqs(S)
  PROVE  ToSet(list) = S /\ DOMAIN list = 1..Cardinality(S) /\ Cardinality(S) \in Nat
<1> DEFINE n == Cardinality(S)
<1>1. n \in Nat
  BY FS_CardinalityType
<1>2. list \in [1..n -> S] /\ \A i, j \in 1..n : i # j => list[i] # list[j]
  BY DEF SetToSeqs
<1>3. ASSUME NEW x \in S, \A i \in 1..n : list[i] # x
      PROVE  FALSE
  <2>1. IsFiniteSet(S \ {x}) /\ Cardinality(S \ {x}) = n - 1
    BY FS_RemoveElement
  <2>2. IsFiniteSet(1..n) /\ Cardinality(1..n) = n
    BY <1>1, FS_Interval, Z3
  <2>3. list \in [1..n -> S \ {x}]
    BY <1>2, <1>3
  <2>4. \E i, j \in 1..n : i # j /\ list[i] = list[j]
    <3>1. Cardinality(S \ {x}) < Cardinality(1..n)
      BY <1>1, <2>1, <2>2
    <3> DEFINE W == S \ {x}
    <3>2. list \in [1..n -> W] /\ IsFiniteSet(1..n) /\ IsFiniteSet(W)
          /\ Cardinality(W) < Cardinality(1..n)
      BY <2>1, <2>2, <2>3, <3>1
    <3> HIDE DEF W, n
    <3>3. QED
      BY <3>2, FS_PigeonHole
  <2>5. QED
    BY <1>2, <2>4
<1>4. QED
  BY <1>1, <1>2, <1>3 DEF ToSet

-----------------------------------------------------------------------------
(* What the foothold may become *)

RightPermissions == [p \in Holders \cup {Me} |-> PermissionRow(p)]

LEMMA TheFoothold ==
  /\ currentIdentities(RightPermissions) = {Me}
  /\ currentPrivileged(RightPermissions) = {p \in {Me} : PermissionRow(Me).privileged}
BY DEF RightPermissions, currentIdentities, currentPrivileged, PermissionRow

(* Rights that are not over "/" reach as far as the validator thinks.      *)
LEMMA NewScopesAreUncovered ==
  ASSUME NEW p, ~WorksFromRoot
  PROVE  payloadPermissionNewScopes(PermissionRow(Me), PermissionRow(p)) # {}
           <=> \E h \in Grants(p) : ~ \E g \in Grants(Me) : Covers(g, h)
<1>1. ASSUME NEW g \in Grants(Me), NEW h
      PROVE  Covers(g, h) <=> payloadScopeAppliesToResource(g.scope, h.scope)
  BY <1>1 DEF WorksFromRoot, Covers, payloadScopeAppliesToResource, Below
<1>2. PermissionRow(Me).scopes = {g.scope : g \in Grants(Me)}
      /\ PermissionRow(p).scopes = {g.scope : g \in Grants(p)}
  BY DEF PermissionRow
<1>3. payloadPermissionNewScopes(PermissionRow(Me), PermissionRow(p))
      = {s \in {h.scope : h \in Grants(p)} :
            ~ \E c \in {g.scope : g \in Grants(Me)} : payloadScopeAppliesToResource(c, s)}
  BY <1>2 DEF payloadPermissionNewScopes
<1>4. \A h : (\E c \in {g.scope : g \in Grants(Me)} : payloadScopeAppliesToResource(c, h.scope))
              <=> \E g \in Grants(Me) : Covers(g, h)
  BY <1>1
<1>5. QED
  BY <1>3, <1>4

LEMMA NetValueIsStronger ==
  ASSUME NEW id, ~WorksFromRoot, Grants(Me) # {}
  PROVE  payloadPermissionAddsNetValue(RightPermissions, Me, id)
           <=> id \in Holders /\ Stronger(id)
<1>1. Me \in Holders
  BY PrincipalsAssumption DEF Holders
<1>2. DOMAIN RightPermissions = Holders
      /\ \A p \in Holders : RightPermissions[p] = PermissionRow(p)
  BY <1>1 DEF RightPermissions
<1>3. CASE id \in Holders
  BY <1>1, <1>2, <1>3, NewScopesAreUncovered DEF payloadPermissionAddsNetValue, Stronger
<1>4. CASE id \notin Holders
  BY <1>2, <1>4 DEF payloadPermissionAddsNetValue
<1>5. QED
  BY <1>3, <1>4

LEMMA OwnerIsMe ==
  ASSUME NEW trusts, NEW n \in Nat, DOMAIN trusts = 1..n, ToSet(trusts) = Seen, NEW app
  PROVE  /\ appOwner(RightPermissions, trusts, app) \in {Me, NoOne}
         /\ appOwner(RightPermissions, trusts, app) # NoOne
              <=> \E o \in Seen : o.type = "app-owner" /\ o.source = Me /\ o.target = app
<1> DEFINE owners == ownerRows(RightPermissions, trusts, app)
<1>1. /\ owners \subseteq 1..n
      /\ \A i \in owners : trusts[i].source = Me
      /\ (owners # {} <=> \E o \in Seen : o.type = "app-owner" /\ o.source = Me /\ o.target = app)
  BY TheFoothold DEF ownerRows, TrustsOfFoothold, ToSet
<1>2. ASSUME owners # {}
      PROVE  trusts[CHOOSE i \in owners : \A j \in owners : j <= i].source = Me
  <2>1. \E i \in owners : \A j \in owners : j <= i
    BY <1>1, <1>2, Greatest
  <2>2. (CHOOSE i \in owners : \A j \in owners : j <= i) \in owners
    BY <2>1
  <2>3. QED
    BY <1>1, <2>2
<1>3. Me # NoOne
  BY PrincipalsAssumption
<1>4. appOwner(RightPermissions, trusts, app) =
        IF owners = {} THEN NoOne
        ELSE trusts[CHOOSE i \in owners : \A j \in owners : j <= i].source
  BY DEF appOwner
<1> HIDE DEF owners
<1>5. CASE owners = {}
  <2>1. appOwner(RightPermissions, trusts, app) = NoOne
    BY <1>4, <1>5
  <2>2. QED
    BY <1>1, <1>5, <2>1
<1>6. CASE owners # {}
  <2>1. appOwner(RightPermissions, trusts, app) = Me
    BY <1>2, <1>4, <1>6
  <2>2. QED
    BY <1>1, <1>3, <1>6, <2>1
<1>7. QED
  BY <1>5, <1>6

(* What the validator gathers of the siblings is where the trusts lead.    *)
LEMMA TargetsAreLeads ==
  ASSUME NEW trusts, NEW n \in Nat, DOMAIN trusts = 1..n, ToSet(trusts) = Seen,
         ~WorksFromRoot, Grants(Me) # {}
  PROVE  currentFootholdTrustTargets(RightPermissions, trusts) = Leads
<1> DEFINE mine == {t \in Seen : t.source = Me}
           owned == {x \in Seen : x.type = "federated-credential"
                        /\ \E o \in Seen : o.type = "app-owner" /\ o.source = Me /\ o.target = x.source}
           Worth(id) == id \in Holders /\ Stronger(id)
<1>1. TrustsOfFoothold(RightPermissions, trusts) = mine
  BY TheFoothold DEF TrustsOfFoothold
<1>2. \A id : payloadPermissionAddsNetValue(RightPermissions, Me, id) <=> Worth(id)
  BY NetValueIsStronger
<1>3. \A x \in Seen :
        LET owner == appOwner(RightPermissions, trusts, x.source) IN
        /\ owner \in {Me, NoOne}
        /\ owner # NoOne <=>
             \E o \in Seen : o.type = "app-owner" /\ o.source = Me /\ o.target = x.source
  BY OwnerIsMe
<1>4. \A id : id \in currentFootholdTrustTargets(RightPermissions, trusts)
         <=> \/ \E t \in TrustsOfFoothold(RightPermissions, trusts) :
                   /\ id \in {t.target, t.backing}
                   /\ payloadPermissionAddsNetValue(RightPermissions, t.source, id)
             \/ \E x \in ToSet(trusts) :
                   ownedCredential(RightPermissions, trusts, x) /\ id = x.target
  <2> DEFINE A == UNION {{id \in {t.target, t.backing} :
                             payloadPermissionAddsNetValue(RightPermissions, t.source, id)} :
                           t \in TrustsOfFoothold(RightPermissions, trusts)}
             B == {t.target : t \in {x \in ToSet(trusts) :
                                        ownedCredential(RightPermissions, trusts, x)}}
  <2>1. currentFootholdTrustTargets(RightPermissions, trusts) = A \cup B
    BY Zenon DEF currentFootholdTrustTargets
  <2>2. \A id : id \in A <=> \E t \in TrustsOfFoothold(RightPermissions, trusts) :
                   /\ id \in {t.target, t.backing}
                   /\ payloadPermissionAddsNetValue(RightPermissions, t.source, id)
    OBVIOUS
  <2>3. \A id : id \in B <=> \E x \in ToSet(trusts) :
                   ownedCredential(RightPermissions, trusts, x) /\ id = x.target
    OBVIOUS
  <2> HIDE DEF A, B
  <2>4. QED
    BY <2>1, <2>2, <2>3
<1>5. ASSUME NEW x \in Seen
      PROVE  ownedCredential(RightPermissions, trusts, x) <=> x \in owned /\ Worth(x.target)
  <2>1. CASE appOwner(RightPermissions, trusts, x.source) = Me
    BY <1>2, <1>3, <2>1 DEF ownedCredential
  <2>2. CASE appOwner(RightPermissions, trusts, x.source) = NoOne
    BY <1>3, <2>2 DEF ownedCredential
  <2>3. QED
    BY <1>3, <2>1, <2>2
<1>6. \A id : id \in Leads <=> id \in Reached /\ Worth(id)
  BY DEF Leads
<1>7. \A id : id \in Reached <=> \/ \E t \in mine : id \in {t.target, t.backing}
                                \/ \E t \in owned : id = t.target
  <2>1. \A id : id \in UNION {{t.target, t.backing} : t \in {x \in Seen : x.source = Me}}
                  <=> \E t \in mine : id \in {t.target, t.backing}
    BY Zenon
  <2>2. \A id : id \in {t.target : t \in {x \in Seen :
            /\ x.type = "federated-credential"
            /\ \E o \in Seen :
                  o.type = "app-owner" /\ o.source = Me /\ o.target = x.source}}
                  <=> \E t \in owned : id = t.target
    BY Zenon
  <2>3. QED
    BY <2>1, <2>2 DEF Reached
<1>8. \A id : id \in currentFootholdTrustTargets(RightPermissions, trusts)
               <=> \/ \E t \in mine : id \in {t.target, t.backing} /\ Worth(id)
                   \/ \E t \in owned : id = t.target /\ Worth(id)
  <2>1. \A t \in mine : t.source = Me
    OBVIOUS
  <2>2. owned \subseteq Seen
    OBVIOUS
  <2> HIDE DEF Worth, mine, owned
  <2>3. \A id : (\E t \in mine :
                    /\ id \in {t.target, t.backing}
                    /\ payloadPermissionAddsNetValue(RightPermissions, t.source, id))
                  <=> \E t \in mine : id \in {t.target, t.backing} /\ Worth(id)
    BY <1>2, <2>1
  <2>4. \A id : (\E x \in Seen :
                    ownedCredential(RightPermissions, trusts, x) /\ id = x.target)
                  <=> \E t \in owned : id = t.target /\ Worth(id)
    BY <1>5, <2>2
  <2>5. QED
    BY <1>1, <1>4, <2>3, <2>4
<1>9. QED
  <2> HIDE DEF Worth, mine, owned
  <2>1. QED
    BY <1>6, <1>7, <1>8

-----------------------------------------------------------------------------
(* What the foothold may do to the resource *)

LEMMA FiniteImage ==
  ASSUME NEW S, IsFiniteSet(S), NEW f, f = [x \in S |-> f[x]]
  PROVE  IsFiniteSet({f[x] : x \in S})
<1> DEFINE T == {f[x] : x \in S}
<1>1. f \in Surjection(S, T)
  BY DEF Surjection
<1>2. QED
  BY <1>1, FS_Surjection

LEMMA RbacFinite ==
  ASSUME \A p \in Principals : IsFiniteSet(Grants(p))
  PROVE  IsFiniteSet(Rbac)
<1> DEFINE RowOf(p) == [g \in Grants(p) |-> [principal |-> p, role |-> g.role, scope |-> g.scope]]
           Rows == [p \in Principals |-> {RowOf(p)[g] : g \in Grants(p)}]
<1>1. ASSUME NEW p \in Principals
      PROVE  /\ Rows[p] = {[principal |-> p, role |-> g.role, scope |-> g.scope] : g \in Grants(p)}
             /\ IsFiniteSet(Rows[p])
  <2>1. Rows[p] = {RowOf(p)[g] : g \in Grants(p)}
    BY <1>1
  <2>2. IsFiniteSet({RowOf(p)[g] : g \in Grants(p)})
    BY <1>1, FiniteImage
  <2>3. QED
    BY <2>1, <2>2
<1>2. IsFiniteSet({Rows[p] : p \in Principals})
  <2>1. Rows = [p \in Principals |-> Rows[p]]
    OBVIOUS
  <2> HIDE DEF Rows
  <2>2. QED
    BY <2>1, PrincipalsAssumption, FiniteImage
<1>3. Rbac = UNION {Rows[p] : p \in Principals}
  <2>1. {Rows[p] : p \in Principals}
        = {{[principal |-> p, role |-> g.role, scope |-> g.scope] : g \in Grants(p)} :
              p \in Principals}
    BY <1>1
  <2>2. QED
    BY <2>1 DEF Rbac
<1>4. QED
  <2> HIDE DEF Rows
  <2>1. \A R \in {Rows[p] : p \in Principals} : IsFiniteSet(R)
    BY <1>1
  <2>2. QED
    BY <1>2, <1>3, <2>1, FS_UNION

LEMMA RanksAreNumbers ==
  \A scope \in DOMAIN persistenceControlRank : persistenceControlRank[scope] \in Nat
BY DEF persistenceControlRank

(* The rows of the foothold are its rights.                                *)
LEMMA ControlRowsAreRights ==
  ASSUME NEW rbac, ToSet(rbac) = Rbac
  PROVE  /\ \A i \in controlRows(rbac, Me) : \E g \in Control(ControlRoles) :
              g.role = rbac[i].role /\ g.scope = rbac[i].scope
         /\ \A g \in Control(ControlRoles) : \E i \in controlRows(rbac, Me) :
              g.role = rbac[i].role /\ g.scope = rbac[i].scope
<1>1. ASSUME NEW i \in controlRows(rbac, Me)
      PROVE  \E g \in Control(ControlRoles) : g.role = rbac[i].role /\ g.scope = rbac[i].scope
  <2>1. rbac[i] \in Rbac /\ rbac[i].principal = Me
    BY DEF controlRows, ToSet
  <2>2. PICK p \in Principals : \E g \in Grants(p) :
          rbac[i] = [principal |-> p, role |-> g.role, scope |-> g.scope]
    BY <2>1 DEF Rbac
  <2>3. PICK g \in Grants(p) : rbac[i] = [principal |-> p, role |-> g.role, scope |-> g.scope]
    BY <2>2
  <2>4. p = Me /\ rbac[i].role = g.role /\ rbac[i].scope = g.scope
    BY <2>1, <2>3
  <2>5. QED
    BY <2>4 DEF controlRows, Control
<1>2. ASSUME NEW g \in Control(ControlRoles)
      PROVE  \E i \in controlRows(rbac, Me) : g.role = rbac[i].role /\ g.scope = rbac[i].scope
  <2> DEFINE r == [principal |-> Me, role |-> g.role, scope |-> g.scope]
  <2>1. /\ g \in Grants(Me) /\ g.role \in ControlRoles
        /\ g.scope \in DOMAIN persistenceControlRank
    BY DEF Control
  <2>2. r \in Rbac
    BY <2>1, PrincipalsAssumption DEF Rbac
  <2>3. PICK i \in DOMAIN rbac : rbac[i] = r
    BY <2>2 DEF ToSet
  <2>4. QED
    BY <2>1, <2>3 DEF controlRows
<1>3. QED
  BY <1>1, <1>2

(* The role that decides is held at the nearest scope.                     *)
LEMMA RoleIsNearest ==
  ASSUME NEW rbac, NEW n \in Nat, DOMAIN rbac = 1..n, ToSet(rbac) = Rbac
  PROVE  /\ Control(ControlRoles) = {} => persistenceControl(rbac, Me) = "none"
         /\ Control(ControlRoles) # {} =>
              \E g \in Nearest(Control(ControlRoles)) : persistenceControl(rbac, Me) = g.role
<1> DEFINE rank(i) == persistenceControlRank[rbac[i].scope]
           rows == controlRows(rbac, Me)
           nearest == nearestRows(rbac, Me)
<1>1. CASE Control(ControlRoles) = {}
  <2>1. rows = {}
    BY <1>1, ControlRowsAreRights
  <2>2. QED
    BY <1>1, <2>1 DEF persistenceControl
<1>2. CASE Control(ControlRoles) # {}
  <2>1. rows # {}
    BY <1>2, ControlRowsAreRights
  <2>2. rows \subseteq 1..n /\ \A i \in rows : rank(i) \in Nat
    BY RanksAreNumbers DEF controlRows
  <2>3. nearest = {i \in rows : \A j \in rows : rank(i) <= rank(j)}
    BY DEF nearestRows
  <2>4. nearest # {}
    <3> HIDE DEF rank, rows
    <3>1. {rank(i) : i \in rows} \subseteq Nat /\ {rank(i) : i \in rows} # {}
      BY <2>1, <2>2
    <3>2. PICK r \in {rank(i) : i \in rows} : \A q \in {rank(i) : i \in rows} : r <= q
      BY <3>1, Least
    <3>3. QED
      BY <2>3, <3>2
  <2>5. nearest \subseteq Nat
    BY <2>2, <2>3
  <2>6. (CHOOSE i \in nearest : \A j \in nearest : i <= j) \in nearest
    <3> HIDE DEF nearest
    <3>1. \E i \in nearest : \A j \in nearest : i <= j
      BY <2>4, <2>5, Least
    <3>2. QED
      BY <3>1
  <2>7. PICK i \in nearest : persistenceControl(rbac, Me) = rbac[i].role
    BY <2>1, <2>6 DEF persistenceControl
  <2>8. PICK g \in Control(ControlRoles) : g.role = rbac[i].role /\ g.scope = rbac[i].scope
    BY <2>3, ControlRowsAreRights
  <2>9. ASSUME NEW h \in Control(ControlRoles)
        PROVE  persistenceControlRank[g.scope] <= persistenceControlRank[h.scope]
    <3>1. PICK j \in rows : h.role = rbac[j].role /\ h.scope = rbac[j].scope
      BY <2>9, ControlRowsAreRights
    <3>2. QED
      BY <2>3, <2>8, <3>1
  <2>10. QED
    BY <1>2, <2>7, <2>8, <2>9 DEF Nearest
<1>3. QED
  BY <1>1, <1>2

(* The state of a run that nobody has edited.                              *)
Real == IsLab(azure) /\ Grants(Me) # {}

Honest(c) == told[c] \in Right(c)

LEMMA AtMostOne ==
  ASSUME NEW S, IsFiniteSet(S), ~ (Cardinality(S) > 1), NEW x \in S, NEW y \in S
  PROVE  x = y
<1>1. /\ IsFiniteSet(S \ {x}) /\ Cardinality(S) \in Nat /\ Cardinality(S \ {x}) \in Nat
      /\ Cardinality(S \ {x}) = Cardinality(S) - 1
  BY FS_RemoveElement, FS_CardinalityType
<1>2. Cardinality(S \ {x}) = 0
  BY <1>1
<1>3. S \ {x} = {}
  BY <1>1, <1>2, FS_EmptySet
<1>4. QED
  BY <1>3

(* Where the nearest scope settles it, the expected row is the true one.   *)
LEMMA RoleSettlesIt ==
  ASSUME Real, ~Disputed, NEW c \in Families, c \in Checks,
         NEW rbac, NEW n \in Nat, DOMAIN rbac = 1..n, ToSet(rbac) = Rbac
  PROVE  LET role == persistenceControl(rbac, Me)
             control == Control(ControlRolesOf(c))
         IN  /\ role = "none" <=> control = {}
             /\ role # "none" => /\ {{g.role} : g \in Nearest(control)} = {{role}}
                                 /\ role \in RolesHeld(Me)
             /\ \A s \in Steps(c) :
                  Proven(s) <=> persistenceExpectedCapabilityStatus(s, role) = "yes"
<1> DEFINE role == persistenceControl(rbac, Me)
           all == Control(ControlRoles)
           near == Nearest(all)
<1>1. IsFiniteSet(Grants(Me)) /\ all \subseteq Grants(Me) /\ near \subseteq all
  BY PrincipalsAssumption DEF Real, IsLab, Grants, Control, Nearest
<1>2. IsFiniteSet(near)
  BY <1>1, FS_Subset
<1>3. /\ ~ (Cardinality(near) > 1)
      /\ \A g \in all : g.role = "Automation Contributor" =>
            c # "logic-apps" /\ \A h \in all : h.role = "Automation Contributor"
  BY DEF Disputed
<1>4. \A g, h \in near : g = h
  BY <1>2, <1>3, AtMostOne
<1>5. \A g \in all : g.role \in ControlRoles
  BY DEF Control
<1>6. all = {} => role = "none"
  BY RoleIsNearest
<1>7. all # {} => \E g \in near : role = g.role
  BY RoleIsNearest
<1>8. role = "none" <=> all = {}
  BY <1>1, <1>5, <1>6, <1>7 DEF ControlRoles
<1>9. ControlRoles = HighImpact \cup {"Automation Contributor"}
  BY DEF ControlRoles, HighImpact
<1>10. Control(HighImpact) = {g \in all : g.role \in HighImpact}
  BY <1>9 DEF Control
<1>11. Control(ControlRolesOf(c)) = all
  <2>1. CASE c = "automation"
    <3>1. ControlRolesOf(c) = ControlRoles
      BY <2>1, <1>9 DEF ControlRolesOf, Steps, Suffices
    <3>2. QED
      BY <3>1
  <2>2. CASE c = "logic-apps"
    <3>1. ControlRolesOf(c) = HighImpact
      BY <2>2 DEF ControlRolesOf, Steps, Suffices
    <3>2. \A g \in all : g.role \in HighImpact
      BY <2>2, <1>3, <1>5, <1>9
    <3>3. QED
      BY <1>10, <3>1, <3>2
  <2>3. QED
    BY <2>1, <2>2 DEF Families
<1>12. \A s \in Steps(c) : Proven(s) <=> persistenceExpectedCapabilityStatus(s, role) = "yes"
  <2>1. ASSUME NEW s \in Steps(c), all = {}
        PROVE  Proven(s) <=> persistenceExpectedCapabilityStatus(s, role) = "yes"
    <3>1. Control(Suffices(s)) = {}
      BY <1>9, <1>10, <2>1 DEF Suffices
    <3>2. QED
      BY <1>6, <2>1, <3>1 DEF Proven, persistenceExpectedCapabilityStatus
  <2>2. ASSUME NEW s \in Steps(c), NEW g \in near, role = g.role
        PROVE  Proven(s) <=> persistenceExpectedCapabilityStatus(s, role) = "yes"
    <3>1. g \in all /\ role \in ControlRoles
      BY <1>1, <1>5, <2>2
    <3>2. CASE role = "Automation Contributor"
      <4>1. \A h \in all : h.role \notin HighImpact
        BY <1>3, <2>2, <3>1, <3>2 DEF HighImpact
      <4>2. c = "automation" /\ s \in {"account", "runbook"}
        BY <1>3, <2>2, <3>1, <3>2 DEF Families, Steps
      <4>3. Control(HighImpact) = {}
        BY <1>10, <4>1
      <4>4. Proven("runbook") /\ ~Proven("account")
        BY <1>9, <3>1, <4>3 DEF Proven, Suffices
      <4>5. QED
        BY <3>2, <4>2, <4>4 DEF persistenceExpectedCapabilityStatus
    <3>3. CASE role \in HighImpact
      <4>1. g \in Control(HighImpact)
        BY <1>10, <2>2, <3>1, <3>3
      <4>2. Proven(s)
        BY <1>9, <3>1, <4>1 DEF Proven, Suffices
      <4>3. QED
        BY <3>3, <4>2 DEF persistenceExpectedCapabilityStatus, HighImpact
    <3>4. QED
      BY <1>9, <3>1, <3>2, <3>3
  <2>3. QED
    BY <1>7, <2>1, <2>2
<1>13. ASSUME role # "none"
       PROVE  {{g.role} : g \in near} = {{role}} /\ role \in RolesHeld(Me)
  <2>1. PICK g \in near : role = g.role
    BY <1>6, <1>7, <1>13
  <2>2. near = {g}
    BY <1>4, <2>1
  <2>3. QED
    BY <1>1, <2>1, <2>2 DEF RolesHeld
<1>14. QED
  <2> HIDE DEF role, all, near
  <2>1. near = Nearest(all)
    BY DEF near
  <2>2. QED
    BY <1>8, <1>11, <1>12, <1>13, <2>1 DEF role

-----------------------------------------------------------------------------
(* Right payloads *)

LEMMA RightPayloads ==
  /\ Honest("whoami") => told["whoami"] = Me
  /\ Honest("principals") =>
       told["principals"] = [visible |-> Holders \cup {Me}, current |-> {Me}]
  /\ Honest("permissions") => told["permissions"] = RightPermissions
  /\ Honest("privesc") => told["privesc"] = IF PermissionRow(Me).privileged THEN Me ELSE NoOne
  /\ Honest("resource") => told["resource"] = [state |-> azure.state, identity |-> azure.identity]
<1>1. Honest("permissions") => told["permissions"] = RightPermissions
  BY DEF Honest, Right, RightPermissions
<1>2. QED
  BY <1>1 DEF Honest, Right

LEMMA RightListings ==
  ASSUME IsLab(azure)
  PROVE  /\ Honest("rbac") =>
              \E n \in Nat : DOMAIN told["rbac"] = 1..n /\ ToSet(told["rbac"]) = Rbac
         /\ Honest("role-trusts") =>
              /\ \E n \in Nat : DOMAIN told["role-trusts"].rows = 1..n
              /\ ToSet(told["role-trusts"].rows) = Seen
              /\ told["role-trusts"].issues =
                   IF "census" \in Blind THEN {"census"} ELSE Unread("role-trusts")
<1>1. ASSUME Honest("rbac")
      PROVE  \E n \in Nat : DOMAIN told["rbac"] = 1..n /\ ToSet(told["rbac"]) = Rbac
  <2>1. told["rbac"] \in SetToSeqs(Rbac)
    BY <1>1 DEF Honest, Right
  <2>2. IsFiniteSet(Rbac)
    BY RbacFinite DEF IsLab, Grants
  <2>3. QED
    BY <2>1, <2>2, ListsAll
<1>2. ASSUME Honest("role-trusts")
      PROVE  /\ \E n \in Nat : DOMAIN told["role-trusts"].rows = 1..n
             /\ ToSet(told["role-trusts"].rows) = Seen
             /\ told["role-trusts"].issues =
                  IF "census" \in Blind THEN {"census"} ELSE Unread("role-trusts")
  <2>1. PICK r \in SetToSeqs(Seen) : told["role-trusts"] =
          [rows |-> r, issues |-> IF "census" \in Blind THEN {"census"} ELSE Unread("role-trusts")]
    BY <1>2 DEF Honest, Right
  <2>2. Seen \subseteq azure.trusts
    BY DEF Seen, VisibleTrusts
  <2>3. IsFiniteSet(Seen)
    BY <2>2, FS_Subset DEF IsLab
  <2>4. told["role-trusts"].rows \in SetToSeqs(Seen)
    BY <2>1
  <2>5. QED
    BY <2>1, <2>3, <2>4, ListsAll
<1>3. QED
  BY <1>1, <1>2

LEMMA MeHolds ==
  ASSUME Grants(Me) # {}
  PROVE  Me \in Holders /\ DOMAIN RightPermissions = Holders
         /\ \A p \in Holders : RightPermissions[p] = PermissionRow(p)
BY PrincipalsAssumption DEF Holders, RightPermissions

-----------------------------------------------------------------------------
(* The persistence families *)

IsContext(context) == context = [principal |-> context.principal, roles |-> context.roles]

LEMMA ExecutionIsTheResource ==
  ASSUME Real, NEW context, IsContext(context)
  PROVE  ExecutionContextFindings(context, RightPermissions, azure.identity) = {}
           <=> context = RightExecution
<1>1. azure.identity # NoOne => RightExecution # NoContext
  BY DEF RightExecution, NoContext
<1>2. CASE azure.identity = NoOne
  BY <1>2 DEF ExecutionContextFindings, RightExecution
<1>3. CASE azure.identity # NoOne
  <2> DEFINE roles == IF azure.identity \in Holders THEN RolesOf(PermissionRow(azure.identity)) ELSE {}
  <2>1. RightExecution = [principal |-> azure.identity, roles |-> roles]
    BY <1>3 DEF RightExecution
  <2>2. roles = IF azure.identity \in DOMAIN RightPermissions
                THEN RolesOf(RightPermissions[azure.identity]) ELSE {}
    BY MeHolds DEF Real
  <2> HIDE DEF roles
  <2>3. ExecutionContextFindings(context, RightPermissions, azure.identity) = {}
          <=> context # NoContext /\ context.principal = azure.identity /\ context.roles = roles
    BY <1>3, <2>2 DEF ExecutionContextFindings
  <2>4. QED
    BY <1>1, <1>3, <2>1, <2>3 DEF IsContext
<1>4. QED
  BY <1>2, <1>3

ExpectedRoles(role) == IF role = "none" THEN RolesOf(PermissionRow(Me)) ELSE {role}

LEMMA CurrentIsTheFoothold ==
  ASSUME Real, NEW role, NEW context
  PROVE  /\ context = [principal |-> Me, roles |-> ExpectedRoles(role)] =>
              CurrentContextFindings(context, RightPermissions, Me, role) = {}
         /\ CurrentContextFindings(context, RightPermissions, Me, role) = {} =>
              context.principal = Me /\ context.roles = ExpectedRoles(role)
<1>1. RightPermissions[Me] = PermissionRow(Me)
  BY DEF RightPermissions
<1>2. Me # NoOne
  BY PrincipalsAssumption
<1>3. RolesOf(PermissionRow(Me)) # {}
  BY DEF RolesOf, PermissionRow, RolesHeld, Real
<1>4. ExpectedRoles(role) # {}
  BY <1>3 DEF ExpectedRoles
<1>5. CurrentContextFindings(context, RightPermissions, Me, role)
      = IF context = NoContext THEN {"missing-current-context"}
        ELSE {f \in {"current-context-principal-drift"} : context.principal # Me}
             \cup {f \in {"current-context-roles-drift"} : context.roles # ExpectedRoles(role)}
  <2>1. (IF role # "none" THEN {role}
         ELSE IF Me # NoOne THEN RolesOf(RightPermissions[Me]) ELSE {}) = ExpectedRoles(role)
    BY <1>1, <1>2 DEF ExpectedRoles
  <2>2. QED
    BY <1>2, <1>4, <2>1 DEF CurrentContextFindings
<1>6. [principal |-> Me, roles |-> ExpectedRoles(role)] # NoContext
  BY <1>2 DEF NoContext
<1>7. QED
  BY <1>5, <1>6

(* The one row a right tool prints of a resource whose control is settled. *)
ExpectedRow(c, role) ==
  [state |-> azure.state,
   current |-> [principal |-> Me, roles |-> ExpectedRoles(role)],
   steps |-> [s \in Steps(c) |-> IF Proven(s) THEN "yes" ELSE "not proven"],
   execution |-> RightExecution]

LEMMA RightRow ==
  ASSUME Real, ~Disputed, NEW c \in Families, c \in Checks,
         NEW rbac, NEW n \in Nat, DOMAIN rbac = 1..n, ToSet(rbac) = Rbac
  PROVE  RightPersistence(c) = {{ExpectedRow(c, persistenceControl(rbac, Me))}}
<1> DEFINE role == persistenceControl(rbac, Me)
           control == Control(ControlRolesOf(c))
           roles == IF control = {} THEN {RolesOf(PermissionRow(Me))}
                    ELSE {{g.role} : g \in Nearest(control)}
           RowOf(r) == [state |-> azure.state,
                        current |-> [principal |-> Me, roles |-> r],
                        steps |-> [s \in Steps(c) |-> IF Proven(s) THEN "yes" ELSE "not proven"],
                        execution |-> RightExecution]
<1>1. roles = {ExpectedRoles(role)}
  BY RoleSettlesIt DEF ExpectedRoles
<1>2. RightPersistence(c) = {{RowOf(r)} : r \in roles}
  BY DEF RightPersistence
<1>3. ExpectedRow(c, role) = RowOf(ExpectedRoles(role))
  BY DEF ExpectedRow
<1> HIDE DEF roles, RowOf, role
<1>4. QED
  BY <1>1, <1>2, <1>3 DEF role

LEMMA RightFamilyPasses ==
  ASSUME Real, ~Disputed, NEW c \in Families, c \in Checks, Honest(c),
         Honest("resource"), Honest("permissions"), Honest("rbac")
  PROVE  PersistenceFindings(c, told[c], told["resource"], told["permissions"], Me,
                             told["rbac"]) = {}
<1> DEFINE role == persistenceControl(told["rbac"], Me)
           row == ExpectedRow(c, role)
<1>1. PICK n \in Nat : DOMAIN told["rbac"] = 1..n /\ ToSet(told["rbac"]) = Rbac
  BY RightListings DEF Real
<1>2. told[c] = {row}
  <2>1. Right(c) = RightPersistence(c)
    BY DEF Right, Families
  <2>2. RightPersistence(c) = {{row}}
    BY <1>1, RightRow
  <2>3. told[c] \in Right(c)
    BY DEF Honest
  <2> HIDE DEF row
  <2>4. QED
    BY <2>1, <2>2, <2>3
<1>3. (CHOOSE r \in told[c] : TRUE) = row /\ told[c] # {}
  BY <1>2
<1>4. /\ row.state = azure.state /\ row.execution = RightExecution
      /\ row.current = [principal |-> Me, roles |-> ExpectedRoles(role)]
      /\ \A s \in Steps(c) : row.steps[s] = IF Proven(s) THEN "yes" ELSE "not proven"
  BY DEF ExpectedRow
<1>5. told["permissions"] = RightPermissions
      /\ told["resource"].state = azure.state /\ told["resource"].identity = azure.identity
  BY RightPayloads
<1>6. IsContext(RightExecution)
  BY DEF IsContext, RightExecution, NoContext
<1>7. \A s \in Steps(c) : row.steps[s] = persistenceExpectedCapabilityStatus(s, role)
  <2>1. \A s \in Steps(c) : Proven(s) <=> persistenceExpectedCapabilityStatus(s, role) = "yes"
    BY <1>1, RoleSettlesIt
  <2>2. \A s : persistenceExpectedCapabilityStatus(s, role) \in {"yes", "not proven"}
    BY DEF persistenceExpectedCapabilityStatus
  <2> HIDE DEF row, role
  <2>3. QED
    BY <1>4, <2>1, <2>2
<1>8. CurrentContextFindings(row.current, RightPermissions, Me, role) = {}
  BY <1>4, CurrentIsTheFoothold
<1>9. ExecutionContextFindings(row.execution, RightPermissions, azure.identity) = {}
  BY <1>4, <1>6, ExecutionIsTheResource
<1> HIDE DEF row
<1>10. QED
  BY <1>3, <1>4, <1>5, <1>7, <1>8, <1>9 DEF PersistenceFindings

(* Whatever the slip, the row keeps its columns.                           *)
LEMMA WrongRowHasContexts ==
  ASSUME NEW c, NEW role, NEW r \in WrongRow(ExpectedRow(c, role))
  PROVE  IsContext(r.execution)
<1> DEFINE row == ExpectedRow(c, role)
<1>1. IsContext(RightExecution)
  BY DEF IsContext, RightExecution, NoContext
<1>2. \A e \in Confused(RightExecution) : IsContext(e)
  <2>1. PICK p, q : RightExecution = [principal |-> p, roles |-> q]
    BY <1>1 DEF IsContext
  <2>2. QED
    BY <2>1 DEF Confused, IsContext, NoContext
<1>3. row.execution = RightExecution
  BY DEF ExpectedRow
<1>4. DOMAIN row = {"state", "current", "steps", "execution"}
  BY DEF ExpectedRow
<1> HIDE DEF row
<1>5. \/ r = [row EXCEPT !.state = "another"]
      \/ \E x \in Confused(row.current) : r = [row EXCEPT !.current = x]
      \/ \E x \in Confused(row.execution) : r = [row EXCEPT !.execution = x]
      \/ \E s \in DOMAIN row.steps : r = [row EXCEPT !.steps[s] = Other(row.steps[s])]
  BY DEF WrongRow, row
<1>6. r.execution = RightExecution \/ r.execution \in Confused(RightExecution)
  BY <1>3, <1>4, <1>5
<1>7. QED
  BY <1>1, <1>2, <1>6

(* A row that passes beside right payloads is proven by the rights.        *)
LEMMA PassedRowIsProven ==
  ASSUME Real, ~Disputed, NEW c \in Families, c \in Checks,
         NEW right \in Right(c), told[c] \in Wrong(c, right),
         Honest("resource"), Honest("permissions"), Honest("rbac"),
         PersistenceFindings(c, told[c], told["resource"], told["permissions"], Me,
                             told["rbac"]) = {},
         NEW row \in told[c]
  PROVE  /\ \A s \in Steps(c) : row.steps[s] = "yes" => Proven(s)
         /\ row.current.principal = Me /\ row.current.roles \subseteq RolesHeld(Me)
         /\ row.execution = RightExecution
<1> DEFINE role == persistenceControl(told["rbac"], Me)
           expected == ExpectedRow(c, role)
<1>1. PICK n \in Nat : DOMAIN told["rbac"] = 1..n /\ ToSet(told["rbac"]) = Rbac
  BY RightListings DEF Real
<1>2. right = {expected}
  <2>1. Right(c) = RightPersistence(c)
    BY DEF Right, Families
  <2>2. QED
    BY <1>1, <2>1, RightRow
<1>3. told[c] \in {{}} \cup {{r} : r \in UNION {WrongRow(x) : x \in right}}
  BY DEF Wrong, Families, TenantCommands
<1>4. told[c] = {row} /\ row \in WrongRow(expected)
  BY <1>2, <1>3
<1>5. IsContext(row.execution)
  BY <1>4, WrongRowHasContexts
<1>6. (CHOOSE r \in told[c] : TRUE) = row /\ told[c] # {}
  BY <1>4
<1>7. told["permissions"] = RightPermissions
      /\ told["resource"].state = azure.state /\ told["resource"].identity = azure.identity
  BY RightPayloads
<1>8. /\ CurrentContextFindings(row.current, RightPermissions, Me, role) = {}
      /\ \A s \in Steps(c) : row.steps[s] = persistenceExpectedCapabilityStatus(s, role)
      /\ ExecutionContextFindings(row.execution, RightPermissions, azure.identity) = {}
  BY <1>6, <1>7 DEF PersistenceFindings
<1>9. row.execution = RightExecution
  BY <1>5, <1>8, ExecutionIsTheResource
<1>10. row.current.principal = Me /\ row.current.roles = ExpectedRoles(role)
  BY <1>8, CurrentIsTheFoothold
<1>11. ExpectedRoles(role) \subseteq RolesHeld(Me)
  <2>1. RolesOf(PermissionRow(Me)) \subseteq RolesHeld(Me)
    BY DEF RolesOf, PermissionRow
  <2>2. role # "none" => role \in RolesHeld(Me)
    BY <1>1, RoleSettlesIt
  <2>3. QED
    BY <2>1, <2>2 DEF ExpectedRoles
<1>12. \A s \in Steps(c) : row.steps[s] = "yes" => Proven(s)
  BY <1>1, <1>8, RoleSettlesIt
<1>13. QED
  BY <1>9, <1>10, <1>11, <1>12

(* So is the row of a right tool, whatever lies beside it.                 *)
LEMMA RightRowIsProven ==
  ASSUME NEW c \in Families, Honest(c), NEW row \in told[c]
  PROVE  /\ \A s \in Steps(c) : row.steps[s] = "yes" => Proven(s)
         /\ row.current.principal = Me /\ row.current.roles \subseteq RolesHeld(Me)
         /\ row.execution = RightExecution
<1> DEFINE control == Control(ControlRolesOf(c))
           roles == IF control = {} THEN {RolesOf(PermissionRow(Me))}
                    ELSE {{g.role} : g \in Nearest(control)}
<1>1. told[c] \in RightPersistence(c)
  BY DEF Honest, Right, Families
<1>2. PICK r \in roles : told[c] = {[state |-> azure.state,
                            current |-> [principal |-> Me, roles |-> r],
                            steps |-> [s \in Steps(c) |-> IF Proven(s) THEN "yes" ELSE "not proven"],
                            execution |-> RightExecution]}
  BY <1>1 DEF RightPersistence
<1>3. r \subseteq RolesHeld(Me)
  BY <1>2 DEF RolesOf, PermissionRow, Nearest, Control, RolesHeld
<1>4. row = [state |-> azure.state,
             current |-> [principal |-> Me, roles |-> r],
             steps |-> [s \in Steps(c) |-> IF Proven(s) THEN "yes" ELSE "not proven"],
             execution |-> RightExecution]
  BY <1>2
<1>5. QED
  BY <1>3, <1>4

-----------------------------------------------------------------------------
(* escalation-path *)

LEMMA EscalationSources ==
  ASSUME Real, ~WorksFromRoot, Honest("permissions"), Honest("role-trusts")
  PROVE  LET permissions == told["permissions"] IN
         /\ currentIdentities(permissions) = {Me}
         /\ currentPrivileged(permissions) = {p \in {Me} : PermissionRow(Me).privileged}
         /\ currentFootholdTrustTargets(permissions, told["role-trusts"].rows) = Leads
<1>1. told["permissions"] = RightPermissions
  BY RightPayloads
<1>2. PICK n \in Nat : DOMAIN told["role-trusts"].rows = 1..n
  BY RightListings DEF Real
<1>3. ToSet(told["role-trusts"].rows) = Seen
  BY RightListings DEF Real
<1>4. QED
  BY <1>1, <1>2, <1>3, TheFoothold, TargetsAreLeads DEF Real

EscalationIsProven(rows) ==
  /\ PermissionRow(Me).privileged =>
       \E r \in rows : r.command = "permissions" /\ r.asset = Me /\ r.confirmed
  /\ Leads # {} =>
       \E r \in rows : r.command = "role-trusts" /\ r.asset = Me /\ r.targets \cap Leads # {}
  /\ ~PermissionRow(Me).privileged /\ Leads = {} => rows = {}

LEMMA EscalationPasses ==
  ASSUME Real, ~WorksFromRoot, Honest("permissions"), Honest("role-trusts"), NEW rows
  PROVE  /\ EscalationFindings(rows, told["permissions"], told["role-trusts"].rows) = {} =>
              EscalationIsProven(rows)
         /\ EscalationIsProven(rows) /\ (\A r \in rows : r.command = "permissions" => r.asset = Me) =>
              EscalationFindings(rows, told["permissions"], told["role-trusts"].rows) = {}
<1> DEFINE permissions == told["permissions"]
           trusts == told["role-trusts"].rows
           findingsHere == EscalationFindings(rows, permissions, trusts)
           direct == {r \in rows : r.command = "permissions"}
           trust == {r \in rows : r.command = "role-trusts"}
           privileged == {p \in {Me} : PermissionRow(Me).privileged}
<1>1. findingsHere =
        IF privileged = {} /\ Leads = {}
        THEN {f \in {"unexpected-rows"} : rows # {}}
        ELSE {f \in {"missing-direct-control"} :
                privileged # {} /\ ~ \E r \in direct : r.asset \in privileged /\ r.confirmed}
             \cup {f \in {"unexpected-direct-row"} : \E r \in direct : r.asset \notin {Me}}
             \cup {f \in {"missing-trust-row"} :
                     Leads # {} /\ ~ \E r \in trust : r.asset \in {Me} /\ r.targets \cap Leads # {}}
  BY EscalationSources DEF EscalationFindings
<1>2. privileged = {} <=> ~PermissionRow(Me).privileged
  OBVIOUS
<1>3. \A p : p \in privileged <=> p = Me /\ PermissionRow(Me).privileged
  OBVIOUS
<1> HIDE DEF privileged, findingsHere
<1>4. CASE privileged = {} /\ Leads = {}
  <2>1. findingsHere = {} <=> rows = {}
    BY <1>1, <1>4
  <2>2. QED
    BY <1>2, <1>4, <2>1 DEF EscalationIsProven, findingsHere
<1>5. CASE ~ (privileged = {} /\ Leads = {})
  <2>1. findingsHere = {} <=>
          /\ privileged # {} => \E r \in direct : r.asset \in privileged /\ r.confirmed
          /\ \A r \in direct : r.asset = Me
          /\ Leads # {} => \E r \in trust : r.asset = Me /\ r.targets \cap Leads # {}
    BY <1>1, <1>5
  <2>2. (privileged # {} => \E r \in direct : r.asset \in privileged /\ r.confirmed)
        <=> (PermissionRow(Me).privileged =>
               \E r \in rows : r.command = "permissions" /\ r.asset = Me /\ r.confirmed)
    BY <1>2, <1>3
  <2>3. QED
    BY <1>2, <1>5, <2>1, <2>2 DEF EscalationIsProven, findingsHere
<1>6. QED
  BY <1>4, <1>5

LEMMA RightEscalationIsProven ==
  ASSUME Honest("escalation-path")
  PROVE  /\ EscalationIsProven(told["escalation-path"])
         /\ \A r \in told["escalation-path"] : r.command = "permissions" => r.asset = Me
<1> DEFINE direct == {Row("permissions", {}) : x \in {y \in {Me} : PermissionRow(Me).privileged}}
<1>1. told["escalation-path"] \in RightEscalation
  BY DEF Honest, Right
<1>2. PICK shown \in {S \in SUBSET Leads : Leads # {} => S # {}} :
        told["escalation-path"] = direct \cup {Row("role-trusts", {p}) : p \in shown}
  BY <1>1 DEF RightEscalation
<1>3. PermissionRow(Me).privileged => Row("permissions", {}) \in direct
  OBVIOUS
<1>4. \A r \in direct : PermissionRow(Me).privileged /\ r = Row("permissions", {})
  OBVIOUS
<1>5. \A p : /\ Row("role-trusts", {p}).command = "role-trusts"
             /\ Row("role-trusts", {p}).asset = Me
             /\ Row("role-trusts", {p}).targets = {p}
  BY DEF Row
<1>6. /\ Row("permissions", {}).command = "permissions"
      /\ Row("permissions", {}).asset = Me /\ Row("permissions", {}).confirmed
  BY DEF Row
<1> HIDE DEF direct
<1>7. ASSUME Leads # {}
      PROVE  \E r \in told["escalation-path"] :
               r.command = "role-trusts" /\ r.asset = Me /\ r.targets \cap Leads # {}
  <2>1. PICK p \in shown : p \in Leads
    BY <1>2, <1>7
  <2>2. QED
    BY <1>2, <1>5, <2>1
<1>8. QED
  BY <1>2, <1>3, <1>4, <1>5, <1>6, <1>7 DEF EscalationIsProven

-----------------------------------------------------------------------------
(* whoami *)

LEMMA RightWhoAmIPasses ==
  ASSUME Real, Honest("whoami"), Honest("principals"), Honest("permissions"), Honest("rbac"),
         Honest("privesc")
  PROVE  WhoAmIFindings(told["whoami"], told["principals"], told["permissions"], told["rbac"],
                        told["privesc"]) = {}
<1>1. PICK g \in Grants(Me) : TRUE
  BY DEF Real
<1>2. [principal |-> Me, role |-> g.role, scope |-> g.scope] \in Rbac
  BY PrincipalsAssumption DEF Rbac
<1>3. Me \in {a.principal : a \in ToSet(told["rbac"])}
  BY <1>2, RightListings DEF Real
<1>4. /\ told["whoami"] = Me /\ told["permissions"] = RightPermissions
      /\ told["principals"].visible = Holders \cup {Me} /\ told["principals"].current = {Me}
      /\ told["privesc"] = IF PermissionRow(Me).privileged THEN Me ELSE NoOne
  BY RightPayloads
<1>5. /\ currentIdentities(RightPermissions) = {Me} /\ Me \in DOMAIN RightPermissions
      /\ RightPermissions[Me].privileged = PermissionRow(Me).privileged
  BY TheFoothold DEF RightPermissions
<1>6. MarkFindings(Me, told["principals"].visible, told["principals"].current) = {}
      /\ MarkFindings(Me, DOMAIN RightPermissions, currentIdentities(RightPermissions)) = {}
  BY <1>4, <1>5 DEF MarkFindings
<1>7. PrivescFindings(Me, RightPermissions, told["privesc"]) = {}
  BY <1>4, <1>5, PrincipalsAssumption DEF PrivescFindings
<1>8. QED
  BY <1>3, <1>4, <1>6, <1>7 DEF WhoAmIFindings

(* Only an error in both could make whoami pass for somebody else.         *)
LEMMA PassedWhoAmIIsOne ==
  ASSUME Honest("whoami") \/ Honest("principals"),
         WhoAmIFindings(told["whoami"], told["principals"], told["permissions"], told["rbac"],
                        told["privesc"]) = {}
  PROVE  OneFoothold
<1> DEFINE who == told["whoami"]
<1>1. /\ MarkFindings(who, told["principals"].visible, told["principals"].current) = {}
      /\ MarkFindings(who, DOMAIN told["permissions"], currentIdentities(told["permissions"])) = {}
      /\ PrivescFindings(who, told["permissions"], told["privesc"]) = {}
  BY DEF WhoAmIFindings
<1>2. /\ who \in told["principals"].current
      /\ who \in DOMAIN told["permissions"] /\ who \in currentIdentities(told["permissions"])
  BY <1>1 DEF MarkFindings
<1>3. told["privesc"] = IF told["permissions"][who].privileged THEN who ELSE NoOne
  BY <1>1, <1>2 DEF PrivescFindings
<1>4. CASE Honest("whoami")
  <2>1. who = Me
    BY <1>4, RightPayloads
  <2>2. QED
    BY <1>2, <1>3, <2>1 DEF OneFoothold
<1>5. CASE Honest("principals")
  <2>1. told["principals"].current = {Me}
    BY <1>5, RightPayloads
  <2>2. who = Me
    BY <1>2, <2>1
  <2>3. QED
    BY <1>2, <1>3, <2>2 DEF OneFoothold
<1>6. QED
  BY <1>4, <1>5

-----------------------------------------------------------------------------
(* The tenant *)

Findings == {"defaults-disabled", "no-enforcement", "register-apps", "guests:everyone",
             "risky-consent", "user-consent"}

Has(policies, collector, state) == \E p \in policies : p.collector = collector /\ p.state = state
Sets(policies, control) ==
  \E p \in policies : p.collector = "authorization-policy" /\ control \in p.controls

LEMMA HoldsMeans ==
  ASSUME NEW tenant, IsTenant(tenant)
  PROVE  LET P == tenant.policies IN
         /\ Holds("defaults-disabled", tenant) <=> Has(P, "security-defaults", "disabled")
         /\ Holds("no-enforcement", tenant) <=> /\ Has(P, "security-defaults", "disabled")
                                                /\ ~Has(P, "conditional-access", "enabled")
         /\ Holds("user-consent", tenant) <=>
              Sets(P, "user-consent") /\ ~Sets(P, "risky-consent")
         /\ \A f \in {"register-apps", "guests:everyone", "risky-consent"} :
              Holds(f, tenant) <=> Sets(P, f)
<1> DEFINE controls == UNION {p.controls : p \in tenant.policies}
<1>1. \A f \in TellingControls : f \in controls <=> Sets(tenant.policies, f)
  BY DEF IsTenant, Sets
<1>2. {"user-consent", "register-apps", "guests:everyone", "risky-consent"} \subseteq TellingControls
  BY DEF TellingControls
<1> HIDE DEF controls
<1>3. Holds("user-consent", tenant) <=> "user-consent" \in controls /\ "risky-consent" \notin controls
  BY DEF Holds, controls
<1>4. \A f \in {"register-apps", "guests:everyone", "risky-consent"} :
        Holds(f, tenant) <=> f \in controls
  BY DEF Holds, controls
<1>5. /\ Holds("defaults-disabled", tenant) <=> Has(tenant.policies, "security-defaults", "disabled")
      /\ Holds("no-enforcement", tenant) <=>
           /\ Has(tenant.policies, "security-defaults", "disabled")
           /\ ~Has(tenant.policies, "conditional-access", "enabled")
  BY DEF Holds, Has
<1>6. QED
  BY <1>1, <1>2, <1>3, <1>4, <1>5

LEMMA ExpectedMeans ==
  LET V == VisiblePolicies(azure.tenant, Blind)
      expected == authPolicyExpectedFindingIDs(AuthPoliciesContext(azure.tenant, Blind))
  IN  /\ expected \subseteq Findings
      /\ "defaults-disabled" \in expected <=> Has(V, "security-defaults", "disabled")
      /\ "no-enforcement" \in expected <=> /\ Has(V, "security-defaults", "disabled")
                                           /\ ~Has(V, "conditional-access", "enabled")
                                           /\ "conditional-access" \notin Blind
      /\ "user-consent" \in expected <=> Sets(V, "user-consent") /\ ~Sets(V, "risky-consent")
      /\ \A f \in {"register-apps", "guests:everyone", "risky-consent"} :
           f \in expected <=> Sets(V, f)
<1> DEFINE V == VisiblePolicies(azure.tenant, Blind)
           context == AuthPoliciesContext(azure.tenant, Blind)
           off == Has(V, "security-defaults", "disabled")
           enforced == Has(V, "conditional-access", "enabled")
           controls == UNION {p.controls : p \in {q \in V : q.collector = "authorization-policy"}}
<1>1. context.policies = V /\ context.issues = Blind \cap PolicyCollectors
  BY DEF AuthPoliciesContext, Collectors
<1>2. "conditional-access" \in context.issues <=> "conditional-access" \in Blind
  BY <1>1 DEF PolicyCollectors
<1>3. \A f : f \in controls <=> Sets(V, f)
  BY DEF Sets
<1>4. authPolicyExpectedFindingIDs(context) =
        {f \in {"defaults-disabled"} : off}
        \cup ({"register-apps", "guests:everyone", "risky-consent"} \cap controls)
        \cup {f \in {"user-consent"} \cap controls : "risky-consent" \notin controls}
        \cup {f \in {"no-enforcement"} :
                 off /\ ~enforced /\ "conditional-access" \notin context.issues}
  <2> HIDE DEF V, context
  <2>1. QED
    BY <1>1 DEF authPolicyExpectedFindingIDs, Has
<1> HIDE DEF V, context, off, enforced, controls
<1>5. QED
  BY <1>2, <1>3, <1>4 DEF Findings, V, context, off, enforced

(* What is expected is what is so of every tenant that looks like this one.*)
LEMMA ExpectedIsKnown ==
  ASSUME IsTenant(azure.tenant), NEW harmless \in Tenants, Harmless(harmless, azure)
  PROVE  authPolicyExpectedFindingIDs(AuthPoliciesContext(azure.tenant, Blind)) = TenantFindings
<1> DEFINE V == VisiblePolicies(azure.tenant, Blind)
           expected == authPolicyExpectedFindingIDs(AuthPoliciesContext(azure.tenant, Blind))
           Alike == {t \in Tenants : VisiblePolicies(t, Blind) = V}
<1>1. \A t \in Alike : IsTenant(t)
  BY TenantsAssumption
<1>2. \A t \in Alike : /\ V \subseteq t.policies
                       /\ \A p \in t.policies : p \in V <=> p.collector \notin Blind
  BY DEF VisiblePolicies
<1>3. harmless \in Alike
  BY DEF Harmless, Blind
<1>4. \A f : Known(f) <=> \A t \in Alike : Holds(f, t)
  BY DEF Known
<1>5. /\ \A p \in harmless.policies : p.collector \in Blind =>
            /\ p.collector = "security-defaults" => p.state # "disabled"
            /\ p.collector = "authorization-policy" => p.controls \cap TellingControls = {}
      /\ "conditional-access" \in Blind => Has(harmless.policies, "conditional-access", "enabled")
  BY DEF Harmless, Blind, Has
<1> HIDE DEF V, expected, Alike
(* Of the harmless one only what can be read is so.                        *)
<1>6. Has(harmless.policies, "security-defaults", "disabled") =>
        Has(V, "security-defaults", "disabled")
  BY <1>2, <1>3, <1>5 DEF Has
<1>7. \A f \in TellingControls : Sets(harmless.policies, f) <=> Sets(V, f)
  BY <1>2, <1>3, <1>5 DEF Sets
<1>8. \A t \in Alike :
        /\ Has(V, "security-defaults", "disabled") => Has(t.policies, "security-defaults", "disabled")
        /\ "conditional-access" \notin Blind =>
             (Has(t.policies, "conditional-access", "enabled")
                <=> Has(V, "conditional-access", "enabled"))
        /\ \A f : Sets(V, f) => Sets(t.policies, f)
  BY <1>2 DEF Has, Sets
(* A control that can be read is set by a policy that can be.              *)
<1>9. \A t \in Alike : Sets(V, "user-consent") /\ Sets(t.policies, "risky-consent") =>
        Sets(V, "risky-consent")
  BY <1>2 DEF Sets
<1>10. {"user-consent", "register-apps", "guests:everyone", "risky-consent"} = TellingControls
  BY DEF TellingControls
<1>11. "defaults-disabled" \in expected <=> Known("defaults-disabled")
  BY <1>1, <1>3, <1>4, <1>6, <1>8, HoldsMeans, ExpectedMeans DEF expected, V
<1>12. "no-enforcement" \in expected <=> Known("no-enforcement")
  <2>1. "no-enforcement" \in expected <=>
          /\ Has(V, "security-defaults", "disabled") /\ ~Has(V, "conditional-access", "enabled")
          /\ "conditional-access" \notin Blind
    BY ExpectedMeans DEF expected, V
  <2>2. \A t \in Alike : Holds("no-enforcement", t) <=>
          /\ Has(t.policies, "security-defaults", "disabled")
          /\ ~Has(t.policies, "conditional-access", "enabled")
    BY <1>1, HoldsMeans
  <2>3. QED
    BY <1>3, <1>4, <1>5, <1>6, <1>8, <2>1, <2>2
<1>13. "user-consent" \in expected <=> Known("user-consent")
  <2>1. "user-consent" \in expected <=> Sets(V, "user-consent") /\ ~Sets(V, "risky-consent")
    BY ExpectedMeans DEF expected, V
  <2>2. \A t \in Alike : Holds("user-consent", t) <=>
          Sets(t.policies, "user-consent") /\ ~Sets(t.policies, "risky-consent")
    BY <1>1, HoldsMeans
  <2>3. QED
    BY <1>3, <1>4, <1>7, <1>8, <1>9, <1>10, <2>1, <2>2
<1>14. \A f \in {"register-apps", "guests:everyone", "risky-consent"} : f \in expected <=> Known(f)
  <2>1. \A f \in {"register-apps", "guests:everyone", "risky-consent"} : f \in expected <=> Sets(V, f)
    BY ExpectedMeans DEF expected, V
  <2>2. \A t \in Alike : \A f \in {"register-apps", "guests:everyone", "risky-consent"} :
          Holds(f, t) <=> Sets(t.policies, f)
    BY <1>1, HoldsMeans
  <2>3. QED
    BY <1>3, <1>4, <1>7, <1>8, <1>10, <2>1, <2>2
<1>15. expected \subseteq Findings
  BY ExpectedMeans DEF expected
<1>16. TenantFindings = {f \in Findings : Known(f)}
  BY DEF TenantFindings, Findings
<1>17. expected = TenantFindings
  BY <1>11, <1>12, <1>13, <1>14, <1>15, <1>16 DEF Findings
<1>18. QED
  BY <1>17 DEF expected

(* Two finite sets of one size, one within the other.                      *)
LEMMA SameSize ==
  ASSUME NEW S, IsFiniteSet(S), NEW T, T \subseteq S, Cardinality(S) = Cardinality(T)
  PROVE  S = T
<1>1. ASSUME NEW x \in S, x \notin T
      PROVE  FALSE
  <2>1. /\ IsFiniteSet(S \ {x}) /\ Cardinality(S \ {x}) = Cardinality(S) - 1
        /\ Cardinality(S) \in Nat
    BY FS_RemoveElement, FS_CardinalityType
  <2>2. T \subseteq S \ {x}
    BY <1>1
  <2>3. Cardinality(T) <= Cardinality(S \ {x})
    BY <2>1, <2>2, FS_Subset
  <2>4. QED
    BY <2>1, <2>3
<1>2. QED
  BY <1>1

LEMMA RightAuthPoliciesPass ==
  ASSUME IsTenant(azure.tenant), NEW harmless \in Tenants, Harmless(harmless, azure),
         Honest("auth-policies")
  PROVE  AuthPoliciesFindings(told["auth-policies"], ContextOf("auth-policies")) = {}
<1> DEFINE V == VisiblePolicies(azure.tenant, Blind)
           payload == told["auth-policies"]
           context == ContextOf("auth-policies")
<1>1. payload = [rows |-> V, issues |-> Unread("auth-policies"), findings |-> TenantFindings]
  BY DEF Honest, Right
<1>2. payload.rows = V /\ payload.issues = Unread("auth-policies")
      /\ payload.findings = TenantFindings
  BY <1>1
<1>3. context = AuthPoliciesContext(azure.tenant, Blind)
  BY DEF ContextOf
<1>4. context.policies = V /\ context.issues = Unread("auth-policies")
  BY <1>3 DEF AuthPoliciesContext, Unread
<1>5. authPolicyExpectedFindingIDs(context) = TenantFindings
  BY <1>3, ExpectedIsKnown
<1> HIDE DEF payload, context, V
<1>6. IssueFindings(payload, context) = {}
  BY <1>2, <1>4 DEF IssueFindings
<1>7. QED
  <2>1. AuthPoliciesFindings(payload, context) = {}
    BY <1>2, <1>4, <1>5, <1>6 DEF AuthPoliciesFindings
  <2>2. QED
    BY <2>1 DEF payload, context

LEMMA PassedAuthPoliciesKept ==
  ASSUME IsTenant(azure.tenant), NEW harmless \in Tenants, Harmless(harmless, azure),
         IsFiniteSet(told["auth-policies"].rows),
         AuthPoliciesFindings(told["auth-policies"], ContextOf("auth-policies")) = {}
  PROVE  TenantKept("auth-policies")
<1> DEFINE V == VisiblePolicies(azure.tenant, Blind)
           payload == told["auth-policies"]
           context == ContextOf("auth-policies")
<1>1. context = AuthPoliciesContext(azure.tenant, Blind)
  BY DEF ContextOf
<1>2. context.policies = V /\ context.issues = Unread("auth-policies")
  BY <1>1 DEF AuthPoliciesContext, Unread
<1>3. authPolicyExpectedFindingIDs(context) = TenantFindings
  BY <1>1, ExpectedIsKnown
<1>4. AuthPoliciesFindings(payload, context) = {} /\ IsFiniteSet(payload.rows)
  OBVIOUS
<1> HIDE DEF payload, context, V
<1>5. /\ Cardinality(payload.rows) = Cardinality(V)
      /\ V \subseteq payload.rows
      /\ IssueFindings(payload, context) = {}
      /\ payload.findings = TenantFindings
  BY <1>2, <1>3, <1>4 DEF AuthPoliciesFindings
<1>6. payload.rows = V
  BY <1>4, <1>5, SameSize
<1>7. Unread("auth-policies") \subseteq payload.issues
  BY <1>2, <1>5 DEF IssueFindings
<1>8. QED
  BY <1>5, <1>6, <1>7 DEF TenantKept, payload, V

CrossTenantShown == CrossTenantContext(azure.tenant, Blind).rows

LEMMA LeastCrossTenant ==
  /\ \E right \in RightCrossTenant : right.rows = CrossTenantShown
  /\ \A right \in RightCrossTenant :
       CrossTenantShown \subseteq right.rows /\ right.issues = Unread("cross-tenant")
  /\ CrossTenantContext(azure.tenant, Blind).issues = Unread("cross-tenant")
<1> DEFINE ids == IF "external-principals" \in Blind THEN <<>> ELSE azure.tenant.externals
           all == {ExternalRow(x) : x \in ToSet(ids)}
           first == {ExternalRow(ids[i]) : i \in {j \in DOMAIN ids : j <= SampleLimit}}
           policy == crossTenantPolicyRows(VisiblePolicies(azure.tenant, Blind))
<1>1. first \subseteq all
  BY DEF ToSet
<1>2. CrossTenantShown = policy \cup first
  <2> DEFINE counted == {j \in DOMAIN azure.tenant.externals :
                            "external-principals" \notin Blind /\ j <= SampleLimit}
  <2>1. CrossTenantShown = policy \cup {ExternalRow(azure.tenant.externals[i]) : i \in counted}
    BY DEF CrossTenantShown, CrossTenantContext
  <2>2. CASE "external-principals" \in Blind
    <3>1. counted = {}
      BY <2>2
    <3>2. first = {}
      BY <2>2
    <3>3. QED
      BY <2>1, <3>1, <3>2
  <2>3. CASE "external-principals" \notin Blind
    <3>1. counted = {j \in DOMAIN ids : j <= SampleLimit} /\ ids = azure.tenant.externals
      BY <2>3
    <3>2. QED
      BY <2>1, <3>1
  <2>4. QED
    BY <2>2, <2>3
<1>3. RightCrossTenant = {[rows |-> policy \cup shown, issues |-> Unread("cross-tenant")] :
                             shown \in {S \in SUBSET all : first \subseteq S}}
  BY DEF RightCrossTenant
<1>4. CrossTenantContext(azure.tenant, Blind).issues = Unread("cross-tenant")
  BY DEF CrossTenantContext, Unread
<1> HIDE DEF all, first, policy
<1>5. first \in {S \in SUBSET all : first \subseteq S}
  BY <1>1
<1>6. \E right \in RightCrossTenant : right.rows = CrossTenantShown
  <2>1. [rows |-> policy \cup first, issues |-> Unread("cross-tenant")] \in RightCrossTenant
    BY <1>3, <1>5
  <2>2. QED
    BY <1>2, <2>1
<1>7. ASSUME NEW right \in RightCrossTenant
      PROVE  CrossTenantShown \subseteq right.rows /\ right.issues = Unread("cross-tenant")
  <2>1. PICK shown \in {S \in SUBSET all : first \subseteq S} :
          right = [rows |-> policy \cup shown, issues |-> Unread("cross-tenant")]
    BY <1>3
  <2>2. QED
    BY <1>2, <2>1
<1>8. QED
  BY <1>4, <1>6, <1>7

LEMMA RightCrossTenantPasses ==
  ASSUME Honest("cross-tenant")
  PROVE  CrossTenantFindings(told["cross-tenant"], ContextOf("cross-tenant")) = {}
<1>1. told["cross-tenant"] \in RightCrossTenant
  BY DEF Honest, Right
<1>2. ContextOf("cross-tenant") = CrossTenantContext(azure.tenant, Blind)
  BY DEF ContextOf
<1>3. /\ ContextOf("cross-tenant").rows \subseteq told["cross-tenant"].rows
      /\ ContextOf("cross-tenant").issues = told["cross-tenant"].issues
  BY <1>1, <1>2, LeastCrossTenant DEF CrossTenantShown
<1>4. IssueFindings(told["cross-tenant"], ContextOf("cross-tenant")) = {}
  BY <1>3 DEF IssueFindings
<1>5. QED
  BY <1>3, <1>4 DEF CrossTenantFindings

LEMMA PassedCrossTenantKept ==
  ASSUME CrossTenantFindings(told["cross-tenant"], ContextOf("cross-tenant")) = {}
  PROVE  TenantKept("cross-tenant")
<1>1. ContextOf("cross-tenant") = CrossTenantContext(azure.tenant, Blind)
  BY DEF ContextOf
<1>2. /\ \A p \in ContextOf("cross-tenant").rows : p \in told["cross-tenant"].rows
      /\ IssueFindings(told["cross-tenant"], ContextOf("cross-tenant")) = {}
  BY DEF CrossTenantFindings
<1>3. ContextOf("cross-tenant").issues \subseteq told["cross-tenant"].issues
  BY <1>2 DEF IssueFindings
<1>4. \E right \in RightCrossTenant : right.rows \subseteq told["cross-tenant"].rows
  BY <1>1, <1>2, LeastCrossTenant DEF CrossTenantShown
<1>5. Unread("cross-tenant") \subseteq told["cross-tenant"].issues
  BY <1>1, <1>3, LeastCrossTenant
<1>6. QED
  BY <1>4, <1>5 DEF TenantKept

(* What the capture of role-trusts records.                                *)
LEMMA RoleTrustsRecorded ==
  LET context == ContextOf("role-trusts") IN
  /\ context.zero <=> "census" \in Blind
  /\ context.trusts = {t \in Seen : CanaryTrust(Canary, t)}
  /\ context.issues = IF "census" \in Blind THEN {"census"} ELSE Blind \cap TrustCollectors
<1>1. ContextOf("role-trusts") =
        [zero |-> "census" \in Blind,
         trusts |-> {t \in Seen : CanaryTrust(Canary, t)},
         issues |-> IF "census" \in Blind THEN {"census"} ELSE Blind \cap TrustCollectors]
  BY DEF ContextOf, RoleTrustsContext, Seen
<1>2. ContextOf("role-trusts").zero = ("census" \in Blind)
  BY <1>1
<1>3. /\ ContextOf("role-trusts").trusts = {t \in Seen : CanaryTrust(Canary, t)}
      /\ ContextOf("role-trusts").issues =
           IF "census" \in Blind THEN {"census"} ELSE Blind \cap TrustCollectors
  BY <1>1
<1>4. ContextOf("role-trusts").zero <=> "census" \in Blind
  BY <1>2
<1>5. QED
  BY <1>3, <1>4, Zenon

LEMMA RightRoleTrustsPass ==
  ASSUME IsLab(azure), Honest("role-trusts")
  PROVE  RoleTrustsFindings(told["role-trusts"], ContextOf("role-trusts")) = {}
<1> DEFINE payload == told["role-trusts"]
           context == ContextOf("role-trusts")
<1>2. /\ context.zero <=> "census" \in Blind
      /\ context.trusts \subseteq Seen
      /\ context.issues = IF "census" \in Blind THEN {"census"} ELSE Blind \cap TrustCollectors
  BY RoleTrustsRecorded
<1>3. PICK n \in Nat : DOMAIN payload.rows = 1..n
  BY RightListings
<1>4. ToSet(payload.rows) = Seen
      /\ payload.issues = IF "census" \in Blind THEN {"census"} ELSE Unread("role-trusts")
  BY RightListings
<1>5. CASE "census" \in Blind
  <2>1. Seen = {}
    BY <1>5 DEF Seen, VisibleTrusts
  <2>2. payload.rows = <<>>
    <3>1. payload.rows \in SetToSeqs(Seen)
      BY DEF Honest, Right
    <3>2. Cardinality({}) = 0
      BY FS_EmptySet
    <3>3. payload.rows \in [1..0 -> {}]
      BY <2>1, <3>1, <3>2 DEF SetToSeqs
    <3>4. QED
      BY <3>3
  <2> HIDE DEF payload, context
  <2>3. RoleTrustsFindings(payload, context) = {}
    BY <1>2, <1>4, <1>5, <2>2 DEF RoleTrustsFindings
  <2>4. QED
    BY <2>3 DEF payload, context
<1>6. CASE "census" \notin Blind
  <2>1. payload.issues = context.issues
    BY <1>2, <1>4, <1>6 DEF Unread, Collectors
  <2> HIDE DEF payload, context
  <2>2. RoleTrustsFindings(payload, context) = {}
    BY <1>2, <1>4, <1>6, <2>1 DEF RoleTrustsFindings
  <2>3. QED
    BY <2>2 DEF payload, context
<1>7. QED
  BY <1>5, <1>6

(* A row is that of a trust of azure, or has a column no trust has.        *)
RowKnown(r) == r.column = "another" \/ \A t \in azure.trusts : SameEdge(t, r) => t = r

LEMMA PassedRoleTrustsKept ==
  ASSUME IsLab(azure), \A r \in ToSet(told["role-trusts"].rows) : RowKnown(r),
         RoleTrustsFindings(told["role-trusts"], ContextOf("role-trusts")) = {}
  PROVE  TenantKept("role-trusts")
<1> DEFINE payload == told["role-trusts"]
           context == ContextOf("role-trusts")
<1>2. /\ context.zero <=> "census" \in Blind
      /\ context.trusts = {t \in Seen : CanaryTrust(Canary, t)}
      /\ "census" \in Blind => context.issues = {"census"}
  BY RoleTrustsRecorded
<1>3. /\ RoleTrustsFindings(payload, context) = {}
      /\ \A r \in ToSet(payload.rows) : RowKnown(r)
  OBVIOUS
<1>4. \A t \in Seen : t \in azure.trusts /\ t.column # "another"
  BY DEF Seen, VisibleTrusts, IsLab, TrustCollectors
<1> HIDE DEF payload, context
<1>5. CASE "census" \in Blind
  <2>1. payload.rows = <<>> /\ {"census"} \subseteq payload.issues
    BY <1>2, <1>3, <1>5 DEF RoleTrustsFindings
  <2>2. Seen = {}
    BY <1>5 DEF Seen, VisibleTrusts
  <2>3. QED
    BY <2>1, <2>2 DEF TenantKept, payload
<1>6. CASE "census" \notin Blind
  <2>1. ASSUME NEW t \in Seen, CanaryTrust(Canary, t)
        PROVE  t \in ToSet(payload.rows)
    <3>1. t \in context.trusts
      BY <1>2, <2>1
    <3>2. PICK r \in ToSet(payload.rows) :
            /\ r.type = t.type /\ r.source = t.source /\ r.target = t.target
            /\ r.column = t.column
      BY <1>2, <1>3, <1>6, <3>1 DEF RoleTrustsFindings
    <3>3. t = r
      BY <1>3, <1>4, <3>2 DEF RowKnown, SameEdge
    <3>4. QED
      BY <3>3
  <2>2. QED
    BY <1>6, <2>1 DEF TenantKept, payload
<1>7. QED
  BY <1>5, <1>6

-----------------------------------------------------------------------------
(* What depends on azure only *)

LEMMA SameAzureSameRights ==
  ASSUME azure' = azure
  PROVE  /\ \A p : Grants(p)' = Grants(p) /\ PermissionRow(p)' = PermissionRow(p)
         /\ Holders' = Holders /\ Rbac' = Rbac
         /\ \A roles : Control(roles)' = Control(roles)
         /\ \A s : Proven(s)' = Proven(s)
         /\ Blind' = Blind /\ Seen' = Seen
<1>1. \A p : Grants(p)' = Grants(p)
  BY DEF Grants
<1>2. \A p : RolesHeld(p)' = RolesHeld(p)
  BY <1>1 DEF RolesHeld
<1>3. \A p : PermissionRow(p)' = PermissionRow(p)
  BY <1>1, <1>2 DEF PermissionRow
<1>4. Holders' = Holders
  BY <1>1 DEF Holders
<1>5. Rbac' = Rbac
  BY <1>1 DEF Rbac
<1>6. \A roles : Control(roles)' = Control(roles)
  BY <1>1 DEF Control
<1>7. \A s : Proven(s)' = Proven(s)
  BY <1>6 DEF Proven
<1>8. Blind' = Blind
  BY DEF Blind
<1>9. Seen' = Seen
  BY <1>8 DEF Seen
<1>10. QED
  BY <1>1, <1>3, <1>4, <1>5, <1>6, <1>7, <1>8, <1>9

LEMMA SameAzureSameTruth ==
  ASSUME azure' = azure
  PROVE  /\ \A c : Right(c)' = Right(c)
         /\ \A c : ContextOf(c)' = ContextOf(c)
         /\ \A r : RowKnown(r)' <=> RowKnown(r)
<1>1. /\ \A p : Grants(p)' = Grants(p) /\ PermissionRow(p)' = PermissionRow(p)
      /\ Holders' = Holders /\ Rbac' = Rbac
      /\ \A roles : Control(roles)' = Control(roles)
      /\ \A s : Proven(s)' = Proven(s)
      /\ Blind' = Blind /\ Seen' = Seen
  BY SameAzureSameRights
<1>2. \A p : Stronger(p)' <=> Stronger(p)
  BY <1>1 DEF Stronger
<1>3. Reached' = Reached
  BY <1>1 DEF Reached
<1>4. Leads' = Leads
  BY <1>1, <1>2, <1>3 DEF Leads
<1>5. RightEscalation' = RightEscalation
  BY <1>1, <1>4 DEF RightEscalation
<1>6. RightExecution' = RightExecution
  BY <1>1 DEF RightExecution
<1>7. \A c : RightPersistence(c)' = RightPersistence(c)
  BY <1>1, <1>6 DEF RightPersistence
<1>8. \A c : Unread(c)' = Unread(c)
  BY <1>1 DEF Unread
<1>9. \A f : Known(f)' <=> Known(f)
  BY <1>1 DEF Known
<1>10. TenantFindings' = TenantFindings
  BY <1>9 DEF TenantFindings
<1>11. RightCrossTenant' = RightCrossTenant
  <2>1. /\ Blind' = Blind /\ azure' = azure
        /\ Unread("cross-tenant")' = Unread("cross-tenant")
    BY <1>1, <1>8
  <2>2. QED
    BY <2>1, ZenonT(60) DEF RightCrossTenant
<1>12. \A c : Right(c)' = Right(c)
  BY <1>1, <1>5, <1>7, <1>8, <1>10, <1>11 DEF Right
<1>13. \A c : ContextOf(c)' = ContextOf(c)
  BY <1>1 DEF ContextOf
<1>14. \A r : RowKnown(r)' <=> RowKnown(r)
  BY DEF RowKnown
<1>15. QED
  BY <1>12, <1>13, <1>14

-----------------------------------------------------------------------------
(* What is told *)

LEMMA RemoveAtLeaves ==
  ASSUME NEW S, NEW list \in Seq(S), NEW i \in DOMAIN list
  PROVE  ToSet(RemoveAt(list, i)) \subseteq S
<1>1. i \in 1..Len(list) /\ Len(list) \in Nat
  OBVIOUS
<1>2. SubSeq(list, 1, i - 1) \in Seq(S) /\ SubSeq(list, i + 1, Len(list)) \in Seq(S)
  BY <1>1, SubSeqProperties
<1>3. RemoveAt(list, i) \in Seq(S)
  BY <1>2, ConcatProperties DEF RemoveAt
<1>4. QED
  BY <1>3 DEF ToSet

LEMMA PoliciesToldAreFinite ==
  ASSUME IsTenant(azure.tenant), NEW right \in Right("auth-policies"),
         NEW payload \in {right} \cup Wrong("auth-policies", right)
  PROVE  IsFiniteSet(payload.rows)
<1> DEFINE V == VisiblePolicies(azure.tenant, Blind)
<1>1. right = [rows |-> V, issues |-> Unread("auth-policies"), findings |-> TenantFindings]
  BY DEF Right
<1>2. IsFiniteSet(V)
  <2>1. V \subseteq azure.tenant.policies
    BY DEF VisiblePolicies
  <2>2. QED
    BY <2>1, FS_Subset DEF IsTenant
<1>3. right.rows = V /\ DOMAIN right = {"rows", "issues", "findings"}
  BY <1>1
<1> HIDE DEF V
<1>4. payload = right \/ payload \in WrongTenantPayload("auth-policies", right)
  BY DEF Wrong, TenantCommands
<1>5. ASSUME payload \in WrongTenantPayload("auth-policies", right)
      PROVE  \/ payload.rows = V
             \/ \E r \in V : payload.rows = V \ {r}
             \/ \E r \in V : \E w \in WrongPolicy(r) : payload.rows = (V \ {r}) \cup {w}
  <2>1. \/ payload \in {[right EXCEPT !.issues = (@ \ {c}) \cup ({c} \ @)] :
                            c \in Collectors("auth-policies")}
        \/ payload \in {[right EXCEPT !.rows = @ \ {r}] : r \in right.rows}
        \/ payload \in UNION {{[right EXCEPT !.rows = (@ \ {r}) \cup {w}] : w \in WrongPolicy(r)} :
                                  r \in right.rows}
        \/ payload \in {[right EXCEPT !.findings = (@ \ {f}) \cup ({f} \ @)] :
                            f \in {"no-enforcement", "user-consent", "guests:everyone"}}
    BY <1>5 DEF WrongTenantPayload
  <2>2. QED
    BY <1>3, <2>1
<1>6. \A r : IsFiniteSet(V \ {r}) /\ \A w : IsFiniteSet((V \ {r}) \cup {w})
  BY <1>2, FS_RemoveElement, FS_AddElement
<1>7. CASE payload = right
  BY <1>2, <1>3, <1>7
<1>8. CASE payload \in WrongTenantPayload("auth-policies", right)
  <2>1. CASE payload.rows = V
    BY <1>2, <2>1
  <2>2. CASE \E r \in V : payload.rows = V \ {r}
    <3>1. PICK r \in V : payload.rows = V \ {r}
      BY <2>2
    <3>2. QED
      BY <1>6, <3>1
  <2>3. CASE \E r \in V : \E w \in WrongPolicy(r) : payload.rows = (V \ {r}) \cup {w}
    <3>1. PICK r \in V : \E w \in WrongPolicy(r) : payload.rows = (V \ {r}) \cup {w}
      BY <2>3
    <3>2. PICK w \in WrongPolicy(r) : payload.rows = (V \ {r}) \cup {w}
      BY <3>1
    <3>3. QED
      BY <1>6, <3>2
  <2>4. QED
    BY <1>5, <1>8, <2>1, <2>2, <2>3
<1>9. QED
  BY <1>4, <1>7, <1>8

LEMMA TrustsToldAreKnown ==
  ASSUME IsLab(azure), NEW right \in Right("role-trusts"),
         NEW payload \in {right} \cup Wrong("role-trusts", right), NEW r \in ToSet(payload.rows)
  PROVE  RowKnown(r)
<1>1. PICK list \in SetToSeqs(Seen) :
        \E issues : right = [rows |-> list, issues |-> issues]
  BY DEF Right
<1>2. Seen \subseteq azure.trusts
  BY DEF Seen, VisibleTrusts
<1>3. IsFiniteSet(Seen)
  BY <1>2, FS_Subset DEF IsLab
<1>4. ToSet(list) = Seen /\ DOMAIN list = 1..Cardinality(Seen) /\ Cardinality(Seen) \in Nat
  BY <1>3, ListsAll
<1>5. list \in Seq(Seen)
  BY <1>4 DEF SetToSeqs
<1>6. \A t \in Seen : RowKnown(t)
  BY <1>2 DEF RowKnown, IsLab, SameEdge
<1>7. right.rows = list /\ DOMAIN right = {"rows", "issues"}
  BY <1>1
<1>8. CASE payload = right
  BY <1>4, <1>6, <1>7, <1>8
<1>9. CASE payload \in {[right EXCEPT !.issues = (@ \ {c}) \cup ({c} \ @)] :
                            c \in Collectors("role-trusts")}
  BY <1>4, <1>6, <1>7, <1>9
<1>10. CASE payload \in {[right EXCEPT !.rows = RemoveAt(@, i)] : i \in DOMAIN right.rows}
  <2>1. PICK i \in DOMAIN list : payload.rows = RemoveAt(list, i)
    BY <1>7, <1>10
  <2>2. QED
    BY <1>5, <1>6, <2>1, RemoveAtLeaves
<1>11. CASE payload \in {[right EXCEPT !.rows[i].column = "another"] : i \in DOMAIN right.rows}
  <2>1. PICK i \in DOMAIN list :
          payload.rows = [list EXCEPT ![i] = [list[i] EXCEPT !.column = "another"]]
    BY <1>7, <1>11
  <2>2. DOMAIN payload.rows = DOMAIN list
    BY <2>1
  <2>3. PICK j \in DOMAIN list : r = payload.rows[j]
    BY <2>2 DEF ToSet
  <2>4. CASE j # i
    <3>1. r = list[j]
      BY <2>1, <2>3, <2>4
    <3>2. QED
      BY <1>4, <1>6, <3>1 DEF ToSet
  <2>5. CASE j = i
    <3>1. r = [list[i] EXCEPT !.column = "another"]
      BY <2>1, <2>3, <2>5
    <3>2. list[i] \in azure.trusts
      BY <1>2, <1>4 DEF ToSet
    <3>3. r.column = "another"
      BY <3>1, <3>2 DEF IsLab
    <3>4. QED
      BY <3>3 DEF RowKnown
  <2>6. QED
    BY <2>4, <2>5
<1>12. QED
  <2>1. payload = right \/ payload \in WrongTenantPayload("role-trusts", right)
    BY DEF Wrong, TenantCommands
  <2>2. QED
    BY <1>8, <1>9, <1>10, <1>11, <2>1 DEF WrongTenantPayload

-----------------------------------------------------------------------------
(* The invariant *)

(* The lab is that of a scenario, or an edit of it; nobody edits before a  *)
(* payload is told, or when one is wrong.                                  *)
Placed ==
  /\ \E s \in Scenarios : plan = s.plan /\ IF edited THEN azure \in Edits(s.lab) ELSE azure = s.lab
  /\ edited => slip = None /\ DOMAIN told # {}

(* Before an edit a payload is what a right tool prints of azure, or one   *)
(* error away from it.                                                     *)
ToldOfAzure ==
  ~edited => \A c \in DOMAIN told :
    IF slip = c THEN \E right \in Right(c) : told[c] \in Wrong(c, right) ELSE Honest(c)

(* What stays true of the rows of a command that runs alone.               *)
RowsStayKnown ==
  /\ "auth-policies" \in DOMAIN told => IsFiniteSet(told["auth-policies"].rows)
  /\ "role-trusts" \in DOMAIN told /\ (edited => plan = <<"role-trusts">>) =>
       \A r \in ToSet(told["role-trusts"].rows) : RowKnown(r)

(* A capture is of azure as it is, unless it was made before an edit.      *)
RecordedOfAzure ==
  \A c \in DOMAIN recorded :
    (edited => plan = <<c>>) => recorded[c] \in {NotCaptured, ContextOf(c)}

ReportOf(foothold) == UNION {FindingsOf(c, foothold) : c \in {x \in Checks : HasPassed(x)}}

ReportedOfTold ==
  Validated => /\ Pending = {} /\ ToCapture = {}
               /\ \E foothold \in Footholds : findings = ReportOf(foothold)

FootholdInv ==
  /\ TypeOK /\ told = [c \in DOMAIN told |-> told[c]]
  /\ Placed /\ ToldOfAzure /\ RowsStayKnown /\ RecordedOfAzure /\ ReportedOfTold

LEMMA PlaceFacts ==
  ASSUME Placed
  PROVE  /\ IsPlan(plan) /\ IsLab(azure)
         /\ ~edited => /\ Real
                       /\ \A lab \in Edits(azure) : \A t \in azure.trusts, u \in lab.trusts :
                            SameEdge(t, u) => t = u
         /\ "auth-policies" \in Checks => \E harmless \in Tenants : Harmless(harmless, azure)
<1>1. PICK s \in Scenarios :
        plan = s.plan /\ IF edited THEN azure \in Edits(s.lab) ELSE azure = s.lab
  BY DEF Placed
<1>2. IsPlan(plan) /\ IsLab(azure)
  BY <1>1, ScenariosAssumption
<1>3. ASSUME ~edited
      PROVE  /\ Real
             /\ \A lab \in Edits(azure) : \A t \in azure.trusts, u \in lab.trusts :
                  SameEdge(t, u) => t = u
  <2>1. azure = s.lab
    BY <1>1, <1>3
  <2>2. s.lab.grants[Me] # {}
        /\ \A lab \in Edits(s.lab) : \A t \in s.lab.trusts, u \in lab.trusts : SameEdge(t, u) => t = u
    BY ScenariosAssumption
  <2>3. QED
    BY <1>2, <2>1, <2>2 DEF Real, Grants
<1>4. "auth-policies" \in Checks => \E harmless \in Tenants : Harmless(harmless, azure)
  BY <1>1, TenantsAssumption DEF Checks
<1>5. QED
  BY <1>2, <1>3, <1>4

LEMMA WithTold ==
  ASSUME NEW f, NEW c, NEW v, NEW g, g = With(f, c, v)
  PROVE  /\ DOMAIN g = DOMAIN f \cup {c} /\ g = [x \in DOMAIN g |-> g[x]]
         /\ g[c] = v /\ \A x \in DOMAIN f : x # c => g[x] = f[x]
BY DEF With

LEMMA FirstPending ==
  ASSUME IsPlan(plan), Pending # {}
  PROVE  LET check == plan[CHOOSE i \in Pending : \A j \in Pending : i <= j]
         IN  check \in Checks /\ check \notin DOMAIN told
<1>1. Pending \subseteq DOMAIN plan /\ Pending \subseteq Nat
  BY DEF Pending, IsPlan
<1>2. \E i \in Pending : \A j \in Pending : i <= j
  BY <1>1, Least
<1>3. (CHOOSE i \in Pending : \A j \in Pending : i <= j) \in Pending
  BY <1>2
<1>4. QED
  BY <1>3 DEF Pending, Checks, ToSet

LEMMA FootholdInit == Init => FootholdInv
<1> SUFFICES ASSUME Init PROVE FootholdInv
  OBVIOUS
<1>1. told = Unsaid /\ recorded = Unsaid /\ edited = FALSE /\ findings = NotValidated
      /\ slip \in {None} \cup Checks
  BY DEF Init, Checks
<1>2. DOMAIN told = {} /\ DOMAIN recorded = {} /\ told = [c \in DOMAIN told |-> told[c]]
  BY <1>1 DEF Unsaid
<1>3. TypeOK
  BY <1>1, <1>2 DEF TypeOK
<1>4. Placed
  BY <1>1 DEF Init, Placed
<1>5. ToldOfAzure /\ RowsStayKnown /\ RecordedOfAzure
  BY <1>2 DEF ToldOfAzure, RowsStayKnown, RecordedOfAzure
<1>6. ReportedOfTold
  BY <1>1 DEF ReportedOfTold, Validated
<1>7. QED
  BY <1>2, <1>3, <1>4, <1>5, <1>6 DEF FootholdInv

LEMMA TellKeeps == FootholdInv /\ Tell => FootholdInv'
<1> SUFFICES ASSUME FootholdInv, Tell PROVE FootholdInv'
  OBVIOUS
<1> DEFINE check == plan[CHOOSE i \in Pending : \A j \in Pending : i <= j]
<1>1. Pending # {} /\ UNCHANGED <<azure, plan, recorded, slip, edited, findings>>
  BY DEF Tell
<1>2. PICK right \in Right(check) :
        \E payload \in IF slip = check THEN Wrong(check, right) ELSE {right} :
          told' = With(told, check, payload)
  BY DEF Tell
<1>3. PICK payload \in IF slip = check THEN Wrong(check, right) ELSE {right} :
        told' = With(told, check, payload)
  BY <1>2
<1>4. /\ TypeOK /\ Placed /\ ToldOfAzure /\ RowsStayKnown /\ RecordedOfAzure /\ ReportedOfTold
      /\ IsPlan(plan) /\ IsLab(azure)
  BY PlaceFacts DEF FootholdInv
<1>5. check \in Checks /\ check \notin DOMAIN told
  BY <1>1, <1>4, FirstPending
<1> HIDE DEF check
<1>6. /\ DOMAIN told' = DOMAIN told \cup {check} /\ told' = [c \in DOMAIN told' |-> told'[c]]
      /\ told'[check] = payload /\ \A c \in DOMAIN told : told'[c] = told[c]
  <2>1. told' = With(told, check, payload)
    BY <1>3
  <2>2. QED
    BY <1>5, <2>1 DEF With
<1>7. /\ \A c : Right(c)' = Right(c)
      /\ \A c : ContextOf(c)' = ContextOf(c)
      /\ \A r : RowKnown(r)' <=> RowKnown(r)
  BY <1>1, SameAzureSameTruth
<1>8. TypeOK'
  BY <1>1, <1>4, <1>5, <1>6 DEF TypeOK, Checks
<1>9. Placed'
  BY <1>1, <1>4, <1>6 DEF Placed
<1>10. ToldOfAzure'
  <2>1. CASE edited
    BY <1>1, <2>1 DEF ToldOfAzure
  <2>2. CASE ~edited
    <3>1. ASSUME NEW c \in DOMAIN told
          PROVE  IF slip = c THEN \E r \in Right(c) : told'[c] \in Wrong(c, r)
                 ELSE told'[c] \in Right(c)
      BY <1>4, <1>6, <2>2, <3>1 DEF ToldOfAzure, Honest
    <3>2. IF slip = check THEN \E r \in Right(check) : told'[check] \in Wrong(check, r)
          ELSE told'[check] \in Right(check)
      BY <1>2, <1>3, <1>6
    <3>3. \A c \in DOMAIN told' :
            IF slip = c THEN \E r \in Right(c) : told'[c] \in Wrong(c, r) ELSE told'[c] \in Right(c)
      BY <1>6, <3>1, <3>2
    <3>4. QED
      BY <1>1, <1>7, <3>3 DEF ToldOfAzure, Honest
  <2>3. QED
    BY <2>1, <2>2
<1>11. RowsStayKnown'
  <2>1. payload \in {right} \cup Wrong(check, right)
    BY <1>3
  <2>2. ASSUME "auth-policies" \in DOMAIN told'
        PROVE  IsFiniteSet(told'["auth-policies"].rows)
    <3>1. CASE check = "auth-policies"
      <4>1. IsFiniteSet(payload.rows)
        BY <1>4, <1>2, <2>1, <3>1, PoliciesToldAreFinite DEF IsLab
      <4>2. QED
        BY <1>6, <3>1, <4>1
    <3>2. CASE check # "auth-policies"
      BY <1>4, <1>6, <2>2, <3>2 DEF RowsStayKnown
    <3>3. QED
      BY <3>1, <3>2
  <2>3. ASSUME "role-trusts" \in DOMAIN told', edited => plan = <<"role-trusts">>,
               NEW r \in ToSet(told'["role-trusts"].rows)
        PROVE  RowKnown(r)
    <3>1. CASE check = "role-trusts"
      <4>1. r \in ToSet(payload.rows)
        BY <1>6, <2>3, <3>1
      <4>2. QED
        BY <1>4, <1>2, <2>1, <3>1, <4>1, TrustsToldAreKnown
    <3>2. CASE check # "role-trusts"
      BY <1>4, <1>6, <2>3, <3>2 DEF RowsStayKnown
    <3>3. QED
      BY <3>1, <3>2
  <2>4. QED
    BY <1>1, <1>7, <2>2, <2>3 DEF RowsStayKnown
<1>12. RecordedOfAzure'
  BY <1>1, <1>4, <1>7 DEF RecordedOfAzure, NotCaptured
<1>13. ReportedOfTold'
  BY <1>1, <1>4 DEF ReportedOfTold, Validated, NotValidated
<1>14. QED
  BY <1>6, <1>8, <1>9, <1>10, <1>11, <1>12, <1>13 DEF FootholdInv

(* A capture, or the failure of one, records of one command.               *)
LEMMA CaptureKeeps ==
  ASSUME FootholdInv, NEW command \in ToCapture, NEW context \in {NotCaptured, ContextOf(command)},
         recorded' = With(recorded, command, context),
         UNCHANGED <<azure, plan, told, slip, edited, findings>>
  PROVE  FootholdInv'
<1>1. /\ TypeOK /\ Placed /\ ToldOfAzure /\ RowsStayKnown /\ RecordedOfAzure /\ ReportedOfTold
      /\ told = [c \in DOMAIN told |-> told[c]]
  BY DEF FootholdInv
<1>2. UNCHANGED azure /\ UNCHANGED plan /\ UNCHANGED told /\ UNCHANGED slip /\ UNCHANGED edited
      /\ UNCHANGED findings
  OBVIOUS
<1>3. /\ DOMAIN recorded' = DOMAIN recorded \cup {command}
      /\ recorded'[command] = context
      /\ \A c \in DOMAIN recorded : c # command => recorded'[c] = recorded[c]
  BY DEF With
<1>4. /\ \A c : Right(c)' = Right(c)
      /\ \A c : ContextOf(c)' = ContextOf(c)
      /\ \A r : RowKnown(r)' <=> RowKnown(r)
  BY <1>2, SameAzureSameTruth
<1>5. command \in DOMAIN told \cap TenantCommands /\ ~Validated
  BY <1>1 DEF ToCapture, ReportedOfTold
<1>6. TypeOK'
  BY <1>1, <1>2, <1>3, <1>5 DEF TypeOK, Checks
<1>7. Placed'
  BY <1>1, <1>2 DEF Placed
<1>8. ToldOfAzure'
  BY <1>1, <1>2, <1>4 DEF ToldOfAzure, Honest
<1>9. RowsStayKnown'
  BY <1>1, <1>2, <1>4 DEF RowsStayKnown
<1>10. RecordedOfAzure'
  <2>1. ASSUME NEW c \in DOMAIN recorded', edited => plan = <<c>>
        PROVE  recorded'[c] \in {NotCaptured, ContextOf(c)}
    <3>1. CASE c = command
      BY <1>3, <3>1
    <3>2. CASE c # command
      BY <1>1, <1>3, <2>1, <3>2 DEF RecordedOfAzure
    <3>3. QED
      BY <3>1, <3>2
  <2>2. QED
    BY <1>2, <1>4, <2>1 DEF RecordedOfAzure, NotCaptured
<1>11. ReportedOfTold'
  BY <1>2, <1>5 DEF ReportedOfTold, Validated, NotValidated
<1>12. QED
  BY <1>1, <1>2, <1>6, <1>7, <1>8, <1>9, <1>10, <1>11 DEF FootholdInv

(* An edit comes after a payload; when its command is all there is, before *)
(* the capture.                                                            *)
LEMMA EditKeeps == FootholdInv /\ Edit => FootholdInv'
<1> SUFFICES ASSUME FootholdInv, Edit PROVE FootholdInv'
  OBVIOUS
<1>1. /\ TypeOK /\ Placed /\ ToldOfAzure /\ RowsStayKnown /\ RecordedOfAzure /\ ReportedOfTold
      /\ told = [c \in DOMAIN told |-> told[c]] /\ IsPlan(plan) /\ IsLab(azure)
  BY PlaceFacts DEF FootholdInv
<1>2. /\ ~edited /\ slip = None /\ told # Unsaid /\ (Pending # {} \/ ToCapture # {})
      /\ azure' \in Edits(azure) /\ edited' = TRUE
      /\ UNCHANGED plan /\ UNCHANGED told /\ UNCHANGED recorded /\ UNCHANGED slip
      /\ UNCHANGED findings
  BY DEF Edit
<1>3. DOMAIN told # {}
  BY <1>1, <1>2 DEF Unsaid
<1>4. TypeOK'
  BY <1>1, <1>2 DEF TypeOK, Checks
<1>5. Placed'
  BY <1>1, <1>2, <1>3 DEF Placed
<1>6. ToldOfAzure'
  BY <1>2 DEF ToldOfAzure
<1>7. RowsStayKnown'
  <2>1. ASSUME "role-trusts" \in DOMAIN told, NEW r \in ToSet(told["role-trusts"].rows)
        PROVE  RowKnown(r)'
    <3>1. Honest("role-trusts")
      BY <1>1, <1>2, <2>1 DEF ToldOfAzure, None
    <3>2. ToSet(told["role-trusts"].rows) = Seen
      BY <1>1, <3>1, RightListings
    <3>3. r \in azure.trusts
      BY <2>1, <3>2 DEF Seen, VisibleTrusts
    <3>4. \A u \in azure'.trusts : SameEdge(r, u) => r = u
      BY <1>1, <1>2, <3>3, PlaceFacts
    <3>5. QED
      BY <3>4 DEF RowKnown, SameEdge
  <2>2. QED
    BY <1>1, <1>2, <2>1 DEF RowsStayKnown
<1>8. RecordedOfAzure'
  <2>1. ASSUME NEW c \in DOMAIN recorded, plan = <<c>>
        PROVE  FALSE
    <3>1. /\ Checks = {c} /\ DOMAIN told \subseteq {c} /\ c \in DOMAIN told
          /\ ToCapture \subseteq {c} \ DOMAIN recorded
      BY <1>1, <1>3, <2>1 DEF Checks, ToSet, TypeOK, ToCapture
    <3>2. Pending = {}
      BY <2>1, <3>1 DEF Pending
    <3>3. QED
      BY <1>2, <2>1, <3>1, <3>2
  <2>2. QED
    BY <1>2, <2>1 DEF RecordedOfAzure
<1>9. ReportedOfTold'
  BY <1>1, <1>2 DEF ReportedOfTold, Validated, NotValidated
<1>10. QED
  BY <1>1, <1>2, <1>4, <1>5, <1>6, <1>7, <1>8, <1>9 DEF FootholdInv

LEMMA ValidateKeeps == FootholdInv /\ Validate => FootholdInv'
<1> SUFFICES ASSUME FootholdInv, Validate PROVE FootholdInv'
  OBVIOUS
<1>1. /\ TypeOK /\ Placed /\ ToldOfAzure /\ RowsStayKnown /\ RecordedOfAzure
      /\ told = [c \in DOMAIN told |-> told[c]]
  BY DEF FootholdInv
<1>2. /\ Pending = {} /\ ToCapture = {}
      /\ UNCHANGED azure /\ UNCHANGED plan /\ UNCHANGED told /\ UNCHANGED recorded
      /\ UNCHANGED slip /\ UNCHANGED edited
  BY DEF Validate
<1>3. PICK foothold \in Footholds : findings' = ReportOf(foothold)
  BY DEF Validate, ReportOf
<1>4. /\ \A c : Right(c)' = Right(c)
      /\ \A c : ContextOf(c)' = ContextOf(c)
      /\ \A r : RowKnown(r)' <=> RowKnown(r)
  BY <1>2, SameAzureSameTruth
<1>5. TypeOK' /\ Placed'
  BY <1>1, <1>2 DEF TypeOK, Placed, Checks
<1>6. ToldOfAzure' /\ RowsStayKnown'
  BY <1>1, <1>2, <1>4 DEF ToldOfAzure, RowsStayKnown, Honest
<1>7. RecordedOfAzure'
  BY <1>1, <1>2, <1>4 DEF RecordedOfAzure, NotCaptured
<1>8. ReportedOfTold'
  <2>1. Checks' = Checks /\ Pending' = Pending /\ ToCapture' = ToCapture
    BY <1>2 DEF Checks, Pending, ToCapture
  <2>2. Footholds' = Footholds
    BY <1>2, <2>1 DEF Footholds
  <2>3. \A c : FindingsOf(c, foothold)' = FindingsOf(c, foothold)
    BY <1>2 DEF FindingsOf
  <2>4. \A c : HasPassed(c)' <=> HasPassed(c)
    BY <1>2 DEF HasPassed, NotCaptured
  <2>5. ReportOf(foothold)' = ReportOf(foothold)
    BY <2>1, <2>3, <2>4 DEF ReportOf
  <2>6. QED
    BY <1>2, <1>3, <2>1, <2>2, <2>5 DEF ReportedOfTold
<1>9. QED
  BY <1>1, <1>2, <1>5, <1>6, <1>7, <1>8 DEF FootholdInv

LEMMA FootholdNext == FootholdInv /\ [Next]_vars => FootholdInv'
<1> SUFFICES ASSUME FootholdInv, [Next]_vars PROVE FootholdInv'
  OBVIOUS
<1>1. CASE Tell
  BY <1>1, TellKeeps
<1>2. CASE Capture
  <2>1. PICK command \in ToCapture :
          /\ recorded' = With(recorded, command, ContextOf(command))
          /\ UNCHANGED <<azure, plan, told, slip, edited, findings>>
    BY <1>2 DEF Capture
  <2>2. QED
    BY <2>1, CaptureKeeps
<1>3. CASE CaptureFails
  <2>1. PICK command \in ToCapture :
          /\ recorded' = With(recorded, command, NotCaptured)
          /\ UNCHANGED <<azure, plan, told, slip, edited, findings>>
    BY <1>3 DEF CaptureFails
  <2>2. QED
    BY <2>1, CaptureKeeps
<1>4. CASE Edit
  BY <1>4, EditKeeps
<1>5. CASE Validate
  BY <1>5, ValidateKeeps
<1>6. CASE UNCHANGED vars
  <2>1. /\ UNCHANGED azure /\ UNCHANGED plan /\ UNCHANGED told /\ UNCHANGED recorded
        /\ UNCHANGED slip /\ UNCHANGED edited /\ UNCHANGED findings
    BY <1>6 DEF vars
  <2>2. /\ \A c : Right(c)' = Right(c)
        /\ \A c : ContextOf(c)' = ContextOf(c)
        /\ \A r : RowKnown(r)' <=> RowKnown(r)
    BY <2>1, SameAzureSameTruth
  <2>3. TypeOK' /\ Placed'
    BY <2>1 DEF FootholdInv, TypeOK, Placed, Checks
  <2>4. ToldOfAzure' /\ RowsStayKnown'
    BY <2>1, <2>2 DEF FootholdInv, ToldOfAzure, RowsStayKnown, Honest
  <2>5. RecordedOfAzure'
    BY <2>1, <2>2 DEF FootholdInv, RecordedOfAzure, NotCaptured
  <2>6. Checks' = Checks /\ Pending' = Pending /\ ToCapture' = ToCapture
    BY <2>1 DEF Checks, Pending, ToCapture
  <2>7. Footholds' = Footholds
    BY <2>1, <2>6 DEF Footholds
  <2>8. \A c, foothold : FindingsOf(c, foothold)' = FindingsOf(c, foothold)
    BY <2>1 DEF FindingsOf
  <2>9. \A c : HasPassed(c)' <=> HasPassed(c)
    BY <2>1 DEF HasPassed, NotCaptured
  <2>10. \A foothold : ReportOf(foothold)' = ReportOf(foothold)
    BY <2>6, <2>8, <2>9 DEF ReportOf
  <2>11. Validated' <=> Validated
    BY <2>1 DEF Validated, NotValidated
  <2>12. ReportedOfTold'
    BY <2>1, <2>6, <2>7, <2>10, <2>11 DEF FootholdInv, ReportedOfTold
  <2>13. QED
    BY <2>1, <2>3, <2>4, <2>5, <2>12 DEF FootholdInv
<1>7. QED
  BY <1>1, <1>2, <1>3, <1>4, <1>5, <1>6 DEF Next

(* In every run the payloads, the captures and the report stand to azure   *)
(* as the validators of FootholdRules and TenantRules take them to.        *)
THEOREM FootholdInvariant == Spec => []FootholdInv
<1>1. QED
  BY FootholdInit, FootholdNext, PTL DEF Spec

-----------------------------------------------------------------------------
(* The properties *)

LEMMA AtTheReport ==
  ASSUME FootholdInv, Validated
  PROVE  /\ Checks \subseteq DOMAIN told /\ Checks \subseteq Commands
         /\ \A c \in Checks : Siblings(c) \subseteq Checks
         /\ \A c \in Checks \cap TenantCommands :
              HasPassed(c) /\ (edited => plan = <<c>>) => recorded[c] = ContextOf(c)
<1>1. Pending = {} /\ ToCapture = {} /\ IsPlan(plan) /\ RecordedOfAzure
  BY PlaceFacts DEF FootholdInv, ReportedOfTold
<1>2. Checks \subseteq DOMAIN told
  BY <1>1 DEF Pending, Checks, ToSet
<1>3. Checks \subseteq Commands /\ \A c \in Checks : Siblings(c) \subseteq Checks
  BY <1>1 DEF IsPlan, Checks, ToSet
<1>4. ASSUME NEW c \in Checks \cap TenantCommands, HasPassed(c), edited => plan = <<c>>
      PROVE  recorded[c] = ContextOf(c)
  <2>1. c \in DOMAIN recorded
    BY <1>1, <1>2 DEF ToCapture
  <2>2. recorded[c] \in {NotCaptured, ContextOf(c)}
    BY <1>1, <1>4, <2>1 DEF RecordedOfAzure
  <2>3. QED
    BY <1>4, <2>2 DEF HasPassed
<1>5. QED
  BY <1>2, <1>3, <1>4

(* The foothold the validators go by is the identity, when permissions is  *)
(* right.                                                                  *)
LEMMA FootholdIsMe ==
  ASSUME "permissions" \in Checks, Honest("permissions")
  PROVE  Footholds = {Me}
BY RightPayloads, TheFoothold DEF Footholds

LEMMA TruthAccepted == FootholdInv => TruthIsAccepted
<1> SUFFICES ASSUME FootholdInv, Validated, slip = None, ~edited,
                    ~ ("escalation-path" \in Checks /\ WorksFromRoot),
                    ~ ((\E c \in Checks : Persistence(c)) /\ Disputed)
             PROVE  Passed
  BY DEF TruthIsAccepted
<1>1. /\ Checks \subseteq DOMAIN told /\ Checks \subseteq Commands
      /\ \A c \in Checks : Siblings(c) \subseteq Checks
      /\ \A c \in Checks \cap TenantCommands : HasPassed(c) => recorded[c] = ContextOf(c)
  BY AtTheReport
<1>2. /\ IsLab(azure) /\ Real
      /\ "auth-policies" \in Checks => \E harmless \in Tenants : Harmless(harmless, azure)
  BY PlaceFacts DEF FootholdInv
<1>3. \A c \in Checks : Honest(c)
  <2>1. \A c \in Checks : c # None
    BY <1>1 DEF Commands, Families, TenantCommands, None
  <2>2. QED
    BY <1>1, <2>1 DEF FootholdInv, ToldOfAzure
<1>4. PICK foothold \in Footholds : findings = ReportOf(foothold)
  BY DEF FootholdInv, ReportedOfTold
<1>5. ASSUME NEW c \in Checks, HasPassed(c)
      PROVE  FindingsOf(c, foothold) = {}
  <2>1. CASE c = "escalation-path"
    <3>1. Honest("permissions") /\ Honest("role-trusts") /\ Honest("escalation-path")
      BY <1>1, <1>3, <2>1 DEF Siblings, Families
    <3>2. ~WorksFromRoot
      BY <2>1
    <3>3. EscalationFindings(told["escalation-path"], told["permissions"],
                             told["role-trusts"].rows) = {}
      BY <1>2, <3>1, <3>2, EscalationPasses, RightEscalationIsProven
    <3>4. QED
      BY <2>1, <3>3 DEF FindingsOf, Persistence, Families
  <2>2. CASE c \in Families
    <3>1. /\ Honest("resource") /\ Honest("permissions") /\ Honest("rbac") /\ Honest(c)
          /\ "permissions" \in Checks
      BY <1>1, <1>3, <2>2 DEF Siblings, Families
    <3>2. ~Disputed
      BY <2>2 DEF Persistence
    <3>3. foothold = Me
      BY <1>4, <3>1, FootholdIsMe
    <3>4. PersistenceFindings(c, told[c], told["resource"], told["permissions"], Me,
                              told["rbac"]) = {}
      BY <1>2, <2>2, <3>1, <3>2, RightFamilyPasses
    <3>5. QED
      BY <2>2, <3>3, <3>4 DEF FindingsOf, Families, Persistence
  <2>3. CASE c = "whoami"
    <3>1. /\ Honest("whoami") /\ Honest("principals") /\ Honest("permissions") /\ Honest("rbac")
          /\ Honest("privesc")
      BY <1>1, <1>3, <2>3 DEF Siblings, Families
    <3>2. WhoAmIFindings(told["whoami"], told["principals"], told["permissions"], told["rbac"],
                         told["privesc"]) = {}
      BY <1>2, <3>1, RightWhoAmIPasses
    <3>3. QED
      BY <2>3, <3>2 DEF FindingsOf, Persistence, Families
  <2>4. CASE c = "auth-policies"
    <3>1. recorded[c] = ContextOf(c) /\ Honest(c)
      BY <1>1, <1>3, <1>5, <2>4 DEF TenantCommands
    <3>2. PICK harmless \in Tenants : Harmless(harmless, azure)
      BY <1>2, <2>4
    <3>3. AuthPoliciesFindings(told[c], recorded[c]) = {}
      BY <1>2, <2>4, <3>1, <3>2, RightAuthPoliciesPass DEF IsLab
    <3>4. QED
      BY <2>4, <3>3 DEF FindingsOf, Persistence, Families
  <2>5. CASE c = "cross-tenant"
    <3>1. recorded[c] = ContextOf(c) /\ Honest(c)
      BY <1>1, <1>3, <1>5, <2>5 DEF TenantCommands
    <3>2. CrossTenantFindings(told[c], recorded[c]) = {}
      BY <2>5, <3>1, RightCrossTenantPasses
    <3>3. QED
      BY <2>5, <3>2 DEF FindingsOf, Persistence, Families
  <2>6. CASE c = "role-trusts"
    <3>1. recorded[c] = ContextOf(c) /\ Honest(c)
      BY <1>1, <1>3, <1>5, <2>6 DEF TenantCommands
    <3>2. RoleTrustsFindings(told[c], recorded[c]) = {}
      BY <1>2, <2>6, <3>1, RightRoleTrustsPass
    <3>3. QED
      BY <2>6, <3>2 DEF FindingsOf, Persistence, Families
  <2>7. CASE c \in {"principals", "permissions", "rbac", "privesc", "resource"}
    BY <2>7 DEF FindingsOf, Persistence, Families
  <2>8. QED
    BY <1>1, <2>1, <2>2, <2>3, <2>4, <2>5, <2>6, <2>7 DEF Commands, TenantCommands
<1>6. ReportOf(foothold) = {}
  BY <1>5 DEF ReportOf
<1>7. QED
  BY <1>4, <1>6 DEF Passed

LEMMA PassProven == FootholdInv => PassMeansProven
<1> SUFFICES ASSUME FootholdInv, Passed
             PROVE  PassMeansProven
  BY DEF PassMeansProven
<1>1. Validated
  BY DEF Passed, Validated, NotValidated
<1>2. /\ Checks \subseteq DOMAIN told
      /\ \A c \in Checks : Siblings(c) \subseteq Checks
      /\ \A c \in Checks \cap TenantCommands :
           HasPassed(c) /\ (edited => plan = <<c>>) => recorded[c] = ContextOf(c)
  BY <1>1, AtTheReport
<1>3. /\ IsLab(azure) /\ (~edited => Real)
      /\ "auth-policies" \in Checks => \E harmless \in Tenants : Harmless(harmless, azure)
  BY PlaceFacts DEF FootholdInv
<1>4. PICK foothold \in Footholds : findings = ReportOf(foothold)
  BY <1>1 DEF FootholdInv, ReportedOfTold
<1>5. \A c \in Checks : HasPassed(c) => FindingsOf(c, foothold) = {}
  BY <1>4 DEF Passed, ReportOf
<1>6. ASSUME ~edited, NEW c \in Checks
      PROVE  IF slip = c THEN \E right \in Right(c) : told[c] \in Wrong(c, right) ELSE Honest(c)
  BY <1>2, <1>6 DEF FootholdInv, ToldOfAzure
<1>7. ASSUME ~edited, NEW c \in Checks, Persistence(c), ~Disputed, NEW row \in told[c]
      PROVE  /\ \A s \in Steps(c) : row.steps[s] = "yes" => Proven(s)
             /\ row.current.principal = Me /\ row.current.roles \subseteq RolesHeld(Me)
             /\ row.execution = RightExecution
  <2>1. c \in Families
    BY <1>7 DEF Persistence
  <2>2. CASE slip # c
    <3>1. Honest(c)
      BY <1>6, <1>7, <2>2
    <3>2. QED
      BY <1>7, <2>1, <3>1, RightRowIsProven
  <2>3. CASE slip = c
    <3>1. /\ "resource" \in Checks /\ "permissions" \in Checks /\ "rbac" \in Checks
      BY <1>2, <1>7, <2>1 DEF Siblings, Families
    <3>2. Honest("resource") /\ Honest("permissions") /\ Honest("rbac")
      BY <1>6, <1>7, <2>1, <2>3, <3>1 DEF Families
    <3>3. foothold = Me
      BY <1>4, <3>1, <3>2, FootholdIsMe
    <3>4. HasPassed(c)
      BY <2>1 DEF HasPassed, Families, TenantCommands
    <3>5. PersistenceFindings(c, told[c], told["resource"], told["permissions"], Me,
                              told["rbac"]) = {}
      BY <1>5, <1>7, <2>1, <3>3, <3>4 DEF FindingsOf, Families, Persistence
    <3>6. PICK right \in Right(c) : told[c] \in Wrong(c, right)
      BY <1>6, <1>7, <2>3
    <3>7. Real
      BY <1>3, <1>7
    <3>8. QED
      BY <1>7, <2>1, <3>2, <3>5, <3>6, <3>7, PassedRowIsProven
  <2>4. QED
    BY <2>2, <2>3
<1>8. ASSUME ~edited, "escalation-path" \in Checks, ~WorksFromRoot
      PROVE  EscalationIsProven(told["escalation-path"])
  <2>1. CASE slip # "escalation-path"
    BY <1>6, <1>8, <2>1, RightEscalationIsProven
  <2>2. CASE slip = "escalation-path"
    <3>1. "permissions" \in Checks /\ "role-trusts" \in Checks
      BY <1>2, <1>8 DEF Siblings, Families
    <3>2. Honest("permissions") /\ Honest("role-trusts")
      BY <1>6, <1>8, <2>2, <3>1
    <3>3. HasPassed("escalation-path")
      BY DEF HasPassed, TenantCommands
    <3>4. EscalationFindings(told["escalation-path"], told["permissions"],
                             told["role-trusts"].rows) = {}
      BY <1>5, <1>8, <3>3 DEF FindingsOf, Persistence, Families
    <3>5. QED
      BY <1>3, <1>8, <3>2, <3>4, EscalationPasses
  <2>3. QED
    BY <2>1, <2>2
<1>9. ASSUME ~edited, "whoami" \in Checks
      PROVE  OneFoothold
  <2>1. "principals" \in Checks
    BY <1>2, <1>9 DEF Siblings, Families
  <2>2. Honest("whoami") \/ Honest("principals")
    BY <1>6, <1>9, <2>1
  <2>3. HasPassed("whoami")
    BY DEF HasPassed, TenantCommands
  <2>4. WhoAmIFindings(told["whoami"], told["principals"], told["permissions"], told["rbac"],
                       told["privesc"]) = {}
    BY <1>5, <1>9, <2>3 DEF FindingsOf, Persistence, Families
  <2>5. QED
    BY <2>2, <2>4, PassedWhoAmIIsOne
<1>10. ASSUME NEW c \in Checks \cap TenantCommands, HasPassed(c), edited => plan = <<c>>
       PROVE  TenantKept(c)
  <2>1. recorded[c] = ContextOf(c) /\ FindingsOf(c, foothold) = {}
    BY <1>2, <1>5, <1>10
  <2>2. CASE c = "auth-policies"
    <3>1. AuthPoliciesFindings(told["auth-policies"], ContextOf("auth-policies")) = {}
      BY <2>1, <2>2 DEF FindingsOf, Persistence, Families
    <3>2. PICK harmless \in Tenants : Harmless(harmless, azure)
      BY <1>3, <2>2
    <3>3. IsFiniteSet(told["auth-policies"].rows)
      BY <1>2, <2>2 DEF FootholdInv, RowsStayKnown
    <3>4. QED
      BY <1>3, <2>2, <3>1, <3>2, <3>3, PassedAuthPoliciesKept DEF IsLab
  <2>3. CASE c = "cross-tenant"
    <3>1. CrossTenantFindings(told["cross-tenant"], ContextOf("cross-tenant")) = {}
      BY <2>1, <2>3 DEF FindingsOf, Persistence, Families
    <3>2. QED
      BY <2>3, <3>1, PassedCrossTenantKept
  <2>4. CASE c = "role-trusts"
    <3>1. RoleTrustsFindings(told["role-trusts"], ContextOf("role-trusts")) = {}
      BY <2>1, <2>4 DEF FindingsOf, Persistence, Families
    <3>2. \A r \in ToSet(told["role-trusts"].rows) : RowKnown(r)
      BY <1>2, <1>10, <2>4 DEF FootholdInv, RowsStayKnown
    <3>3. QED
      BY <1>3, <2>4, <3>1, <3>2, PassedRoleTrustsKept
  <2>5. QED
    BY <2>2, <2>3, <2>4 DEF TenantCommands
<1>11. QED
  BY <1>7, <1>8, <1>9, <1>10 DEF PassMeansProven, EscalationIsProven

(* TruthIsAccepted: a tool that tells every command's truth of an azure    *)
(* that stays the same is not blamed, with any number of principals,       *)
(* rights, trusts and policies, whatever the order of the rows; disputed   *)
(* control and rights over "/" excepted.                                   *)
THEOREM TruthStaysAccepted == Spec => []TruthIsAccepted
BY FootholdInvariant, TruthAccepted, PTL

(* PassMeansProven: what passes claims nothing that is not so of the       *)
(* foothold, of the steps it may take and of whom it may become, and keeps *)
(* what can be read of the tenant.                                         *)
THEOREM PassStaysProven == Spec => []PassMeansProven
BY FootholdInvariant, PassProven, PTL

=============================================================================
