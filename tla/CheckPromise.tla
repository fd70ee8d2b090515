---------------------------- MODULE CheckPromise ----------------------------
(***************************************************************************)
(* What executeTask promises the run about one check, in the terms the run *)
(* uses: AzureRun takes a check as one step that leaves an entry, and the  *)
(* payload file, behind.  Three invocations pass one after another, or the *)
(* first that does not stops the check; only then is there an entry, one,  *)
(* and it says which of the two happened.                                  *)
(***************************************************************************)
EXTENDS Integers

VARIABLES
  proved,     \* invocations that passed
  stopped,    \* one did not
  payload,    \* the JSON output file
  entry       \* the log entry

promise == <<proved, stopped, payload, entry>>

Open == [status |-> "none", exitCode |-> 0, error |-> FALSE, payload |-> FALSE]

Init ==
  /\ proved = 0 /\ stopped = FALSE
  /\ payload \in {"absent", "old"}
  /\ entry = Open

(* Only the first invocation writes the payload, if anything. *)
Touch == payload' = payload \/ (proved = 0 /\ payload' \in {"torn", "new"})

Pass ==
  /\ ~stopped /\ proved < 3 /\ proved' = proved + 1
  /\ Touch
  /\ UNCHANGED <<stopped, entry>>

Stop ==
  /\ ~stopped /\ proved < 3 /\ stopped' = TRUE
  /\ Touch
  /\ UNCHANGED <<proved, entry>>

(* The exit code is 0 exactly for a pass, an error text goes with a failed *)
(* JSON invocation only, and the payload file is named when it exists.     *)
Close ==
  /\ entry = Open /\ (stopped \/ proved = 3)
  /\ \E code \in {-1, 0, 1}, error \in BOOLEAN :
       /\ (code = 0) <=> ~stopped
       /\ error => stopped /\ proved = 0
       /\ entry' = [status   |-> IF stopped THEN "fail" ELSE "pass",
                    exitCode |-> code,
                    error    |-> error,
                    payload  |-> payload # "absent"]
  /\ UNCHANGED <<proved, stopped, payload>>

Next == Pass \/ Stop \/ Close

Spec == Init /\ [][Next]_promise
=============================================================================
