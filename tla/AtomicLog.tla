----------------------------- MODULE AtomicLog -----------------------------
(***************************************************************************)
(* What the log layer promises the file system (kernel/log.c, the comment  *)
(* at the top): operations run on an in-memory image of the disk, the      *)
(* durable image only ever changes when no operation is active, and then   *)
(* it becomes the whole in-memory image; a crash falls back to it.         *)
(***************************************************************************)
CONSTANTS
  Thr,     \* the processes that run file-system calls
  Block,   \* block numbers
  Val,     \* block contents
  Zero     \* the contents of every block at first

VARIABLES
  mem,       \* the image operations see
  durable,   \* the image a crash falls back to
  open       \* the processes inside begin_op() .. end_op()

vars == <<mem, durable, open>>

Init ==
  /\ mem = [b \in Block |-> Zero]
  /\ durable = mem
  /\ open = {}

Begin(t) ==
  /\ t \notin open
  /\ open' = open \cup {t}
  /\ UNCHANGED <<mem, durable>>

Write(t, b, v) ==
  /\ t \in open
  /\ mem' = [mem EXCEPT ![b] = v]
  /\ UNCHANGED <<durable, open>>

End(t) ==
  /\ t \in open
  /\ open' = open \ {t}
  /\ UNCHANGED <<mem, durable>>

Commit ==
  /\ open = {}
  /\ durable' = mem
  /\ UNCHANGED <<mem, open>>

Crash ==
  /\ mem' = durable
  /\ open' = {}
  /\ UNCHANGED durable

Next ==
  \/ \E t \in Thr : Begin(t) \/ End(t) \/ \E b \in Block, v \in Val : Write(t, b, v)
  \/ Commit
  \/ Crash

Spec == Init /\ [][Next]_vars
=============================================================================
