----------------------------- MODULE Completion -----------------------------
(***************************************************************************)
(* The completion device, completion/driver/completion_test.c, under runs  *)
(* of completion/app/completion_app_test.c: the program opens the device   *)
(* and forks; the child writes a message and the parent waits for it in    *)
(* read.  The buffer, both indices and the completion outlive a run, and   *)
(* no lock guards them, so a copy and the update of its index are steps.   *)
(***************************************************************************)
EXTENDS Naturals

CONSTANTS
  Runs,        \* runs of the program
  BUFFER_SIZE,
  Counts,      \* how long the message is, 27 in the source; one length for all
  Spilled      \* what an index may hold once a message was copied over it

ASSUME CompletionAssumption ==
  BUFFER_SIZE \in Nat \ {0} /\ Counts \subseteq Nat \ {0} /\ Spilled \subseteq Nat

VARIABLES
  count,             \* the length of the message
  completion_buffer, \* which run's byte each place holds, 0 at first
  read_index, write_index,
  done,              \* comp.done: completions not yet waited for
  child, parent,     \* the step each of the two processes is at
  got,               \* what the parent of each run has read
  overrun,           \* history: a write ran over the end of the buffer
  disturbed          \* history: runs overlapped, a copy failed or left the buffer

completionVars == <<count, completion_buffer, read_index, write_index, done, child,
                    parent, got, overrun, disturbed>>

CompletionInit ==
  /\ count \in Counts
  /\ completion_buffer = [i \in 0..(BUFFER_SIZE - 1) |-> 0]
  /\ read_index = 0 /\ write_index = 0 /\ done = 0
  /\ child = [r \in Runs |-> "none"] /\ parent = [r \in Runs |-> "none"]
  /\ got = [r \in Runs |-> <<>>] /\ overrun = FALSE /\ disturbed = FALSE

Active(r) == parent[r] # "none" /\ ~(parent[r] = "over" /\ child[r] = "over")

(* open and fork. *)
Fork(r) ==
  /\ child[r] = "none"
  /\ child' = [child EXCEPT ![r] = "copy"] /\ parent' = [parent EXCEPT ![r] = "wait"]
  /\ disturbed' = (disturbed \/ \E s \in Runs : Active(s))
  /\ UNCHANGED <<count, completion_buffer, read_index, write_index, done, got, overrun>>

Advanced(index) ==
  LET moved == index + count
  IN  IF moved >= BUFFER_SIZE THEN moved % BUFFER_SIZE ELSE moved

Places(index) == index..(index + count - 1)
Inside(index) == Places(index) \subseteq DOMAIN completion_buffer

(* A write that runs over the end of the buffer overwrites what lies behind *)
(* it, the other statics of the module: either index may be lost with it.   *)
Spill ==
  IF Inside(write_index)
  THEN UNCHANGED <<read_index, write_index, overrun>>
  ELSE /\ read_index' \in Spilled \cup {read_index}
       /\ write_index' \in Spilled \cup {write_index}
       /\ overrun' = TRUE

(* completion_write's copy_from_user.  A copy that fails leaves zeros       *)
(* behind what it copied, moves no index, and completes all the same.       *)
WriteCopy(r) ==
  /\ child[r] = "copy"
  /\ \/ /\ child' = [child EXCEPT ![r] = "advance"]
        /\ completion_buffer' = [i \in DOMAIN completion_buffer |->
             IF i \in Places(write_index) THEN r ELSE completion_buffer[i]]
        /\ disturbed' = (disturbed \/ ~Inside(write_index))
     \/ /\ child' = [child EXCEPT ![r] = "complete"]
        /\ \E copied \in 0..(count - 1) :
             completion_buffer' = [i \in DOMAIN completion_buffer |->
               CASE i \notin Places(write_index) -> completion_buffer[i]
                 [] i < write_index + copied     -> r
                 [] OTHER                        -> 0]
        /\ disturbed' = TRUE
  /\ Spill
  /\ UNCHANGED <<count, done, parent, got>>

WriteAdvance(r) ==
  /\ child[r] = "advance" /\ child' = [child EXCEPT ![r] = "complete"]
  /\ write_index' = Advanced(write_index)
  /\ UNCHANGED <<count, completion_buffer, read_index, done, parent, got, overrun, disturbed>>

(* complete(&comp); the child closes the file and ends. *)
CompleteOnce(r) == done' = 1
Complete(r) == done' = done + 1

WriteComplete(r) ==
  /\ child[r] = "complete" /\ child' = [child EXCEPT ![r] = "over"]
  /\ Complete(r)
  /\ UNCHANGED <<count, completion_buffer, read_index, write_index, parent, got, overrun, disturbed>>

(* wait_for_completion, which no signal interrupts, in completion_read. *)
ReadWaitNot(r) == parent[r] = "wait" /\ UNCHANGED done
ReadWait(r) == parent[r] = "wait" /\ done > 0 /\ done' = done - 1

ReadWoken(r) ==
  /\ ReadWait(r) /\ parent' = [parent EXCEPT ![r] = "copy"]
  /\ UNCHANGED <<count, completion_buffer, read_index, write_index, child, got, overrun, disturbed>>

(* copy_to_user; a failed copy moves no index and read returns count anyway. *)
ReadCopy(r) ==
  /\ parent[r] = "copy"
  /\ \/ /\ parent' = [parent EXCEPT ![r] = "advance"]
        /\ got' = [got EXCEPT ![r] = [i \in 1..count |->
             IF read_index + i - 1 \in DOMAIN completion_buffer
             THEN completion_buffer[read_index + i - 1] ELSE 0]]
        /\ disturbed' = (disturbed \/ ~Inside(read_index))
     \/ /\ parent' = [parent EXCEPT ![r] = "over"]
        /\ disturbed' = TRUE /\ UNCHANGED got
  /\ UNCHANGED <<count, completion_buffer, read_index, write_index, done, child, overrun>>

ReadAdvance(r) ==
  /\ parent[r] = "advance" /\ parent' = [parent EXCEPT ![r] = "over"]
  /\ read_index' = Advanced(read_index)
  /\ UNCHANGED <<count, completion_buffer, write_index, done, child, got, overrun, disturbed>>

RunStep(r) == \/ WriteCopy(r) \/ WriteAdvance(r) \/ WriteComplete(r)
              \/ ReadWoken(r) \/ ReadCopy(r) \/ ReadAdvance(r)

CompletionNext == \E r \in Runs : Fork(r) \/ RunStep(r)

CompletionSpec == CompletionInit /\ [][CompletionNext]_completionVars
-----------------------------------------------------------------------------
(* Properties *)

(* The parent reads the message of its own child, run after run and around  *)
(* the end of the buffer, as long as runs come one after the other, every   *)
(* copy succeeded and none ran over the end: the two indices move together. *)
MessageArrives ==
  \A r \in Runs : parent[r] = "over" /\ ~disturbed => got[r] = [i \in 1..count |-> r]

(* Every parent is woken in the end, however runs overlap and even when a   *)
(* child's copy failed: a completion is counted, not just flagged.  It may  *)
(* not be once a write has run over the end of the buffer, as the fifth of  *)
(* 27 bytes in 128 does: with an index lost, no later copy is sure to spare *)
(* the completion, and nothing is claimed from there on.                    *)
EveryRunEnds == \A r \in Runs : child[r] # "none" ~> parent[r] = "over" \/ overrun
=============================================================================
