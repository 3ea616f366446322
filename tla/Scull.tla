-------------------------------- MODULE Scull -------------------------------
(***************************************************************************)
(* The memory device, scull3/driver/scull3.c: a list of quantum sets that  *)
(* a write extends and a read walks, under a semaphore that neither the    *)
(* copy of the geometry at the start of a call nor the trim in open takes. *)
(* A byte is not told from another; a position is what counts.             *)
(***************************************************************************)
EXTENDS Naturals, Sequences

CONSTANTS
  Procs,                     \* processes, each with a file of its own
  scull_quantum, scull_qset, \* the geometry that a trim installs
  WriteCounts                \* how many bytes are written or read at once

VARIABLES
  sem,        \* dev.sem
  data,       \* dev.data: for each scull_qset, which of its quanta exist
  size, quantum, qset,       \* of dev, all 0 in a module just loaded
  file,       \* is the device open?
  at,         \* where each process is
  f_pos,
  geometry,   \* the quantum and qset a call has copied
  answer,     \* what the latest call of a process returned
  starved     \* a kmalloc has failed

vars == <<sem, data, size, quantum, qset, file, at, f_pos, geometry, answer, starved>>

Init ==
  /\ sem = 1 /\ data = <<>> /\ size = 0 /\ quantum = 0 /\ qset = 0
  /\ file = [p \in Procs |-> FALSE]
  /\ at = [p \in Procs |-> "user"] /\ f_pos = [p \in Procs |-> 0]
  /\ geometry = [p \in Procs |-> [quantum |-> 0, qset |-> 0]]
  /\ answer = [p \in Procs |-> "none"] /\ starved = FALSE

(* scull_trim: every qset is freed and the geometry set anew. *)
scull_trim ==
  /\ data' = <<>> /\ size' = 0 /\ quantum' = scull_quantum /\ qset' = scull_qset

(* A write-only open trims, whoever is in a read or a write. *)
scull_open(p, writeonly) ==
  /\ ~file[p] /\ file' = [file EXCEPT ![p] = TRUE]
  /\ f_pos' = [f_pos EXCEPT ![p] = 0]
  /\ IF writeonly THEN scull_trim ELSE UNCHANGED <<data, size, quantum, qset>>
  /\ UNCHANGED <<sem, at, geometry, answer, starved>>

scull_release(p) ==
  /\ file[p] /\ at[p] = "user" /\ file' = [file EXCEPT ![p] = FALSE]
  /\ UNCHANGED <<sem, data, size, quantum, qset, at, f_pos, geometry, answer, starved>>

(* A read or a write copies the geometry and then waits for the semaphore. *)
CallBegin(p, op) ==
  /\ file[p] /\ at[p] = "user" /\ at' = [at EXCEPT ![p] = op]
  /\ geometry' = [geometry EXCEPT ![p] = [quantum |-> quantum, qset |-> qset]]
  /\ answer' = [answer EXCEPT ![p] = "none"]
  /\ UNCHANGED <<sem, data, size, quantum, qset, file, f_pos, starved>>

Inside(op) == IF op = "read" THEN "reading" ELSE "writing"

(* down_interruptible, or -ERESTARTSYS. *)
Down(p, op) ==
  /\ at[p] = op
  /\ \/ sem = 1 /\ sem' = 0 /\ at' = [at EXCEPT ![p] = Inside(op)] /\ UNCHANGED answer
     \/ /\ at' = [at EXCEPT ![p] = "user"] /\ UNCHANGED sem
        /\ answer' = [answer EXCEPT ![p] = "ERESTARTSYS"]
  /\ UNCHANGED <<data, size, quantum, qset, file, f_pos, geometry, starved>>

(* ARM has no divide instruction: the kernel's routine reports a division by *)
(* zero, which a geometry never set leads to, and answers 0.                *)
Quotient(a, b)  == IF b = 0 THEN 0 ELSE a \div b
Remainder(a, b) == IF b = 0 THEN 0 ELSE a % b

itemsize(p) == geometry[p].quantum * geometry[p].qset
item(p)     == Quotient(f_pos[p], itemsize(p))
rest(p)     == Remainder(f_pos[p], itemsize(p))
s_pos(p)    == Quotient(rest(p), geometry[p].quantum)
q_pos(p)    == Remainder(rest(p), geometry[p].quantum)

(* scull_follow's loop never counts, so past the first it runs off the end. *)
scull_follow(n) == IF data # <<>> /\ n = 0 THEN 1 ELSE 0

(* One quantum at most. *)
Clipped(p, n) == IF n > geometry[p].quantum - q_pos(p) THEN geometry[p].quantum - q_pos(p) ELSE n

(* up, at the label out. *)
Up(p, a) ==
  /\ sem' = 1 /\ at' = [at EXCEPT ![p] = "user"] /\ answer' = [answer EXCEPT ![p] = a]

(* scull_read's body. *)
scull_read(p, count) ==
  LET left == IF f_pos[p] + count > size THEN size - f_pos[p] ELSE count
  IN  /\ at[p] = "reading"
      /\ IF f_pos[p] >= size \/ scull_follow(item(p)) = 0 \/ s_pos(p) \notin data[1]
         THEN Up(p, "0") /\ UNCHANGED f_pos
         ELSE \/ Up(p, "count") /\ f_pos' = [f_pos EXCEPT ![p] = @ + Clipped(p, left)]
              \/ Up(p, "EFAULT") /\ UNCHANGED f_pos
      /\ UNCHANGED <<data, size, quantum, qset, file, geometry, starved>>

(* scull_write's body: quanta are allocated, but nothing ever adds a qset.  *)
scull_write(p, count) ==
  /\ at[p] = "writing"
  /\ IF scull_follow(item(p)) = 0
     THEN Up(p, "EINVAL") /\ UNCHANGED <<data, size, f_pos, starved>>
     ELSE \/ /\ Up(p, "EINVAL") /\ starved' = TRUE
             /\ UNCHANGED <<data, size, f_pos>>
          \/ /\ data' = [data EXCEPT ![1] = @ \cup {s_pos(p)}]
             /\ \/ Up(p, "EFAULT") /\ UNCHANGED <<size, f_pos>>
                \/ /\ Up(p, "count")
                   /\ f_pos' = [f_pos EXCEPT ![p] = @ + Clipped(p, count)]
                   /\ size' = IF size < f_pos'[p] THEN f_pos'[p] ELSE size
             /\ UNCHANGED starved
  /\ UNCHANGED <<quantum, qset, file, geometry>>

Next ==
  \E p \in Procs :
    \/ \E writeonly \in BOOLEAN : scull_open(p, writeonly)
    \/ scull_release(p)
    \/ \E op \in {"read", "write"} : CallBegin(p, op) \/ Down(p, op)
    \/ \E count \in WriteCounts : scull_read(p, count) \/ scull_write(p, count)

Spec == Init /\ [][Next]_vars
-----------------------------------------------------------------------------
(* Properties *)

(* While there is memory a write is answered with its count, a fault or a   *)
(* signal: it extends the device where there is "no scull_qset->data for    *)
(* writting" and "we have written something in it".                         *)
WriteStores ==
  \A p \in Procs : answer[p] = "EINVAL" => starved
=============================================================================
