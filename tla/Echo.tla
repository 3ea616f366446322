-------------------------------- MODULE Echo --------------------------------
(***************************************************************************)
(* The FreeBSD echo device, echo/echo.c: one message buffer, a write that  *)
(* replaces the message or appends to it, and a read that returns it.  The *)
(* driver has no lock, so the accesses of echo_read and echo_write to the  *)
(* shared length and to the buffer are steps of their own; each user has a *)
(* file with an offset, which the kernel serialises.                       *)
(***************************************************************************)
EXTENDS Integers, Sequences

CONSTANTS
  Users,       \* processes that have the device open, one call at a time each
  BufferSize,  \* BUFFERSIZE
  Messages,    \* what they write
  Resids       \* how many bytes they ask a read for

ASSUME EchoAssumption == /\ BufferSize \in Nat /\ Resids \subseteq Nat
                         /\ \A m \in Messages : m \in Seq(Nat)

VARIABLES
  msg, len,    \* *echomsg
  offset,      \* uio_offset: the offset of each user's file
  call,        \* the step each user's call is at
  data,        \* the bytes each user's write brings, until they are moved
  amt,         \* the local amt of each call
  said,        \* history: the message that the accepted writes make up, unless mingled
  mingled,     \* history: a write overlapped another; ends with a lone new message
  clean        \* history: users whose read no write has overlapped

echoVars == <<msg, len, offset, call, data, amt, said, mingled, clean>>

NUL == 0
Smaller(x, y) == IF x < y THEN x ELSE y

(* The file was just opened; malloc's M_ZERO. *)
EchoInit ==
  /\ msg = [i \in 0..BufferSize |-> NUL] /\ len = 0
  /\ offset = [u \in Users |-> 0]
  /\ call = [u \in Users |-> "none"]
  /\ data = [u \in Users |-> <<>>]
  /\ amt = [u \in Users |-> 0]
  /\ said = <<>> /\ mingled = FALSE /\ clean = {}

Writing(u) == call[u] \in {"amount", "move", "terminate"}

CallStep(u, from, to) == call[u] = from /\ call' = [call EXCEPT ![u] = to]

(* lseek, or a new open, which starts at 0. *)
Seek(u, o) ==
  /\ call[u] = "none" /\ o # offset[u]
  /\ offset' = [offset EXCEPT ![u] = o]
  /\ UNCHANGED <<msg, len, call, data, amt, said, mingled, clean>>

(* echo_write refuses random access with nothing changed; a new message     *)
(* resets the length.                                                       *)
WriteAllowed(u) == offset[u] = 0 \/ offset[u] = len

echo_write(u, m) ==
  /\ WriteAllowed(u)
  /\ CallStep(u, "none", "amount")
  /\ data' = [data EXCEPT ![u] = m]
  /\ len' = IF offset[u] = 0 THEN 0 ELSE len
  /\ mingled' = ((\E v \in Users : Writing(v)) \/ (mingled /\ offset[u] # 0))
  /\ said' = IF offset[u] = 0 \/ mingled' THEN <<>> ELSE said
  /\ clean' = {}
  /\ UNCHANGED <<msg, offset, amt>>

WriteAmountUnlimited(u) == Smaller(Len(data[u]), BufferSize)
WriteAmount(u) == Smaller(Len(data[u]), BufferSize - len)

write_amount(u) ==
  /\ CallStep(u, "amount", "move")
  /\ amt' = [amt EXCEPT ![u] = WriteAmount(u)]
  /\ UNCHANGED <<msg, len, offset, data, said, mingled, clean>>

(* uiomove into the buffer moves amt bytes, or faults after fewer.  A copy  *)
(* that would run over the buffer is undefined: this model ends there.      *)
write_uiomove(u) ==
  /\ offset[u] + amt[u] <= BufferSize
  /\ CallStep(u, "move", "terminate")
  /\ \E k \in 0..amt[u] :
       /\ msg' = [i \in 0..BufferSize |->
                    IF offset[u] <= i /\ i < offset[u] + k
                    THEN data[u][i - offset[u] + 1] ELSE msg[i]]
       /\ offset' = [offset EXCEPT ![u] = @ + k]
       /\ said' = IF mingled THEN <<>> ELSE said \o SubSeq(data[u], 1, k)
  /\ data' = [data EXCEPT ![u] = <<>>] /\ amt' = [amt EXCEPT ![u] = 0]
  /\ UNCHANGED <<len, mingled, clean>>

TerminatedNot(o) == msg
Terminated(o) == [msg EXCEPT ![o] = NUL]

write_terminate(u) ==
  /\ CallStep(u, "terminate", "none")
  /\ len' = offset[u]
  /\ msg' = Terminated(offset[u])
  /\ UNCHANGED <<offset, data, amt, said, mingled, clean>>

(* echo_read: the message and its NUL, as much as is asked for ...          *)
echo_read(u, resid) ==
  /\ CallStep(u, "none", "read")
  /\ amt' = [amt EXCEPT ![u] = IF offset[u] >= len + 1 THEN 0
                               ELSE Smaller(resid, len + 1 - offset[u])]
  /\ clean' = IF \E v \in Users : Writing(v) THEN clean \ {u} ELSE clean \cup {u}
  /\ UNCHANGED <<msg, len, offset, data, said, mingled>>

(* ... but moved from the start of the buffer, whatever the offset.         *)
read_uiomove(u) ==
  /\ CallStep(u, "read", "none")
  /\ \E k \in 0..amt[u] : offset' = [offset EXCEPT ![u] = @ + k]
  /\ amt' = [amt EXCEPT ![u] = 0] /\ clean' = clean \ {u}
  /\ UNCHANGED <<msg, len, data, said, mingled>>

EchoNext ==
  \E u \in Users :
    \/ \E o \in 0..(BufferSize + 1) : Seek(u, o)
    \/ \E m \in Messages : echo_write(u, m)
    \/ write_amount(u) \/ write_uiomove(u) \/ write_terminate(u)
    \/ \E resid \in Resids : echo_read(u, resid)
    \/ read_uiomove(u)

EchoSpec == EchoInit /\ [][EchoNext]_echoVars
-----------------------------------------------------------------------------
(* Properties *)

(* Copies stay inside the buffer, a new message, an append or a read of any *)
(* length, from any offset: unless two writes overlap, for the amount is    *)
(* taken after the offset was checked and without a lock.                   *)
CopiesStayInside ==
  \A u \in Users :
    /\ call[u] = "move" /\ ~mingled => offset[u] + amt[u] <= BufferSize
    /\ call[u] = "read" => amt[u] <= BufferSize + 1

(* A read from the start that no write overlaps returns the message that    *)
(* the accepted writes made up, then its NUL, though writes faulted, were   *)
(* refused or cut short, and shorter messages replaced longer ones.         *)
ReadsWhatWasSaid ==
  [][\A u \in Users :
       read_uiomove(u) /\ u \in clean /\ ~mingled /\ offset[u] = 0 =>
         \A i \in 1..offset'[u] : msg[i - 1] = Append(said, NUL)[i]]_echoVars
=============================================================================
