-------------------------------- MODULE Keys --------------------------------
(***************************************************************************)
(* The button driver, key/driver/keys.c, and readers that behave like      *)
(* key/app/unit-test.c: edges of the key pins raise interrupts, the        *)
(* handler records the new level and sets ev_press, and a read waits for   *)
(* ev_press, clears it and copies the levels out.  open claims one         *)
(* interrupt line per key and gives the claimed ones back if one is busy.  *)
(*                                                                         *)
(* One processor: a handler may cut in between any two steps of a call,    *)
(* and no call takes a step while a handler runs.  Handlers of different   *)
(* keys may nest.  misc_open serialises opens; a release may overlap one.  *)
(* The release handler runs when no read is using the file.                *)
(***************************************************************************)
EXTENDS Integers

CONSTANTS
  NumKeys,     \* ARRAY_SIZE(button_irqs)
  Readers,     \* threads that read the open file
  Counts,      \* byte counts they ask for
  BadBuffers,  \* may copy_to_user fault?
  MaxEdges     \* bound: how often keys are pressed or released

ASSUME KeysAssumption ==
  /\ NumKeys \in Nat \ {0} /\ Counts \subseteq Nat
  /\ BadBuffers \in BOOLEAN /\ MaxEdges \in Nat

VARIABLES
  level,       \* 1 while key k is held down: the inverse of its pin
  pending,     \* keys whose edge the interrupt controller has latched
  irq,         \* what the running handler of key k has sampled, or Nothing
  line,        \* who has requested the interrupt line of key k
  key_values,  \* bit 0 of key_values[k]
  ev_press,
  file,        \* "closed" or "open"
  opening,     \* loop index of an open, and whether it is undoing its requests
  closing,     \* loop index of a release, NumKeys when there is none
  pc,          \* where each reader is
  next,        \* next byte each reader copies
  limit,       \* bytes each reader copies in all
  delivered,   \* history: the level of key k last copied to a reader
  dropped,     \* history: keys a short or faulting read left out
  synced,      \* history: keys whose handler has run since the line was requested
  edges        \* number of edges so far

irqVars  == <<irq, key_values, ev_press>>
lineVars == <<line, file, opening, closing>>
readVars == <<pc, next, limit, delivered, dropped>>
vars     == <<level, pending, irqVars, lineVars, readVars, synced, edges>>

KeyNums == 0..(NumKeys - 1)
Nothing == -1
NoOpen  == [step |-> "none", i |-> 0]

Init ==
  /\ level \in [KeyNums -> {0, 1}]
  /\ pending = {}
  /\ irq = [k \in KeyNums |-> Nothing]
  /\ line \in [KeyNums -> {"free", "other"}]
  /\ key_values = [k \in KeyNums |-> 0]
  /\ ev_press = 0
  /\ file = "closed" /\ opening = NoOpen /\ closing = NumKeys
  /\ pc = [r \in Readers |-> "idle"]
  /\ next = [r \in Readers |-> 0]
  /\ limit = [r \in Readers |-> 0]
  /\ delivered = [k \in KeyNums |-> 0]
  /\ dropped = {} /\ synced = {} /\ edges = 0

(* The processor is not in an interrupt handler. *)
NoIrq == \A k \in KeyNums : irq[k] = Nothing
-----------------------------------------------------------------------------
(* Keys and interrupts *)

(* A key is pressed or released.  An edge on a line this driver has not     *)
(* requested may or may not be latched, its pin may not be set up for it.   *)
Edge(k) ==
  /\ edges < MaxEdges
  /\ edges' = edges + 1
  /\ level' = [level EXCEPT ![k] = 1 - @]
  /\ \/ pending' = pending \cup {k}
     \/ line[k] # "keys" /\ UNCHANGED pending
  /\ UNCHANGED <<irqVars, lineVars, readVars, synced>>

(* What buttons_interrupt takes for the new level: the pin, not a toggle. *)
DownToggled(k) == 1 - key_values[k]
Down(k) == level[k]

(* The edge is acknowledged and buttons_interrupt samples the pin ... *)
IrqSample(k) ==
  /\ k \in pending /\ line[k] = "keys" /\ irq[k] = Nothing
  /\ pending' = pending \ {k}
  /\ irq' = [irq EXCEPT ![k] = Down(k)]
  /\ UNCHANGED <<level, key_values, ev_press, lineVars, readVars, synced, edges>>

(* wake_up_interruptible: every thread on button_waitq. *)
WakeReadersOnly == [r \in Readers |-> IF pc[r] = "asleep" THEN "woken" ELSE pc[r]]
WakeNobody == pc
WakeAll == [r \in Readers |-> CASE pc[r] = "asleep"  -> "woken"
                                [] pc[r] = "polling" -> "idle"
                                [] OTHER             -> pc[r]]

(* ... and records a change and wakes the readers, or finds none. *)
IrqStore(k) ==
  /\ irq[k] # Nothing
  /\ irq' = [irq EXCEPT ![k] = Nothing]
  /\ IF irq[k] # key_values[k]
     THEN /\ key_values' = [key_values EXCEPT ![k] = irq[k]]
          /\ ev_press' = 1
          /\ pc' = WakeAll
     ELSE UNCHANGED <<key_values, ev_press, pc>>
  /\ synced' = synced \cup {k}
  /\ UNCHANGED <<level, pending, lineVars, next, limit, delivered, dropped, edges>>
-----------------------------------------------------------------------------
(* open and release *)

OpenBegin ==
  /\ NoIrq /\ opening = NoOpen
  /\ opening' = [step |-> "request", i |-> 0]
  /\ UNCHANGED <<level, pending, irqVars, line, file, closing, readVars, synced, edges>>

(* request_irq succeeds on a free line; after the last the file is open. *)
OpenRequest ==
  LET i == opening.i
  IN  /\ NoIrq /\ opening.step = "request" /\ line[i] = "free"
      /\ line' = [line EXCEPT ![i] = "keys"]
      /\ synced' = synced \ {i}
      /\ \/ i + 1 < NumKeys /\ opening' = [opening EXCEPT !.i = i + 1] /\ UNCHANGED file
         \/ i + 1 = NumKeys /\ opening' = NoOpen /\ file' = "open"
      /\ UNCHANGED <<level, pending, irqVars, closing, readVars, edges>>

(* After a failed request, the index the undo loop starts from. *)
UndoFromBusy(i) == i
UndoFrom(i) == i - 1

(* The condition of the undo loop. *)
UndoMoreNotFirst(i) == i > 0
UndoMore(i) == i >= 0

(* request_irq fails: someone, perhaps an earlier open, has the line. *)
OpenBusy ==
  /\ NoIrq /\ opening.step = "request" /\ line[opening.i] # "free"
  /\ opening' = [step |-> "undo", i |-> UndoFrom(opening.i)]
  /\ UNCHANGED <<level, pending, irqVars, line, file, closing, readVars, synced, edges>>

(* disable_irq and free_irq of one claimed line, or -EBUSY at the end. *)
OpenUndo ==
  LET i == opening.i
  IN  /\ NoIrq /\ opening.step = "undo"
      /\ IF UndoMore(i)
         THEN line' = [line EXCEPT ![i] = "free"] /\ opening' = [opening EXCEPT !.i = i - 1]
         ELSE opening' = NoOpen /\ UNCHANGED line
      /\ UNCHANGED <<level, pending, irqVars, file, closing, readVars, synced, edges>>

CloseBegin ==
  /\ NoIrq /\ file = "open" /\ \A r \in Readers : pc[r] = "idle"
  /\ file' = "closed" /\ closing' = 0
  /\ UNCHANGED <<level, pending, irqVars, line, opening, readVars, synced, edges>>

CloseFree ==
  /\ NoIrq /\ closing < NumKeys
  /\ line' = [line EXCEPT ![closing] = "free"]
  /\ closing' = closing + 1
  /\ UNCHANGED <<level, pending, irqVars, file, opening, readVars, synced, edges>>

(* Another driver claims a line, or gives it back. *)
OtherDriver(k) ==
  /\ NoIrq
  /\ \/ line[k] = "free"  /\ line' = [line EXCEPT ![k] = "other"]
     \/ line[k] = "other" /\ line' = [line EXCEPT ![k] = "free"]
  /\ UNCHANGED <<level, pending, irqVars, file, opening, closing, readVars, synced, edges>>
-----------------------------------------------------------------------------
(* read and poll *)

Goto(r, from, to) == NoIrq /\ pc[r] = from /\ pc' = [pc EXCEPT ![r] = to]

(* Nothing to report: a blocking read sleeps in wait_event_interruptible, a *)
(* poll sleeps on the same queue.  (A non-blocking read returns -EAGAIN.)   *)
Sleep(r) ==
  /\ file = "open" /\ ev_press = 0
  /\ Goto(r, "idle", "asleep") \/ Goto(r, "idle", "polling")
  /\ UNCHANGED <<level, pending, irqVars, lineVars, next, limit, delivered, dropped,
                 synced, edges>>

(* A read that finds ev_press set, at once or when woken, goes on to clear  *)
(* it; so does one that a signal interrupts, whose error is not looked at.  *)
Ready(r) ==
  /\ \/ file = "open" /\ ev_press = 1 /\ Goto(r, "idle", "clear")
     \/ ev_press = 1 /\ Goto(r, "woken", "clear")
     \/ ev_press = 0 /\ Goto(r, "woken", "asleep")
  /\ UNCHANGED <<level, pending, irqVars, lineVars, next, limit, delivered, dropped,
                 synced, edges>>

Signal(r) ==
  /\ Goto(r, "asleep", "clear") \/ Goto(r, "woken", "clear") \/ Goto(r, "polling", "idle")
  /\ UNCHANGED <<level, pending, irqVars, lineVars, next, limit, delivered, dropped,
                 synced, edges>>

(* ev_press is cleared before the levels are read. *)
Clear(r, count) ==
  /\ Goto(r, "clear", "copy")
  /\ ev_press' = 0
  /\ next' = [next EXCEPT ![r] = 0]
  /\ limit' = [limit EXCEPT ![r] = IF count < NumKeys THEN count ELSE NumKeys]
  /\ dropped' = dropped \cup {k \in KeyNums : k >= count}
  /\ UNCHANGED <<level, pending, irq, key_values, lineVars, delivered, synced, edges>>

(* copy_to_user moves one byte. *)
Copy(r) ==
  /\ NoIrq /\ pc[r] = "copy" /\ next[r] < limit[r]
  /\ delivered' = [delivered EXCEPT ![next[r]] = key_values[next[r]]]
  /\ dropped' = dropped \ {next[r]}
  /\ next' = [next EXCEPT ![r] = @ + 1]
  /\ UNCHANGED <<level, pending, irqVars, lineVars, pc, limit, synced, edges>>

CopyDoneClears(r) ==
  /\ next[r] = limit[r] /\ Goto(r, "copy", "idle")
  /\ ev_press' = 0
  /\ UNCHANGED <<level, pending, irq, key_values, lineVars, next, limit, delivered,
                 dropped, synced, edges>>

CopyDone(r) ==
  /\ next[r] = limit[r] /\ Goto(r, "copy", "idle")
  /\ UNCHANGED <<level, pending, irqVars, lineVars, next, limit, delivered, dropped,
                 synced, edges>>

(* copy_to_user faults and the read returns -EFAULT. *)
CopyFault(r) ==
  /\ BadBuffers /\ Goto(r, "copy", "idle")
  /\ dropped' = dropped \cup {k \in KeyNums : next[r] <= k /\ k < limit[r]}
  /\ UNCHANGED <<level, pending, irqVars, lineVars, next, limit, delivered, synced, edges>>
-----------------------------------------------------------------------------
Read(r) == Ready(r) \/ (\E count \in Counts : Clear(r, count)) \/ Copy(r) \/ CopyDone(r)

Driver == OpenRequest \/ OpenBusy \/ OpenUndo \/ CloseFree

Irq == \E k \in KeyNums : IrqSample(k) \/ IrqStore(k)

Next ==
  \/ \E k \in KeyNums : Edge(k) \/ OtherDriver(k)
  \/ Irq \/ Driver \/ OpenBegin \/ CloseBegin
  \/ \E r \in Readers : Read(r) \/ Sleep(r) \/ Signal(r) \/ CopyFault(r)

Spec == Init /\ [][Next]_vars

(* Latched interrupts are handled and the scheduler runs a thread that can  *)
(* run.  The readers are those of the unit test, which calls read in a      *)
(* loop: an idle reader reads again.                                        *)
FairSpec == /\ Spec /\ WF_vars(Irq) /\ WF_vars(Driver)
            /\ \A r \in Readers : WF_vars(Read(r))
-----------------------------------------------------------------------------
(* Properties *)

(* No key change gets lost between the handler and the readers: a level     *)
(* that readers have not seen is announced by ev_press, or some read has    *)
(* taken the announcement and has yet to copy that key, or a read asked for *)
(* too little or faulted.  This is what clearing ev_press before the copy   *)
(* buys (s3c24xx_buttons_read).                                             *)
NoLostEvent ==
  \A k \in KeyNums :
    delivered[k] # key_values[k] =>
      \/ ev_press = 1
      \/ \E r \in Readers : pc[r] = "copy" /\ next[r] <= k /\ k < limit[r]
      \/ k \in dropped

(* Nobody sleeps in read or poll while there is something to report.        *)
NoMissedWakeup ==
  ev_press = 1 => \A r \in Readers : pc[r] \notin {"asleep", "polling"}

(* Once its handler has run, key_values follows the key: it differs from    *)
(* the level only while an edge is latched or a handler is on its way.      *)
KeyTracksPin ==
  \A k \in KeyNums :
    line[k] = "keys" /\ k \in synced /\ k \notin pending /\ irq[k] = Nothing =>
      key_values[k] = level[k]

(* Outside open and release the driver holds every line of an open file and *)
(* none otherwise: a failed open gives back exactly what it had claimed,    *)
(* whatever release or other driver ran meanwhile.                          *)
LinesMatchFile ==
  opening = NoOpen /\ closing = NumKeys =>
    \A k \in KeyNums : (line[k] = "keys") = (file = "open")

(* The line that a release, or the undo loop of a failed open, is about to  *)
(* free is one that this driver holds: free_irq is called neither for the   *)
(* line of another driver nor for one that is free already.                 *)
FreesOwnLines ==
  /\ closing < NumKeys => line[closing] = "keys"
  /\ opening.step = "undo" /\ opening.i >= 0 => line[opening.i] = "keys"

(* With readers that loop and keys that come to rest, the readers are told  *)
(* the level of every key whose handler has run.                            *)
KeyReported ==
  \A k \in KeyNums :
    (file = "open" /\ k \in synced) ~> (delivered[k] = level[k] \/ file = "closed")
=============================================================================
