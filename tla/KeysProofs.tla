----------------------------- MODULE KeysProofs -----------------------------
(***************************************************************************)
(* Proofs about Keys, for any number of keys, any set of readers and any   *)
(* read sizes: what the handler records reaches the readers, nobody sleeps *)
(* through it, and open and release keep the books of the interrupt lines  *)
(* however they overlap.                                                   *)
(***************************************************************************)
EXTENDS Keys, TLAPS

ReaderStates == {"idle", "asleep", "polling", "woken", "clear", "copy"}

TypeOK ==
  /\ level \in [KeyNums -> {0, 1}] /\ pending \in SUBSET KeyNums
  /\ irq \in [KeyNums -> {Nothing, 0, 1}]
  /\ line \in [KeyNums -> {"free", "other", "keys"}]
  /\ key_values \in [KeyNums -> {0, 1}] /\ ev_press \in {0, 1}
  /\ file \in {"closed", "open"}
  /\ opening \in [step : {"none", "request", "undo"}, i : Int] /\ closing \in 0..NumKeys
  /\ pc \in [Readers -> ReaderStates]
  /\ next \in [Readers -> Nat] /\ limit \in [Readers -> 0..NumKeys]
  /\ delivered \in [KeyNums -> {0, 1}]
  /\ dropped \in SUBSET KeyNums /\ synced \in SUBSET KeyNums

(* Where the loops of open and release are.  An open that runs beside an    *)
(* open file stays at line 0, and one that runs beside a release stays      *)
(* behind it.                                                               *)
LoopsInRange ==
  /\ opening.step = "none" => opening = NoOpen
  /\ opening.step = "request" => opening.i \in 0..(NumKeys - 1) /\ opening.i <= closing
  /\ opening.step = "undo" => opening.i \in -1..(NumKeys - 1) /\ opening.i < closing
  /\ file = "open" => /\ closing = NumKeys
                      /\ opening.step = "request" => opening.i = 0
                      /\ opening.step = "undo" => opening.i = -1

(* The lines that are the driver's: all of an open file, those a release    *)
(* has yet to free, and those an open has requested and not given back.     *)
HasLine(k) ==
  \/ file = "open"
  \/ k >= closing
  \/ opening.step = "request" /\ k < opening.i
  \/ opening.step = "undo" /\ k <= opening.i

LinesAccounted == \A k \in KeyNums : line[k] = "keys" <=> HasLine(k)

LineInv == LoopsInRange /\ LinesAccounted

(* A handler runs only for a line of the driver, and what it has sampled is *)
(* the level unless another edge is latched.                                *)
SampleIsLevel ==
  \A k \in KeyNums : irq[k] # Nothing =>
    line[k] = "keys" /\ (k \notin pending => irq[k] = level[k])

PinInv == SampleIsLevel /\ KeyTracksPin
-----------------------------------------------------------------------------
(* Type correctness *)

LEMMA TypeInit == Init => TypeOK
<1> SUFFICES ASSUME Init PROVE TypeOK
  OBVIOUS
<1>1. NumKeys \in Nat \ {0}
  BY KeysAssumption
<1>2. opening \in [step : {"none", "request", "undo"}, i : Int]
  BY DEF Init, NoOpen
<1>3. \A k \in KeyNums : 0 \in {0, 1} /\ Nothing \in {Nothing, 0, 1}
  OBVIOUS
<1> QED BY <1>1, <1>2, <1>3 DEF Init, TypeOK, ReaderStates

LEMMA TypeStep == TypeOK /\ LineInv /\ [Next]_vars => TypeOK'
<1> SUFFICES ASSUME TypeOK, LineInv, [Next]_vars PROVE TypeOK'
  OBVIOUS
<1>0. NumKeys \in Nat \ {0} /\ Counts \subseteq Nat
  BY KeysAssumption
<1> USE DEF TypeOK, ReaderStates, irqVars, lineVars, readVars
<1> DEFINE Owners == {"free", "other", "keys"}
<1>a. \A i \in Int, v \in Owners : [line EXCEPT ![i] = v] \in [KeyNums -> Owners]
  OBVIOUS
<1>1. ASSUME NEW k \in KeyNums, Edge(k) PROVE TypeOK'
  BY <1>1 DEF Edge
<1>2. ASSUME NEW k \in KeyNums, OtherDriver(k) PROVE TypeOK'
  BY <1>2 DEF OtherDriver
<1>3. ASSUME NEW k \in KeyNums, IrqSample(k) PROVE TypeOK'
  BY <1>3 DEF IrqSample, Down
<1>4. ASSUME NEW k \in KeyNums, IrqStore(k) PROVE TypeOK'
  <2>1. WakeAll \in [Readers -> ReaderStates]
    BY DEF WakeAll
  <2> QED BY <1>4, <2>1 DEF IrqStore, Nothing
<1>5. ASSUME OpenRequest PROVE TypeOK'
  <2>1. opening' \in [step : {"none", "request", "undo"}, i : Int] /\ file' \in {"closed", "open"}
    BY <1>5 DEF OpenRequest, NoOpen
  <2>2. line' \in [KeyNums -> Owners] /\ synced' \in SUBSET KeyNums
    BY <1>5, <1>a DEF OpenRequest
  <2> QED BY <1>5, <2>1, <2>2 DEF OpenRequest
<1>6. ASSUME OpenBusy PROVE TypeOK'
  BY <1>6 DEF OpenBusy, UndoFrom
<1>7. ASSUME OpenUndo PROVE TypeOK'
  BY <1>7 DEF OpenUndo, NoOpen
<1>8. ASSUME CloseFree PROVE TypeOK'
  <2>1. closing' \in 0..NumKeys
    BY <1>0, <1>8 DEF CloseFree
  <2>2. line' \in [KeyNums -> Owners]
    BY <1>0, <1>8, <1>a DEF CloseFree
  <2> QED BY <1>8, <2>1, <2>2 DEF CloseFree
<1>9. ASSUME OpenBegin PROVE TypeOK'
  BY <1>9 DEF OpenBegin
<1>10. ASSUME CloseBegin PROVE TypeOK'
  BY <1>0, <1>10 DEF CloseBegin
<1>11. ASSUME NEW r \in Readers, Ready(r) \/ Sleep(r) \/ Signal(r) PROVE TypeOK'
  BY <1>11 DEF Ready, Sleep, Signal, Goto
<1>12. ASSUME NEW r \in Readers, NEW count \in Counts, Clear(r, count) PROVE TypeOK'
  BY <1>0, <1>12 DEF Clear, Goto
<1>13. ASSUME NEW r \in Readers, Copy(r) PROVE TypeOK'
  <2>1. next[r] \in KeyNums
    BY <1>0, <1>13 DEF Copy, KeyNums
  <2>2. delivered' \in [KeyNums -> {0, 1}] /\ next' \in [Readers -> Nat]
    BY <1>13, <2>1 DEF Copy
  <2>3. dropped' \in SUBSET KeyNums
    BY <1>13 DEF Copy
  <2> QED BY <1>13, <2>2, <2>3 DEF Copy
<1>14. ASSUME NEW r \in Readers, CopyDone(r) PROVE TypeOK'
  BY <1>14 DEF CopyDone, Goto
<1>15. ASSUME NEW r \in Readers, CopyFault(r) PROVE TypeOK'
  BY <1>15 DEF CopyFault, Goto
<1>16. ASSUME UNCHANGED vars PROVE TypeOK'
  BY <1>16 DEF vars
<1> QED BY <1>1, <1>2, <1>3, <1>4, <1>5, <1>6, <1>7, <1>8, <1>9, <1>10, <1>11, <1>12,
           <1>13, <1>14, <1>15, <1>16 DEF Next, Irq, Driver, Read
-----------------------------------------------------------------------------
(* The interrupt lines *)

(* The steps that leave lines and loops alone. *)
Elsewhere ==
  \/ \E k \in KeyNums : Edge(k) \/ IrqSample(k) \/ IrqStore(k)
  \/ \E r \in Readers : \/ Ready(r) \/ Sleep(r) \/ Signal(r) \/ Copy(r) \/ CopyDone(r)
                        \/ CopyFault(r) \/ \E count \in Counts : Clear(r, count)
  \/ UNCHANGED vars

LEMMA ElsewhereLines == Elsewhere => UNCHANGED lineVars
BY DEF Elsewhere, Edge, IrqSample, IrqStore, Ready, Sleep, Signal, Copy, CopyDone,
       CopyFault, Clear, vars, lineVars

LEMMA NextCases ==
  [Next]_vars => \/ Elsewhere \/ OpenBegin \/ OpenRequest \/ OpenBusy \/ OpenUndo
                 \/ CloseBegin \/ CloseFree \/ \E k \in KeyNums : OtherDriver(k)
BY DEF Next, Elsewhere, Irq, Driver, Read

(* Every step keeps the books of the lines: a request finds its line free,  *)
(* hence behind a release that is under way.                                *)
LEMMA LineStep == TypeOK /\ LineInv /\ [Next]_vars => LineInv'
<1> SUFFICES ASSUME TypeOK, LineInv, [Next]_vars PROVE LineInv'
  OBVIOUS
<1>0. /\ NumKeys \in Nat \ {0} /\ closing \in 0..NumKeys
      /\ file \in {"closed", "open"} /\ KeyNums = 0..(NumKeys - 1)
      /\ opening \in [step : {"none", "request", "undo"}, i : Int]
      /\ line \in [KeyNums -> {"free", "other", "keys"}]
  BY KeysAssumption DEF TypeOK, KeyNums
<1> USE DEF LineInv, LoopsInRange, LinesAccounted, HasLine
<1>1. CASE Elsewhere
  BY <1>1, ElsewhereLines DEF lineVars
<1>2. CASE OpenBegin
  BY <1>0, <1>2 DEF OpenBegin, NoOpen
<1>3. CASE OpenRequest
  <2> DEFINE i == opening.i
  <2>1. /\ opening.step = "request" /\ i \in KeyNums /\ line[i] = "free"
        /\ line' = [line EXCEPT ![i] = "keys"] /\ closing' = closing
    BY <1>0, <1>3 DEF OpenRequest
  <2>2. file = "closed" /\ i < closing
    BY <1>0, <2>1
  <2>3. CASE i + 1 < NumKeys
    <3>1. opening' = [opening EXCEPT !.i = i + 1] /\ file' = file
      BY <1>0, <1>3, <2>3 DEF OpenRequest
    <3> QED BY <1>0, <2>1, <2>2, <2>3, <3>1
  <2>4. CASE i + 1 = NumKeys
    <3>1. opening' = NoOpen /\ file' = "open"
      BY <1>0, <1>3, <2>4 DEF OpenRequest
    <3>2. closing = NumKeys
      BY <1>0, <2>1, <2>2, <2>4
    <3> QED BY <1>0, <2>1, <2>2, <2>4, <3>1, <3>2 DEF NoOpen
  <2> QED BY <1>0, <2>1, <2>3, <2>4
<1>4. CASE OpenBusy
  <2>1. /\ opening.step = "request" /\ opening' = [step |-> "undo", i |-> opening.i - 1]
        /\ UNCHANGED <<line, file, closing>>
    BY <1>4 DEF OpenBusy, UndoFrom
  <2> QED BY <1>0, <2>1
<1>5. CASE OpenUndo
  <2>1. opening.step = "undo" /\ UNCHANGED <<file, closing>>
    BY <1>5 DEF OpenUndo
  <2>2. CASE opening.i >= 0
    <3>1. line' = [line EXCEPT ![opening.i] = "free"] /\ opening' = [opening EXCEPT !.i = opening.i - 1]
      BY <1>5, <2>2 DEF OpenUndo, UndoMore
    <3> QED BY <1>0, <2>1, <2>2, <3>1
  <2>3. CASE ~(opening.i >= 0)
    <3>1. line' = line /\ opening' = NoOpen
      BY <1>5, <2>3 DEF OpenUndo, UndoMore
    <3> QED BY <1>0, <2>1, <2>3, <3>1 DEF NoOpen
  <2> QED BY <2>2, <2>3
<1>6. CASE CloseBegin
  BY <1>0, <1>6 DEF CloseBegin
<1>7. CASE CloseFree
  BY <1>0, <1>7 DEF CloseFree
<1>8. ASSUME NEW k \in KeyNums, OtherDriver(k) PROVE LineInv'
  BY <1>0, <1>8 DEF OtherDriver
<1> QED BY <1>1, <1>2, <1>3, <1>4, <1>5, <1>6, <1>7, <1>8, NextCases

LEMMA LineInit == Init => LineInv
BY KeysAssumption DEF Init, LineInv, LoopsInRange, LinesAccounted, HasLine, NoOpen, KeyNums

(* Types and lines together are inductive. *)
THEOREM LinesInvariant == Spec => [](TypeOK /\ LineInv)
BY TypeInit, LineInit, TypeStep, LineStep, PTL DEF Spec

(* Outside open and release the driver holds the lines of an open file and  *)
(* no others: a failed open gives back exactly what it had claimed, beside  *)
(* any release and any other driver.                                        *)
THEOREM LinesFollowFile == Spec => []LinesMatchFile
<1>1. TypeOK /\ LineInv => LinesMatchFile
  BY KeysAssumption DEF TypeOK, LineInv, LinesAccounted, HasLine, LinesMatchFile, NoOpen, KeyNums
<1> QED BY <1>1, LinesInvariant, PTL

(* free_irq is only ever called for lines that the driver holds, by a       *)
(* release and by the undo loop of an open alike.                           *)
THEOREM OnlyOwnLinesFreed == Spec => []FreesOwnLines
<1>1. TypeOK /\ LineInv => FreesOwnLines
  BY KeysAssumption DEF TypeOK, LineInv, LoopsInRange, LinesAccounted, HasLine, FreesOwnLines, KeyNums
<1> QED BY <1>1, LinesInvariant, PTL
-----------------------------------------------------------------------------
(* The handler *)

(* A line that has just been requested has not been synced yet, and nobody  *)
(* requests or frees one under a handler: the steps below are all that can  *)
(* separate key_values from the level.                                      *)
LEMMA PinStep == TypeOK /\ LineInv /\ PinInv /\ [Next]_vars => PinInv'
<1> SUFFICES ASSUME TypeOK, LineInv, PinInv, [Next]_vars PROVE PinInv'
  OBVIOUS
<1>0. /\ level \in [KeyNums -> {0, 1}] /\ irq \in [KeyNums -> {Nothing, 0, 1}]
      /\ line \in [KeyNums -> {"free", "other", "keys"}]
      /\ key_values \in [KeyNums -> {0, 1}] /\ Nothing \notin {0, 1}
  BY DEF TypeOK, Nothing
<1> USE DEF PinInv, SampleIsLevel, KeyTracksPin
<1>1. ASSUME NEW k \in KeyNums, Edge(k) PROVE PinInv'
  BY <1>0, <1>1 DEF Edge, irqVars, lineVars
<1>2. ASSUME NEW k \in KeyNums, IrqSample(k) PROVE PinInv'
  BY <1>0, <1>2 DEF IrqSample, Down, lineVars
<1>3. ASSUME NEW k \in KeyNums, IrqStore(k) PROVE PinInv'
  BY <1>0, <1>3 DEF IrqStore, lineVars
<1>4. ASSUME NoIrq, UNCHANGED <<level, pending, irqVars>>,
             \A k \in KeyNums : line'[k] = "keys" /\ k \in synced' => line[k] = "keys" /\ k \in synced
      PROVE  PinInv'
  BY <1>0, <1>4 DEF NoIrq, irqVars
<1>5. CASE OpenRequest
  <2>1. opening.i \in KeyNums /\ line' = [line EXCEPT ![opening.i] = "keys"]
        /\ synced' = synced \ {opening.i}
    BY <1>5 DEF OpenRequest, LineInv, LoopsInRange, KeyNums
  <2> QED BY <1>0, <1>4, <1>5, <2>1 DEF OpenRequest
<1>6. CASE OpenUndo \/ CloseFree \/ OpenBegin \/ OpenBusy \/ CloseBegin
  <2>1. \A i : [line EXCEPT ![i] = "free"] \in [KeyNums -> {"free", "other", "keys"}]
    BY <1>0
  <2>2. synced' = synced /\ NoIrq /\ UNCHANGED <<level, pending, irqVars>>
    BY <1>6 DEF OpenUndo, CloseFree, OpenBegin, OpenBusy, CloseBegin
  <2>3. line' = line \/ \E i : line' = [line EXCEPT ![i] = "free"]
    BY <1>6 DEF OpenUndo, CloseFree, OpenBegin, OpenBusy, CloseBegin
  <2>4. \A k \in KeyNums : line'[k] = "keys" => line[k] = "keys"
    BY <1>0, <2>3
  <2> QED BY <1>4, <2>2, <2>4
<1>7. ASSUME NEW k \in KeyNums, OtherDriver(k) PROVE PinInv'
  BY <1>0, <1>4, <1>7 DEF OtherDriver
<1>8. ASSUME NEW r \in Readers, \/ Ready(r) \/ Sleep(r) \/ Signal(r) \/ Copy(r)
                                \/ CopyDone(r) \/ CopyFault(r)
      PROVE  PinInv'
  BY <1>8 DEF Ready, Sleep, Signal, Copy, CopyDone, CopyFault, irqVars, lineVars
<1>9. ASSUME NEW r \in Readers, NEW count \in Counts, Clear(r, count) PROVE PinInv'
  BY <1>9 DEF Clear, lineVars
<1>10. CASE UNCHANGED vars
  BY <1>10 DEF vars, irqVars, lineVars
<1> QED BY <1>1, <1>2, <1>3, <1>5, <1>6, <1>7, <1>8, <1>9, <1>10, NextCases DEF Elsewhere

(* Once its handler has run, key_values follows the key: no edge that a     *)
(* handler could have missed is forgotten, however handlers nest and        *)
(* however open and release overlap.                                        *)
THEOREM KeyFollowsPin == Spec => []KeyTracksPin
<1>1. Init => PinInv
  BY DEF Init, PinInv, SampleIsLevel, KeyTracksPin
<1>2. PinInv => KeyTracksPin
  BY DEF PinInv
<1> QED BY <1>1, <1>2, PinStep, LinesInvariant, PTL DEF Spec
-----------------------------------------------------------------------------
(* The readers *)

(* Nobody goes to sleep while ev_press is set, and setting it wakes all.    *)
LEMMA WakeStep == TypeOK /\ NoMissedWakeup /\ [Next]_vars => NoMissedWakeup'
<1> SUFFICES ASSUME TypeOK, NoMissedWakeup, [Next]_vars PROVE NoMissedWakeup'
  OBVIOUS
<1>0. pc \in [Readers -> ReaderStates]
  BY DEF TypeOK
<1> USE <1>0 DEF NoMissedWakeup
<1>1. ASSUME NEW k \in KeyNums, IrqStore(k) PROVE NoMissedWakeup'
  BY <1>1 DEF IrqStore, WakeAll
<1>2. ASSUME NEW r \in Readers, Ready(r) \/ Sleep(r) PROVE NoMissedWakeup'
  BY <1>2 DEF Ready, Sleep, Goto, irqVars
<1>3. ASSUME NEW r \in Readers, Signal(r) \/ CopyDone(r) \/ CopyFault(r) PROVE NoMissedWakeup'
  BY <1>3 DEF Signal, CopyDone, CopyFault, Goto, irqVars
<1>4. ASSUME NEW r \in Readers, NEW count \in Counts, Clear(r, count) PROVE NoMissedWakeup'
  BY <1>4 DEF Clear
<1>5. ASSUME NEW r \in Readers, Copy(r) PROVE NoMissedWakeup'
  BY <1>5 DEF Copy, irqVars
<1>6. ASSUME NEW k \in KeyNums, Edge(k) \/ IrqSample(k) \/ OtherDriver(k) PROVE NoMissedWakeup'
  BY <1>6 DEF Edge, IrqSample, OtherDriver, irqVars, readVars
<1>7. CASE OpenBegin \/ OpenRequest \/ OpenBusy \/ OpenUndo \/ CloseBegin \/ CloseFree
  BY <1>7 DEF OpenBegin, OpenRequest, OpenBusy, OpenUndo, CloseBegin, CloseFree, irqVars, readVars
<1>8. CASE UNCHANGED vars
  BY <1>8 DEF vars, irqVars, readVars
<1> QED BY <1>1, <1>2, <1>3, <1>4, <1>5, <1>6, <1>7, <1>8, NextCases DEF Elsewhere

(* Nobody sleeps in read or in poll while there is something to report      *)
(* (wait_event_interruptible and poll_wait against the handler's wake-up).  *)
THEOREM NobodySleepsThrough == Spec => []NoMissedWakeup
<1>1. Init => NoMissedWakeup
  BY DEF Init, NoMissedWakeup
<1> QED BY <1>1, WakeStep, LinesInvariant, PTL DEF Spec

(* A reader that has yet to copy key k. *)
Owes(r, k) == pc[r] = "copy" /\ next[r] <= k /\ k < limit[r]

(* A change is announced, owed by a reader, or was left out of a read.      *)
LEMMA EventStep == TypeOK /\ NoLostEvent /\ [Next]_vars => NoLostEvent'
<1> SUFFICES ASSUME TypeOK, NoLostEvent, [Next]_vars, NEW k \in KeyNums,
                    delivered'[k] # key_values'[k]
             PROVE  \/ ev_press' = 1 \/ k \in dropped'
                    \/ \E r \in Readers : Owes(r, k)'
  BY DEF NoLostEvent, Owes
<1> DEFINE Reported == \/ ev_press' = 1 \/ k \in dropped' \/ \E r \in Readers : Owes(r, k)'
           Before   == \/ ev_press = 1 \/ k \in dropped \/ \E r \in Readers : Owes(r, k)
<1>0. /\ NumKeys \in Nat /\ Counts \subseteq Nat /\ KeyNums = 0..(NumKeys - 1)
      /\ key_values \in [KeyNums -> {0, 1}] /\ delivered \in [KeyNums -> {0, 1}]
      /\ pc \in [Readers -> ReaderStates] /\ ev_press \in {0, 1}
      /\ next \in [Readers -> Nat] /\ limit \in [Readers -> 0..NumKeys]
      /\ dropped \in SUBSET KeyNums
  BY KeysAssumption DEF TypeOK, KeyNums
<1>a. delivered[k] # key_values[k] => Before
  BY DEF NoLostEvent, Owes
<1>1. ASSUME NEW j \in KeyNums, IrqStore(j) PROVE Reported
  <2>1. CASE irq[j] # key_values[j]
    BY <1>1, <2>1 DEF IrqStore
  <2>2. CASE irq[j] = key_values[j]
    BY <1>1, <1>a, <2>2 DEF IrqStore, Owes
  <2> QED BY <2>1, <2>2
<1>2. ASSUME NEW r \in Readers, NEW count \in Counts, Clear(r, count) PROVE Reported
  <2>1. /\ pc' = [pc EXCEPT ![r] = "copy"] /\ next' = [next EXCEPT ![r] = 0]
        /\ limit' = [limit EXCEPT ![r] = IF count < NumKeys THEN count ELSE NumKeys]
        /\ dropped' = dropped \cup {j \in KeyNums : j >= count}
    BY <1>2 DEF Clear, Goto
  <2> QED BY <1>0, <2>1 DEF Owes
<1>3. ASSUME NEW r \in Readers, Copy(r) PROVE Reported
  <2>1. /\ next[r] < limit[r] /\ next' = [next EXCEPT ![r] = @ + 1]
        /\ delivered' = [delivered EXCEPT ![next[r]] = key_values[next[r]]]
        /\ dropped' = dropped \ {next[r]}
        /\ UNCHANGED <<pc, limit, key_values, ev_press>>
    BY <1>3 DEF Copy, irqVars
  <2>2. k # next[r] /\ delivered[k] # key_values[k]
    BY <1>0, <2>1
  <2> QED BY <1>0, <1>a, <2>1, <2>2 DEF Owes
<1>4. ASSUME NEW r \in Readers, CopyDone(r) PROVE Reported
  <2>1. /\ next[r] = limit[r] /\ pc' = [pc EXCEPT ![r] = "idle"]
        /\ UNCHANGED <<next, limit, key_values, ev_press, delivered, dropped>>
    BY <1>4 DEF CopyDone, Goto, irqVars
  <2>2. ~Owes(r, k)
    BY <1>0, <2>1 DEF Owes
  <2> QED BY <1>0, <1>a, <2>1, <2>2 DEF Owes
<1>5. ASSUME NEW r \in Readers, CopyFault(r) PROVE Reported
  <2>1. /\ pc' = [pc EXCEPT ![r] = "idle"]
        /\ dropped' = dropped \cup {j \in KeyNums : next[r] <= j /\ j < limit[r]}
        /\ UNCHANGED <<next, limit, key_values, ev_press, delivered>>
    BY <1>5 DEF CopyFault, Goto, irqVars
  <2>2. Owes(r, k) => k \in dropped'
    BY <2>1 DEF Owes
  <2> QED BY <1>0, <1>a, <2>1, <2>2 DEF Owes
<1>6. ASSUME NEW r \in Readers, Ready(r) \/ Sleep(r) \/ Signal(r) PROVE Reported
  <2>1. UNCHANGED <<next, limit, key_values, ev_press, delivered, dropped>>
    BY <1>6 DEF Ready, Sleep, Signal, irqVars
  <2>2. \A s \in Readers : pc[s] = "copy" => pc'[s] = "copy"
    BY <1>0, <1>6 DEF Ready, Sleep, Signal, Goto
  <2> QED BY <1>a, <2>1, <2>2 DEF Owes
<1>7. ASSUME NEW j \in KeyNums, Edge(j) \/ IrqSample(j) \/ OtherDriver(j) PROVE Reported
  BY <1>a, <1>7 DEF Edge, IrqSample, OtherDriver, irqVars, readVars, Owes
<1>8. CASE OpenBegin \/ OpenRequest \/ OpenBusy \/ OpenUndo \/ CloseBegin \/ CloseFree
  BY <1>a, <1>8 DEF OpenBegin, OpenRequest, OpenBusy, OpenUndo, CloseBegin, CloseFree,
     irqVars, readVars, Owes
<1>9. CASE UNCHANGED vars
  BY <1>a, <1>9 DEF vars, irqVars, readVars, Owes
<1> QED BY <1>1, <1>2, <1>3, <1>4, <1>5, <1>6, <1>7, <1>8, <1>9, NextCases DEF Elsewhere

(* No key change is lost between the handler and the readers, for any       *)
(* number of concurrent reads of any lengths, faulting or not               *)
(* (s3c24xx_buttons_read clears ev_press before it copies).                 *)
THEOREM EventsReachReaders == Spec => []NoLostEvent
<1>1. Init => NoLostEvent
  BY DEF Init, NoLostEvent
<1> QED BY <1>1, EventStep, LinesInvariant, PTL DEF Spec
=============================================================================
