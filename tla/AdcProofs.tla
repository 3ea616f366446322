------------------------------ MODULE AdcProofs -----------------------------
(***************************************************************************)
(* Proofs about Adc, for any set of readers: the semaphore admits one read *)
(* at a time, and what a read finds and leaves behind depends on where it  *)
(* is, unless a signal or another driver has interfered.                   *)
(***************************************************************************)
EXTENDS Adc, TLAPS

Waiting == {"wait", "asleep", "awake"}
Places  == {"idle", "own", "start", "clear", "take", "disown", "up", "reply"} \cup Waiting

TypeOK ==
  /\ ADC_LOCK \in {0, 1} /\ OwnADC \in {0, 1} /\ ev_adc \in {0, 1}
  /\ adc_data \in {"old", "new"} /\ ADCDAT0 \in {"old", "new"}
  /\ waiters \in SUBSET Readers
  /\ busy \in BOOLEAN /\ raised \in BOOLEAN /\ stray \in BOOLEAN
  /\ pc \in [Readers -> Places] /\ value \in [Readers -> {"old", "new", "refused"}]

(* Only a sleeping reader is on the wait queue. *)
WaitersSleep == \A r \in waiters : pc[r] = "asleep"

(* One conversion on its way: running, at the interrupt, or fetched.        *)
OnItsWay ==
  \/ busy /\ ~raised /\ ev_adc = 0
  \/ ~busy /\ raised /\ ADCDAT0 = "new" /\ ev_adc = 0
  \/ ~busy /\ ~raised /\ ev_adc = 1 /\ adc_data = "new"

(* What is true of the ADC at each place of a read, if nothing interfered.  *)
Undisturbed ==
  ~stray =>
    /\ ADC_LOCK = 1 => AtRest
    /\ \A r \in Readers :
         /\ pc[r] \in {"own", "start", "take", "disown", "up"} => AtRest
         /\ pc[r] \in Waiting => OnItsWay
         /\ pc[r] = "clear" => ev_adc = 1 /\ ~busy /\ ~raised /\ adc_data = "new"
         /\ pc[r] = "take" => adc_data = "new"
         /\ pc[r] \in {"disown", "up"} => value[r] = "new"

IInv == TypeOK /\ OneOwner /\ WaitersSleep /\ Undisturbed

LEMMA InvInit == Init => IInv
<1> SUFFICES ASSUME Init PROVE IInv
  OBVIOUS
<1>1. TypeOK
  <2>1. busy \in BOOLEAN /\ raised \in BOOLEAN /\ stray \in BOOLEAN
    BY Zenon DEF Init
  <2> QED BY <2>1 DEF Init, TypeOK, Places
<1> QED BY <1>1 DEF Init, IInv, OneOwner, Inside, WaitersSleep, Undisturbed, AtRest, Waiting

(* Types *)
LEMMA TypeStep == IInv /\ [Next]_vars => TypeOK'
<1> SUFFICES ASSUME IInv, [Next]_vars PROVE TypeOK'
  OBVIOUS
<1> USE DEF TypeOK, IInv, Places, Waiting, Goto, device, historyVars
<1>1. CASE Convert
  BY <1>1 DEF Convert
<1>2. CASE OtherConvert
  BY <1>2 DEF OtherConvert
<1>3. CASE Interrupt
  BY <1>3 DEF Interrupt
<1>4. CASE Open
  BY <1>4 DEF Open
<1>5. ASSUME NEW r \in Readers, Enter(r) PROVE TypeOK'
  BY <1>5 DEF Enter, TryLock
<1>6. ASSUME NEW r \in Readers, Own(r) \/ Disown(r) \/ Take(r) \/ Reply(r) \/ Clear(r) PROVE TypeOK'
  BY <1>6 DEF Own, Disown, Take, Reply, Clear, ClearEvent
<1>7. ASSUME NEW r \in Readers, Start(r) PROVE TypeOK'
  BY <1>7 DEF Start, AtRest
<1>8. ASSUME NEW r \in Readers, WaitEvent(r) PROVE TypeOK'
  BY <1>8 DEF WaitEvent, Wait
<1>9. ASSUME NEW r \in Readers, Signal(r) PROVE TypeOK'
  BY <1>9 DEF Signal
<1>10. ASSUME NEW r \in Readers, Up(r) PROVE TypeOK'
  BY <1>10 DEF Up, UpSemaphore, OneOwner, Inside
<1>11. CASE UNCHANGED vars
  BY <1>11 DEF vars
<1> QED BY <1>1, <1>2, <1>3, <1>4, <1>5, <1>6, <1>7, <1>8, <1>9, <1>10, <1>11 DEF Next, Read
-----------------------------------------------------------------------------
(* Who is inside *)

(* The steps of a reader that neither take nor give back the semaphore.     *)
LEMMA OwnerStep == IInv /\ [Next]_vars => OneOwner'
<1> SUFFICES ASSUME IInv, [Next]_vars PROVE OneOwner'
  OBVIOUS
<1>0. /\ pc \in [Readers -> Places] /\ ADC_LOCK \in {0, 1} /\ OwnADC \in {0, 1}
      /\ waiters \in SUBSET Readers /\ \A r \in waiters : pc[r] = "asleep"
  BY DEF IInv, TypeOK, WaitersSleep
<1> USE <1>0 DEF IInv, OneOwner, Inside, Goto
<1>1. CASE Convert \/ OtherConvert \/ Open
  BY <1>1 DEF Convert, OtherConvert, Open
<1>2. CASE Interrupt
  BY <1>2 DEF Interrupt
<1>3. ASSUME NEW r \in Readers, Enter(r) PROVE OneOwner'
  <2>1. CASE ADC_LOCK > 0
    BY <1>3, <2>1 DEF Enter, TryLock
  <2>2. CASE ADC_LOCK = 0
    BY <1>3, <2>2 DEF Enter, TryLock
  <2> QED BY <2>1, <2>2
<1>4. ASSUME NEW r \in Readers, Own(r) PROVE OneOwner'
  BY <1>4 DEF Own
<1>5. ASSUME NEW r \in Readers, Disown(r) PROVE OneOwner'
  BY <1>5 DEF Disown
<1>6. ASSUME NEW r \in Readers, Start(r) \/ Clear(r) \/ Take(r) \/ Signal(r) PROVE OneOwner'
  BY <1>6 DEF Start, Clear, Take, Signal
<1>7. ASSUME NEW r \in Readers, WaitEvent(r) PROVE OneOwner'
  BY <1>7 DEF WaitEvent, Wait
<1>8. ASSUME NEW r \in Readers, Up(r) PROVE OneOwner'
  BY <1>8 DEF Up, UpSemaphore
<1>9. ASSUME NEW r \in Readers, Reply(r) PROVE OneOwner'
  BY <1>9 DEF Reply
<1>10. CASE UNCHANGED vars
  BY <1>10 DEF vars
<1> QED BY <1>1, <1>2, <1>3, <1>4, <1>5, <1>6, <1>7, <1>8, <1>9, <1>10 DEF Next, Read

LEMMA WaitersStep == IInv /\ [Next]_vars => WaitersSleep'
<1> SUFFICES ASSUME IInv, [Next]_vars PROVE WaitersSleep'
  OBVIOUS
<1>0. pc \in [Readers -> Places] /\ waiters \in SUBSET Readers
  BY DEF IInv, TypeOK
<1> USE <1>0 DEF IInv, WaitersSleep, Goto
<1>1. CASE Convert \/ OtherConvert \/ Open \/ Interrupt \/ UNCHANGED vars
  BY <1>1 DEF Convert, OtherConvert, Open, Interrupt, vars
<1>2. ASSUME NEW r \in Readers, Enter(r) PROVE WaitersSleep'
  BY <1>2 DEF Enter, TryLock
<1>3. ASSUME NEW r \in Readers, \/ Own(r) \/ Start(r) \/ Clear(r) \/ Take(r) \/ Disown(r)
                                \/ Up(r) \/ Reply(r) \/ Signal(r)
      PROVE  WaitersSleep'
  BY <1>3 DEF Own, Start, Clear, Take, Disown, Up, Reply, Signal
<1>4. ASSUME NEW r \in Readers, WaitEvent(r) PROVE WaitersSleep'
  BY <1>4 DEF WaitEvent, Wait
<1> QED BY <1>1, <1>2, <1>3, <1>4 DEF Next, Read
-----------------------------------------------------------------------------
(* What a read finds *)

(* A reader that steps inside is the only one inside, so what is said of    *)
(* the places of others is said of nobody.                                  *)
LEMMA UndisturbedStep == IInv /\ [Next]_vars => Undisturbed'
<1> SUFFICES ASSUME IInv, [Next]_vars, ~stray' PROVE Undisturbed'
  BY DEF Undisturbed
<1>0. /\ pc \in [Readers -> Places] /\ ADC_LOCK \in {0, 1} /\ OwnADC \in {0, 1}
      /\ ev_adc \in {0, 1} /\ busy \in BOOLEAN /\ raised \in BOOLEAN /\ stray \in BOOLEAN
      /\ value \in [Readers -> {"old", "new", "refused"}]
      /\ waiters \in SUBSET Readers /\ \A r \in waiters : pc[r] = "asleep"
  BY DEF IInv, TypeOK, WaitersSleep
<1>a. \A r \in Readers : Inside(r) => ADC_LOCK = 0 /\ \A s \in Readers \ {r} : ~Inside(s)
  BY DEF IInv, OneOwner
<1> USE <1>0 DEF IInv, Undisturbed, AtRest, Waiting, OnItsWay, Goto
<1>1. CASE Convert
  BY <1>1 DEF Convert, historyVars
<1>2. CASE OtherConvert \/ \E r \in Readers : Signal(r)
  BY <1>2 DEF OtherConvert, Signal
<1>3. CASE Interrupt
  BY <1>3, <1>a DEF Interrupt, historyVars, Handles, OneOwner, Inside
<1>4. CASE Open \/ UNCHANGED vars
  BY <1>4 DEF Open, vars, device, historyVars
<1>5. ASSUME NEW r \in Readers, Enter(r) PROVE Undisturbed'
  BY <1>5 DEF Enter, TryLock, device, historyVars
<1>6. ASSUME NEW r \in Readers, Own(r) \/ Disown(r) PROVE Undisturbed'
  BY <1>6 DEF Own, Disown, device, historyVars
<1>7. ASSUME NEW r \in Readers, Start(r) PROVE Undisturbed'
  BY <1>7, <1>a DEF Start, Inside
<1>8. ASSUME NEW r \in Readers, WaitEvent(r) PROVE Undisturbed'
  BY <1>8, <1>a DEF WaitEvent, Wait, device, historyVars, Inside
<1>9. ASSUME NEW r \in Readers, Clear(r) PROVE Undisturbed'
  BY <1>9, <1>a DEF Clear, ClearEvent, device, historyVars, Inside
<1>10. ASSUME NEW r \in Readers, Take(r) PROVE Undisturbed'
  BY <1>10 DEF Take, device, historyVars
<1>11. ASSUME NEW r \in Readers, Up(r) PROVE Undisturbed'
  BY <1>11 DEF Up, UpSemaphore, device, historyVars
<1>12. ASSUME NEW r \in Readers, Reply(r) PROVE Undisturbed'
  BY <1>12 DEF Reply, device, historyVars
<1> QED BY <1>1, <1>2, <1>3, <1>4, <1>5, <1>6, <1>7, <1>8, <1>9, <1>10, <1>11, <1>12
        DEF Next, Read

(* Every reachable state satisfies the inductive invariant. *)
THEOREM Invariance == Spec => []IInv
<1>1. IInv /\ [Next]_vars => IInv'
  BY TypeStep, OwnerStep, WaitersStep, UndisturbedStep DEF IInv
<1> QED BY <1>1, InvInit, PTL DEF Spec

(* One read at a time is between down_trylock and up, and OwnADC speaks of  *)
(* that read, for any number of readers and whatever signals, opens and     *)
(* foreign interrupts occur.                                                *)
THEOREM ReadsAreExclusive == Spec => []OneOwner
<1>1. IInv => OneOwner
  BY DEF IInv
<1> QED BY <1>1, Invariance, PTL

(* A read returns a sample of its own conversion, unless a signal cut a     *)
(* read short or another driver converted since the ADC was last at rest.   *)
THEOREM SampleIsOwn == Spec => []FreshSample
<1>1. IInv => FreshSample
  BY DEF IInv, Undisturbed, FreshSample
<1> QED BY <1>1, Invariance, PTL

(* A read leaves nothing behind for the next, under the same excuse.        *)
THEOREM NothingHandedOn == Spec => []CleanHandover
<1>1. IInv => CleanHandover
  BY DEF IInv, TypeOK, OneOwner, Inside, WaitersSleep, Undisturbed, CleanHandover
<1> QED BY <1>1, Invariance, PTL
=============================================================================
