-------------------------------- MODULE Adc ---------------------------------
(***************************************************************************)
(* The analog-digital converter driver, adc/driver/adc.c: a read takes     *)
(* ADC_LOCK or gives up, starts a conversion, sleeps until the interrupt   *)
(* handler has fetched a sample, and returns it.  open prepares the wait   *)
(* queue, each time it is called.  The interrupt line is shared.           *)
(*                                                                         *)
(* One processor: the handler, one step, may cut in between any two steps  *)
(* of a read.  A sample is "new" if it was converted for the read that     *)
(* last started a conversion, else "old".                                  *)
(***************************************************************************)
EXTENDS Integers

CONSTANT Readers  \* threads that read /dev/mini2440-adc

VARIABLES
  ADC_LOCK,  \* the semaphore: 1 when free
  OwnADC,
  ev_adc,
  adc_data,  \* the sample the handler fetched last, "old" or "new"
  waiters,   \* readers on the wait queue
  busy,      \* the ADC is converting
  raised,    \* its interrupt is raised
  ADCDAT0,   \* the sample in its data register, "old" or "new"
  pc,        \* where each reader is
  value,     \* what each reader is about to return, or "refused"
  stray,     \* history: since the ADC was last found at rest by a read, a signal
             \* has cut a read short or another driver has converted
  forgotten  \* history: the device has been opened while a reader slept

device      == <<busy, raised, ADCDAT0>>
historyVars == <<stray, forgotten>>
vars == <<ADC_LOCK, OwnADC, ev_adc, adc_data, waiters, device, pc, value, historyVars>>


Init ==
  /\ ADC_LOCK = 1 /\ OwnADC = 0 /\ ev_adc = 0 /\ adc_data = "old"
  /\ waiters = {} /\ busy = FALSE /\ raised = FALSE /\ ADCDAT0 = "old"
  /\ pc = [r \in Readers |-> "idle"]
  /\ value = [r \in Readers |-> "refused"]
  /\ stray = FALSE /\ forgotten = FALSE

Goto(r, from, to) == pc[r] = from /\ pc' = [pc EXCEPT ![r] = to]
-----------------------------------------------------------------------------
(* The converter and its interrupt *)

Convert ==
  /\ busy
  /\ busy' = FALSE /\ raised' = TRUE /\ ADCDAT0' = "new"
  /\ UNCHANGED <<ADC_LOCK, OwnADC, ev_adc, adc_data, waiters, pc, value, historyVars>>

(* Another driver's conversion ends; if it displaces ours, ours is lost. *)
OtherConvert ==
  /\ raised' = TRUE /\ ADCDAT0' = "old" /\ busy' \in {busy, FALSE}
  /\ stray' = TRUE
  /\ UNCHANGED <<ADC_LOCK, OwnADC, ev_adc, adc_data, waiters, pc, value, forgotten>>

(* adcdone_int_handler fetches the sample for whoever owns the ADC. *)
Handles == OwnADC = 1

Interrupt ==
  /\ raised /\ raised' = FALSE
  /\ IF Handles
     THEN /\ adc_data' = ADCDAT0
          /\ ev_adc' = 1
          /\ pc' = [r \in Readers |-> IF r \in waiters THEN "awake" ELSE pc[r]]
          /\ waiters' = {}
     ELSE UNCHANGED <<adc_data, ev_adc, waiters, pc>>
  /\ UNCHANGED <<ADC_LOCK, OwnADC, busy, ADCDAT0, value, historyVars>>
-----------------------------------------------------------------------------
(* open, which makes the wait queue empty whoever is on it *)

Open ==
  /\ waiters' = {}
  /\ forgotten' = (forgotten \/ waiters # {})
  /\ UNCHANGED <<ADC_LOCK, OwnADC, ev_adc, adc_data, device, pc, value, stray>>
-----------------------------------------------------------------------------
(* adc_read *)

(* down_trylock; a reader that is refused returns -1 as its value. *)
TryLock(r) ==
  \/ /\ ADC_LOCK > 0 /\ Goto(r, "idle", "own")
     /\ ADC_LOCK' = ADC_LOCK - 1
     /\ UNCHANGED value
  \/ /\ ADC_LOCK = 0 /\ Goto(r, "idle", "reply")
     /\ value' = [value EXCEPT ![r] = "refused"]
     /\ UNCHANGED ADC_LOCK

Enter(r) ==
  /\ TryLock(r)
  /\ UNCHANGED <<OwnADC, ev_adc, adc_data, waiters, device, historyVars>>

Own(r) ==
  /\ Goto(r, "own", "start")
  /\ OwnADC' = 1
  /\ UNCHANGED <<ADC_LOCK, ev_adc, adc_data, waiters, device, value, historyVars>>

(* Nothing is left over from an earlier conversion. *)
AtRest == ev_adc = 0 /\ ~busy /\ ~raised

(* START_ADC_AIN: a conversion begins, and every earlier sample is old. *)
Start(r) ==
  /\ Goto(r, "start", "wait")
  /\ busy' = TRUE
  /\ adc_data' = "old" /\ ADCDAT0' = "old"
  /\ stray' = (stray /\ ~AtRest)
  /\ UNCHANGED <<ADC_LOCK, OwnADC, ev_adc, waiters, raised, value, forgotten>>

(* wait_event_interruptible, whose error is not looked at. *)
WaitOnce(r) ==
  /\ pc[r] = "wait"
  /\ pc' = [pc EXCEPT ![r] = "clear"]
  /\ UNCHANGED waiters
WaitSleepOn(r) ==
  \/ Goto(r, "wait", "asleep") /\ waiters' = waiters \cup {r}
  \/ Goto(r, "awake", "clear") /\ UNCHANGED waiters
Wait(r) ==
  \/ ev_adc = 1 /\ (Goto(r, "wait", "clear") \/ Goto(r, "awake", "clear")) /\ UNCHANGED waiters
  \/ /\ ev_adc = 0 /\ (Goto(r, "wait", "asleep") \/ Goto(r, "awake", "asleep"))
     /\ waiters' = waiters \cup {r}

WaitEvent(r) ==
  /\ Wait(r)
  /\ UNCHANGED <<ADC_LOCK, OwnADC, ev_adc, adc_data, device, value, historyVars>>

Signal(r) ==
  /\ Goto(r, "asleep", "clear")
  /\ waiters' = waiters \ {r}
  /\ stray' = TRUE
  /\ UNCHANGED <<ADC_LOCK, OwnADC, ev_adc, adc_data, device, value, forgotten>>

(* ev_adc = 0: the next read must wait for an event of its own. *)
LeaveEvent == ev_adc
ClearEvent == 0

Clear(r) ==
  /\ Goto(r, "clear", "take")
  /\ ev_adc' = ClearEvent
  /\ UNCHANGED <<ADC_LOCK, OwnADC, adc_data, waiters, device, value, historyVars>>

Take(r) ==
  /\ Goto(r, "take", "disown")
  /\ value' = [value EXCEPT ![r] = adc_data]
  /\ UNCHANGED <<ADC_LOCK, OwnADC, ev_adc, adc_data, waiters, device, historyVars>>

Disown(r) ==
  /\ Goto(r, "disown", "up")
  /\ OwnADC' = 0
  /\ UNCHANGED <<ADC_LOCK, ev_adc, adc_data, waiters, device, value, historyVars>>

NoUp(r) == UNCHANGED ADC_LOCK
UpSemaphore(r) == ADC_LOCK' = ADC_LOCK + 1

Up(r) ==
  /\ Goto(r, "up", "reply")
  /\ UpSemaphore(r)
  /\ UNCHANGED <<OwnADC, ev_adc, adc_data, waiters, device, value, historyVars>>

(* The value is formatted and copied out, or the buffer is too short. *)
Reply(r) ==
  /\ Goto(r, "reply", "idle")
  /\ value' = [value EXCEPT ![r] = "refused"]
  /\ UNCHANGED <<ADC_LOCK, OwnADC, ev_adc, adc_data, waiters, device, historyVars>>

Read(r) == \/ Own(r) \/ Start(r) \/ WaitEvent(r) \/ Clear(r)
           \/ Take(r) \/ Disown(r) \/ Up(r) \/ Reply(r)

Next ==
  \/ Convert \/ OtherConvert \/ Interrupt \/ Open
  \/ \E r \in Readers : Enter(r) \/ Read(r) \/ Signal(r)

Spec == Init /\ [][Next]_vars

(* The converter converts, its interrupt is served, and the scheduler runs  *)
(* a read that can run.  Nobody has to read, open or send a signal.         *)
FairSpec == /\ Spec /\ WF_vars(Convert) /\ WF_vars(Interrupt)
            /\ \A r \in Readers : WF_vars(Read(r))
-----------------------------------------------------------------------------
(* Properties *)

Inside(r) == pc[r] \notin {"idle", "reply"}

(* One read at a time is between down_trylock and up, and OwnADC tells the  *)
(* handler of a read in progress and of nothing else, whatever signals,     *)
(* opens and foreign interrupts occur (adc_read).                           *)
OneOwner ==
  /\ \A r, s \in Readers : Inside(r) /\ Inside(s) => r = s
  /\ ADC_LOCK = 0 <=> \E r \in Readers : Inside(r)
  /\ OwnADC = 1 <=> \E r \in Readers : Inside(r) /\ pc[r] \notin {"own", "up"}

(* A read that was not refused returns the sample of the conversion that it *)
(* started itself, not one left over from an earlier read, unless a signal  *)
(* or another driver has interfered since a read last found the ADC at      *)
(* rest.  Without that excuse it does not hold: the result of the wait is   *)
(* ignored.                                                                 *)
FreshSample ==
  \A r \in Readers : pc[r] \in {"disown", "up"} /\ ~stray => value[r] = "new"

(* Between reads nothing is left over: no event is set, no conversion runs  *)
(* and no interrupt is due, so that the next read starts from scratch --    *)
(* under the same excuse.                                                   *)
CleanHandover == ADC_LOCK = 1 /\ ~stray => AtRest /\ waiters = {}

(* Every read returns, with a sample or at once if the ADC is taken,        *)
(* whatever signals and foreign interrupts come, unless an open makes the   *)
(* wait queue forget a sleeper.                                             *)
ReadReturns == \A r \in Readers : pc[r] # "idle" ~> pc[r] = "idle" \/ forgotten
=============================================================================
