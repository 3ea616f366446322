-------------------------- MODULE LifecycleProofs ---------------------------
(***************************************************************************)
(* Proofs about Lifecycle, in two halves: what makes the tables of an init *)
(* and an exit function sound, shown of each of the twelve drivers, and    *)
(* that the machine keeps its promises to every user, with every step      *)
(* failing or not, for any driver whose tables are sound.                  *)
(***************************************************************************)
EXTENDS Lifecycle, SequenceTheorems, TLAPS

(* What the functions acquire and give back. *)
Resources == {"region", "resource", "map", "irq", "clk", "enable", "node", "buffer", "reserved",
              "ref", "attr", "numbers", "cdev0", "cdev1", "cdev2", "device", "driver"}

Given(s)    == {s[i] : i \in 1..Len(s)}
Distinct(s) == \A i, j \in 1..Len(s) : s[i] = s[j] => i = j

Length(d)  == Len(InitFunction[d].acquire)
Checked(d) == (1..Length(d)) \ (InitFunction[d].sure \cup InitFunction[d].unchecked)

(* What the steps before step k acquire, and what an unnoticed failure may  *)
(* have left out of it.                                                     *)
Acquired(d, k) == UNION {InitFunction[d].acquire[i] : i \in 1..(k - 1)}
Missable(d)    == UNION {InitFunction[d].acquire[i] : i \in InitFunction[d].unchecked}

(* The exceptions that NothingLeftBehind and GivesBackOwn make. *)
Leftover(d, fail) == LeftAtExit(d) \cup (IF fail THEN LeftByFailure(d) ELSE {})
Astray(d)         == CASE d = "watchdog" -> Region [] d = "scull" -> {"node"} [] OTHER -> {}

(* The tables *)

TableTyped(d) ==
  /\ Length(d) \in Nat \ {0} /\ InitFunction[d].unchecked \subseteq 1..Length(d)
  /\ \A i \in 1..Length(d) : InitFunction[d].acquire[i] \subseteq Resources

(* A failure gives back what was acquired before it, once, and no more. *)
UndoSound(d, s) ==
  LET undo == InitFunction[d].undo[s]
  IN  /\ undo \in Seq(Resources) /\ Distinct(undo)
      /\ Acquired(d, s) \subseteq Given(undo) \cup Leftover(d, TRUE)
      /\ Given(undo) \subseteq (Acquired(d, s) \ Missable(d)) \cup Astray(d)

(* The exit function gives back what the init function acquired. *)
ExitSound(d) ==
  LET exit == ExitFunction[d]
      all  == Acquired(d, Length(d) + 1)
  IN  /\ exit \in Seq(Resources) /\ Distinct(exit)
      /\ all \subseteq Given(exit) \cup LeftAtExit(d)
      /\ Given(exit) \subseteq all
      /\ Given(exit) \cap Missable(d) \subseteq Astray(d)

(* The device can be opened only when what its handlers need is there: it   *)
(* is registered last, or, in mmap and echo, is not.  Where an exit takes   *)
(* the device from its users it does so first.                              *)
NodeSound(d) ==
  /\ Needs(d) # {} => Missable(d) = {} /\ Needs(d) \subseteq Acquired(d, Length(d) + 1)
  /\ Needs(d) # {} /\ d \notin {"mmap", "echo"} =>
       "node" \notin Acquired(d, Length(d)) \cup Leftover(d, TRUE)
  /\ d \in Revokes => ExitFunction[d] # <<>> /\ Head(ExitFunction[d]) = "node"

TableSound(d) ==
  /\ TableTyped(d) /\ ExitSound(d) /\ NodeSound(d)
  /\ \A s \in Checked(d) : UndoSound(d, s)
-----------------------------------------------------------------------------
(* The invariant *)

Phases == {"out", "init", "undo", "in", "exit"}

TypeOK ==
  /\ driver \in Drivers /\ phase \in Phases /\ todo \in Seq(Resources) /\ held \subseteq Resources
  /\ phase = "init" => step \in 1..Length(driver)
  /\ phase = "in" => step = Length(driver) + 1
  /\ going \in BOOLEAN /\ user \in BOOLEAN /\ failed \in BOOLEAN /\ unbound \in BOOLEAN

(* On the way in, what is held is what the steps so far have acquired, but  *)
(* for leftovers and for failures that went unnoticed; ...                  *)
WayIn ==
  phase \in {"init", "in"} =>
    /\ held \subseteq Leftover(driver, failed) \cup Acquired(driver, step)
    /\ Acquired(driver, step) \subseteq held \cup (IF failed THEN Missable(driver) ELSE {})

(* ... on the way out, what is held is what is still to be given back.      *)
WayOut ==
  phase \in {"undo", "exit"} =>
    /\ Distinct(todo)
    /\ held \subseteq Leftover(driver, failed) \cup Given(todo)
    /\ Given(todo) \subseteq held \cup (IF failed THEN Astray(driver) ELSE {})

UndoIsFailure == phase = "undo" => failed

BooksInv == /\ TypeOK /\ WayIn /\ WayOut /\ UndoIsFailure
            /\ NothingLeftBehind /\ GivesBackOwn

Excused ==
  \/ driver \in {"mmap", "echo"} /\ (phase = "init" \/ failed)
  \/ driver = "watchdog" /\ unbound

(* Who may be using the device in each phase, if the handlers need          *)
(* anything and UserFindsResources does not excuse it.                      *)
UserPhase ==
  user /\ Needs(driver) # {} /\ ~Excused =>
    \/ phase = "in"
    \/ phase = "exit" /\ driver \in Revokes /\ todo = ExitFunction[driver]

ExitClosed ==
  phase = "exit" =>
    /\ going \/ (driver \in Platform /\ unbound)
    /\ driver \in Revokes /\ todo # ExitFunction[driver] => "node" \notin held
    /\ driver \in Revokes /\ "node" \in held => Needs(driver) \subseteq held

(* An undo finds no device to open, where the device is registered last.    *)
UndoClosed ==
  phase = "undo" /\ Needs(driver) # {} /\ driver \notin {"mmap", "echo"} => "node" \notin held

UserInv == UserPhase /\ ExitClosed /\ UndoClosed /\ UserFindsResources
-----------------------------------------------------------------------------
(* The tables are sound *)

(* The drivers of the tables. *)
LEMMA DriverNames ==
  DOMAIN InitFunction = {"watchdog", "rtc", "adc", "mmap", "echo", "version", "scull",
                         "cp0", "keys", "pwm", "leds", "completion"}
BY DEF InitFunction

(* Each driver's tables, the exit list and the undo list of every step. *)
LEMMA Sound_watchdog == TableSound("watchdog")
<1>1. InitFunction["watchdog"] = watchdog_probe /\ ExitFunction["watchdog"] = watchdog_remove
  BY DEF InitFunction, ExitFunction
<1> USE <1>1 DEF watchdog_probe, watchdog_remove, InitOf, Region, Resources
<1>2. TableTyped("watchdog") /\ Checked("watchdog") = {1, 2, 3, 4, 5}
  BY DEF TableTyped, Checked, Length
<1> USE DEF Acquired, Missable, Given, Distinct, Leftover, LeftAtExit, LeftByFailure, Astray
<1>3. ExitSound("watchdog")
  BY DEF ExitSound, Length
<1>4. NodeSound("watchdog")
  BY DEF NodeSound, Length, Needs, Revokes
<1>5. UndoSound("watchdog", 1)
  BY DEF UndoSound
<1>6. UndoSound("watchdog", 2)
  BY DEF UndoSound
<1>7. UndoSound("watchdog", 3)
  BY DEF UndoSound
<1>8. UndoSound("watchdog", 4)
  BY DEF UndoSound
<1>9. UndoSound("watchdog", 5)
  BY DEF UndoSound
<1> QED
  BY ONLY <1>2, <1>3, <1>4, <1>5, <1>6, <1>7, <1>8, <1>9 DEF TableSound

LEMMA Sound_rtc == TableSound("rtc")
<1>1. InitFunction["rtc"] = rtc_probe /\ ExitFunction["rtc"] = rtc_remove
  BY DEF InitFunction, ExitFunction
<1> USE <1>1 DEF rtc_probe, rtc_remove, InitOf, Region, Resources
<1>2. TableTyped("rtc") /\ Checked("rtc") = {1, 2, 3}
  BY DEF TableTyped, Checked, Length
<1> USE DEF Acquired, Missable, Given, Distinct, Leftover, LeftAtExit, LeftByFailure, Astray
<1>3. ExitSound("rtc")
  BY DEF ExitSound, Length
<1>4. NodeSound("rtc")
  BY DEF NodeSound, Length, Needs, Revokes
<1>5. UndoSound("rtc", 1)
  BY DEF UndoSound
<1>6. UndoSound("rtc", 2)
  BY DEF UndoSound
<1>7. UndoSound("rtc", 3)
  BY DEF UndoSound
<1> QED
  BY ONLY <1>2, <1>3, <1>4, <1>5, <1>6, <1>7 DEF TableSound

LEMMA Sound_adc == TableSound("adc")
<1>1. InitFunction["adc"] = adc_module_init /\ ExitFunction["adc"] = adc_module_exit
  BY DEF InitFunction, ExitFunction
<1> USE <1>1 DEF adc_module_init, adc_module_exit, InitOf, Region, Resources
<1>2. TableTyped("adc") /\ Checked("adc") = {1, 2, 3, 4}
  BY DEF TableTyped, Checked, Length
<1> USE DEF Acquired, Missable, Given, Distinct, Leftover, LeftAtExit, LeftByFailure, Astray
<1>3. ExitSound("adc")
  BY DEF ExitSound, Length
<1>4. NodeSound("adc")
  BY DEF NodeSound, Length, Needs, Revokes
<1>5. UndoSound("adc", 1)
  BY DEF UndoSound
<1>6. UndoSound("adc", 2)
  BY DEF UndoSound
<1>7. UndoSound("adc", 3)
  BY DEF UndoSound
<1>8. UndoSound("adc", 4)
  BY DEF UndoSound
<1> QED
  BY ONLY <1>2, <1>3, <1>4, <1>5, <1>6, <1>7, <1>8 DEF TableSound

LEMMA Sound_mmap == TableSound("mmap")
<1>1. InitFunction["mmap"] = dev_init /\ ExitFunction["mmap"] = dev_exit
  BY DEF InitFunction, ExitFunction
<1> USE <1>1 DEF dev_init, dev_exit, InitOf, Region, Resources
<1>2. TableTyped("mmap") /\ Checked("mmap") = {1, 2}
  BY DEF TableTyped, Checked, Length
<1> USE DEF Acquired, Missable, Given, Distinct, Leftover, LeftAtExit, LeftByFailure, Astray
<1>3. ExitSound("mmap")
  BY DEF ExitSound, Length
<1>4. NodeSound("mmap")
  BY DEF NodeSound, Length, Needs, Revokes
<1>5. UndoSound("mmap", 1)
  BY DEF UndoSound
<1>6. UndoSound("mmap", 2)
  BY DEF UndoSound
<1> QED
  BY ONLY <1>2, <1>3, <1>4, <1>5, <1>6 DEF TableSound

LEMMA Sound_echo == TableSound("echo")
<1>1. InitFunction["echo"] = echo_load /\ ExitFunction["echo"] = echo_unload
  BY DEF InitFunction, ExitFunction
<1> USE <1>1 DEF echo_load, echo_unload, InitOf, Region, Resources
<1>2. TableTyped("echo") /\ Checked("echo") = {1}
  BY DEF TableTyped, Checked, Length
<1> USE DEF Acquired, Missable, Given, Distinct, Leftover, LeftAtExit, LeftByFailure, Astray
<1>3. ExitSound("echo")
  BY DEF ExitSound, Length
<1>4. NodeSound("echo")
  BY DEF NodeSound, Length, Needs, Revokes
<1>5. UndoSound("echo", 1)
  BY DEF UndoSound
<1> QED
  BY ONLY <1>2, <1>3, <1>4, <1>5 DEF TableSound

LEMMA Sound_version == TableSound("version")
<1>1. InitFunction["version"] = version_dev_setup /\ ExitFunction["version"] = version_exit
  BY DEF InitFunction, ExitFunction
<1> USE <1>1 DEF version_dev_setup, version_exit, InitOf, Region, Resources
<1>2. TableTyped("version") /\ Checked("version") = {2, 3}
  BY DEF TableTyped, Checked, Length
<1> USE DEF Acquired, Missable, Given, Distinct, Leftover, LeftAtExit, LeftByFailure, Astray
<1>3. ExitSound("version")
  BY DEF ExitSound, Length
<1>4. NodeSound("version")
  BY DEF NodeSound, Length, Needs, Revokes
<1>5. UndoSound("version", 2)
  BY DEF UndoSound
<1>6. UndoSound("version", 3)
  BY DEF UndoSound
<1> QED
  BY ONLY <1>2, <1>3, <1>4, <1>5, <1>6 DEF TableSound

LEMMA Sound_scull == TableSound("scull")
<1>1. InitFunction["scull"] = scull_module_init /\ ExitFunction["scull"] = scull_module_exit
  BY DEF InitFunction, ExitFunction
<1> USE <1>1 DEF scull_module_init, scull_module_exit, InitOf, Region, Resources
<1>2. TableTyped("scull") /\ Checked("scull") = {}
  BY DEF TableTyped, Checked, Length
<1> USE DEF Acquired, Missable, Given, Distinct, Leftover, LeftAtExit, LeftByFailure, Astray
<1>3. ExitSound("scull")
  BY DEF ExitSound, Length
<1>4. NodeSound("scull")
  BY DEF NodeSound, Length, Needs, Revokes
<1> QED
  BY ONLY <1>2, <1>3, <1>4 DEF TableSound

LEMMA Sound_cp0 == TableSound("cp0")
<1>1. InitFunction["cp0"] = cp0_entry /\ ExitFunction["cp0"] = cp0_exit
  BY DEF InitFunction, ExitFunction
<1> USE <1>1 DEF cp0_entry, cp0_probe, cp0_exit, InitOf, Region, Resources
<1>2. TableTyped("cp0") /\ Checked("cp0") = {2}
  BY DEF TableTyped, Checked, Length
<1> USE DEF Acquired, Missable, Given, Distinct, Leftover, LeftAtExit, LeftByFailure, Astray
<1>3. ExitSound("cp0")
  BY DEF ExitSound, Length
<1>4. NodeSound("cp0")
  BY DEF NodeSound, Length, Needs, Revokes
<1>5. UndoSound("cp0", 2)
  BY DEF UndoSound
<1> QED
  BY ONLY <1>2, <1>3, <1>4, <1>5 DEF TableSound

(* The drivers that acquire in one step. *)
LEMMA Sound_simple ==
  ASSUME NEW d \in {"keys", "pwm", "leds", "completion"} PROVE TableSound(d)
<1>1. InitFunction[d] = RegisterOnly /\ ExitFunction[d] = DeregisterOnly
  BY DEF InitFunction, ExitFunction, buttons_module_init, buttons_module_exit, PWM_module_init,
     PWM_module_exit, s3c2440_leds_module_init, s3c2440_leds_module_exit, complete_init,
     complete_cleanup
<1> USE <1>1 DEF RegisterOnly, DeregisterOnly, InitOf, Resources
<1>2. TableTyped(d) /\ Checked(d) = {1}
  BY DEF TableTyped, Checked, Length
<1> USE DEF Acquired, Missable, Given, Distinct, Leftover, LeftAtExit, LeftByFailure, Astray
<1>3. ExitSound(d)
  BY DEF ExitSound, Length
<1>4. NodeSound(d)
  BY DEF NodeSound, Length, Needs, Revokes
<1>5. UndoSound(d, 1)
  BY DEF UndoSound
<1> QED BY ONLY <1>2, <1>3, <1>4, <1>5 DEF TableSound

(* Every init function undoes what it has done, and every exit function     *)
(* what its init function does, but for the leftovers that are named        *)
(* (watchdog_probe, rtc_probe, adc_module_init and the others).             *)
THEOREM TablesSound == \A d \in DOMAIN InitFunction : TableSound(d)
BY DriverNames, Sound_watchdog, Sound_rtc, Sound_adc, Sound_mmap, Sound_echo, Sound_version,
   Sound_scull, Sound_cp0, Sound_simple
-----------------------------------------------------------------------------
(* What is held and what is given back *)

(* What one step more acquires, before the first one, and over several. *)
LEMMA AcquiredStep ==
  ASSUME NEW d, NEW k \in Nat \ {0}
  PROVE  Acquired(d, k + 1) = Acquired(d, k) \cup InitFunction[d].acquire[k]
BY DEF Acquired

LEMMA AcquiredNone == ASSUME NEW d PROVE Acquired(d, 1) = {}
BY DEF Acquired

LEMMA AcquiredBy ==
  ASSUME NEW d, NEW k \in Nat, NEW n \in Nat, k <= n
  PROVE  Acquired(d, k) \subseteq Acquired(d, n)
BY DEF Acquired

(* One resource is given back: the others are still to be. *)
LEMMA GivenTail ==
  ASSUME NEW s \in Seq(Resources), s # <<>>, Distinct(s)
  PROVE  /\ Tail(s) \in Seq(Resources) /\ Distinct(Tail(s))
         /\ Head(s) \in Given(s) /\ Head(s) \in Resources
         /\ Given(Tail(s)) = Given(s) \ {Head(s)}
<1>1. /\ Len(s) \in Nat \ {0} /\ Head(s) = s[1] /\ Tail(s) \in Seq(Resources)
      /\ Len(Tail(s)) = Len(s) - 1 /\ \A i \in 1..(Len(s) - 1) : Tail(s)[i] = s[i + 1]
      /\ s[1] \in Resources
  BY EmptySeq, HeadTailProperties, ElementOfSeq
<1>2. Distinct(Tail(s))
  BY <1>1 DEF Distinct
<1>3. ASSUME NEW r \in Given(Tail(s)) PROVE r \in Given(s) \ {Head(s)}
  <2>1. PICK i \in 1..(Len(s) - 1) : r = s[i + 1]
    BY <1>1, <1>3 DEF Given
  <2>2. i + 1 \in 1..Len(s) /\ 1 \in 1..Len(s) /\ i + 1 # 1
    BY <1>1
  <2> QED BY <1>1, <2>1, <2>2 DEF Given, Distinct
<1>4. ASSUME NEW r \in Given(s) \ {Head(s)} PROVE r \in Given(Tail(s))
  <2>1. PICK i \in 1..Len(s) : r = s[i]
    BY <1>4 DEF Given
  <2>2. i - 1 \in 1..(Len(s) - 1) /\ Tail(s)[i - 1] = s[i]
    BY <1>1, <1>4, <2>1
  <2> QED BY <1>1, <2>1, <2>2 DEF Given
<1>5. Given(Tail(s)) = Given(s) \ {Head(s)}
  BY ONLY <1>3, <1>4
<1>6. Head(s) \in Given(s)
  BY <1>1 DEF Given
<1> QED BY <1>1, <1>2, <1>5, <1>6

(* Nothing is left to give back. *)
LEMMA GivenNone == Given(<<>>) = {}
BY DEF Given

(* GivesBackOwn in the terms of the tables. *)
LEMMA OwnStray == GivesBackOwn <=> stray \subseteq (IF failed THEN Astray(driver) ELSE {})
BY DEF GivesBackOwn, Astray

(* A failure excuses no less. *)
LEMMA LeftoverGrows == \A d : Leftover(d, FALSE) \subseteq Leftover(d, TRUE)
BY DEF Leftover

(* A step of a user, who moves nothing. *)
LEMMA BooksUser ==
  ASSUME BooksInv, UNCHANGED <<driver, phase, step, todo, held, stray, failed>>,
         going' \in BOOLEAN, user' \in BOOLEAN, unbound' \in BOOLEAN
  PROVE  BooksInv'
BY DEF BooksInv, TypeOK, WayIn, WayOut, UndoIsFailure, NothingLeftBehind, GivesBackOwn

(* Every step keeps the books. *)
LEMMA BooksStep == BooksInv /\ [Next]_vars => BooksInv'
<1> SUFFICES ASSUME BooksInv, [Next]_vars PROVE BooksInv'
  OBVIOUS
<1>1. driver \in DOMAIN InitFunction /\ TableSound(driver)
  BY DriversAssumption, TablesSound DEF BooksInv, TypeOK
<1>2. /\ D = InitFunction[driver] /\ Len(D.acquire) = Length(driver)
      /\ Length(driver) \in Nat \ {0}
  BY <1>1 DEF D, Length, TableSound, TableTyped
<1>3. CASE Load
  BY <1>2, <1>3, AcquiredNone DEF Load, BooksInv, TypeOK, Phases, WayIn, WayOut, UndoIsFailure,
     NothingLeftBehind, GivesBackOwn, Leftover
<1>4. CASE Acquire
  <2>1. /\ phase = "init" /\ step \in 1..Length(driver) /\ step' = step + 1
        /\ phase' = IF step = Length(driver) THEN "in" ELSE "init"
        /\ held' = held \cup InitFunction[driver].acquire[step]
        /\ UNCHANGED <<driver, todo, going, user, stray, failed, unbound>>
    BY <1>2, <1>4 DEF Acquire, BooksInv, TypeOK
  <2>2. /\ Acquired(driver, step + 1) =
             Acquired(driver, step) \cup InitFunction[driver].acquire[step]
        /\ InitFunction[driver].acquire[step] \subseteq Resources
    BY <1>1, <2>1, AcquiredStep DEF TableSound, TableTyped
  <2>3. TypeOK'
    BY <1>2, <2>1, <2>2 DEF BooksInv, TypeOK, Phases
  <2>4. WayIn'
    BY <2>1, <2>2 DEF BooksInv, WayIn
  <2> QED BY <2>1, <2>3, <2>4 DEF BooksInv, WayOut, UndoIsFailure, NothingLeftBehind, GivesBackOwn
<1>5. CASE Fail
  <2>1. /\ phase = "init" /\ step \in Checked(driver) /\ phase' = "undo" /\ failed' = TRUE
        /\ todo' = InitFunction[driver].undo[step]
        /\ UNCHANGED <<driver, step, held, going, user, stray, unbound>>
    BY <1>2, <1>5 DEF Fail, BooksInv, TypeOK, Checked
  <2>2. UndoSound(driver, step)
    BY <1>1, <2>1 DEF TableSound
  <2>3. TypeOK'
    BY <2>1, <2>2 DEF BooksInv, TypeOK, Phases, UndoSound
  <2>4. WayOut'
    BY <2>1, <2>2, LeftoverGrows DEF BooksInv, TypeOK, WayIn, WayOut, UndoSound
  <2>5. GivesBackOwn'
    BY <2>1, OwnStray DEF BooksInv, GivesBackOwn, Astray
  <2> QED BY <2>1, <2>3, <2>4, <2>5 DEF BooksInv, WayIn, UndoIsFailure, NothingLeftBehind
<1>6. CASE FailUnnoticed
  <2>1. /\ phase = "init" /\ step \in 1..Length(driver) /\ step \in InitFunction[driver].unchecked
        /\ step' = step + 1 /\ failed' = TRUE
        /\ phase' = IF step = Length(driver) THEN "in" ELSE "init"
        /\ UNCHANGED <<driver, todo, held, going, user, stray, unbound>>
    BY <1>2, <1>6 DEF FailUnnoticed, BooksInv, TypeOK
  <2>2. /\ Acquired(driver, step + 1) =
             Acquired(driver, step) \cup InitFunction[driver].acquire[step]
        /\ InitFunction[driver].acquire[step] \subseteq Missable(driver)
    BY <2>1, AcquiredStep DEF Missable
  <2>3. TypeOK'
    BY <1>2, <2>1 DEF BooksInv, TypeOK, Phases
  <2>4. WayIn'
    BY <2>1, <2>2, LeftoverGrows DEF BooksInv, TypeOK, WayIn
  <2>5. GivesBackOwn'
    BY <2>1, OwnStray DEF BooksInv, GivesBackOwn, Astray
  <2> QED BY <2>1, <2>3, <2>4, <2>5 DEF BooksInv, WayOut, UndoIsFailure, NothingLeftBehind
<1>7. CASE Unload
  <2>1. /\ phase = "in" /\ step = Length(driver) + 1 /\ phase' = "exit"
        /\ todo' = ExitFunction[driver]
        /\ UNCHANGED <<driver, step, held, user, stray, failed>>
        /\ going' \in BOOLEAN /\ unbound' \in BOOLEAN
    BY <1>7 DEF Unload, BooksInv, TypeOK
  <2>2. ExitSound(driver)
    BY <1>1 DEF TableSound
  <2>3. TypeOK'
    BY <2>1, <2>2 DEF BooksInv, TypeOK, Phases, ExitSound
  <2>4. WayOut'
    BY <2>1, <2>2 DEF BooksInv, TypeOK, WayIn, WayOut, ExitSound, Leftover
  <2> QED BY <2>1, <2>3, <2>4 DEF BooksInv, WayIn, UndoIsFailure, NothingLeftBehind, GivesBackOwn
<1>8. CASE GiveBack
  <2>1. /\ phase \in {"undo", "exit"} /\ todo # <<>> /\ todo' = Tail(todo)
        /\ held' = held \ {Head(todo)} /\ stray' = stray \cup ({Head(todo)} \ held)
        /\ UNCHANGED <<driver, phase, step, going, failed, unbound>> /\ user' \in BOOLEAN
    BY <1>8 DEF GiveBack, BooksInv, TypeOK
  <2>2. /\ Tail(todo) \in Seq(Resources) /\ Distinct(Tail(todo))
        /\ Head(todo) \in Given(todo) /\ Given(Tail(todo)) = Given(todo) \ {Head(todo)}
    BY <2>1, GivenTail DEF BooksInv, TypeOK, WayOut
  <2>3. TypeOK'
    BY <2>1, <2>2 DEF BooksInv, TypeOK
  <2>4. WayOut'
    BY <2>1, <2>2 DEF BooksInv, WayOut
  <2>5. GivesBackOwn'
    <3>1. stray' \subseteq (IF failed THEN Astray(driver) ELSE {})
      BY <2>1, <2>2, OwnStray DEF BooksInv, WayOut
    <3> QED BY <2>1, <3>1 DEF GivesBackOwn, Astray
  <2> QED BY <2>1, <2>3, <2>4, <2>5 DEF BooksInv, WayIn, UndoIsFailure, NothingLeftBehind
<1>9. CASE Finish
  <2>1. /\ phase \in {"undo", "exit"} /\ todo = <<>> /\ phase' = "out" /\ going' = FALSE
        /\ UNCHANGED <<driver, step, todo, held, user, stray, failed, unbound>>
    BY <1>9 DEF Finish
  <2>2. NothingLeftBehind'
    BY <2>1, GivenNone DEF BooksInv, WayOut, NothingLeftBehind, Leftover
  <2> QED BY <2>1, <2>2 DEF BooksInv, TypeOK, Phases, WayIn, WayOut, UndoIsFailure, GivesBackOwn
<1>10. CASE Open \/ Close \/ UNCHANGED vars
  <2>1. /\ UNCHANGED <<driver, phase, step, todo, held, stray, failed>>
        /\ going' \in BOOLEAN /\ user' \in BOOLEAN /\ unbound' \in BOOLEAN
    BY <1>10 DEF Open, Close, vars, BooksInv, TypeOK
  <2> QED BY <2>1, BooksUser
<1> QED BY <1>3, <1>4, <1>5, <1>6, <1>7, <1>8, <1>9, <1>10 DEF Next

(* The inductive invariant of what is held: on the way in what was          *)
(* acquired, on the way out what is still to be given back.                 *)
THEOREM BooksKept == Spec => []BooksInv
<1>1. Init => BooksInv
  <2> SUFFICES ASSUME Init PROVE BooksInv
    OBVIOUS
  <2>1. TypeOK
    BY EmptySeq DEF Init, TypeOK, Phases
  <2> QED BY <2>1 DEF Init, BooksInv, WayIn, WayOut, UndoIsFailure, NothingLeftBehind, GivesBackOwn
<1> QED BY <1>1, BooksStep, PTL DEF Spec

(* A driver that is out has given back what it acquired, whichever step of  *)
(* its init or probe failed, but for the leftovers that are named.          *)
THEOREM LeavesNothing == Spec => []NothingLeftBehind
<1>1. BooksInv => NothingLeftBehind
  BY DEF BooksInv
<1> QED BY <1>1, BooksKept, PTL

(* No error path and no exit gives back what is not held, or twice, but for *)
(* watchdog_probe's err_req and scull's cdev_del, after a failure.          *)
THEOREM GivesBackOnlyOwn == Spec => []GivesBackOwn
<1>1. BooksInv => GivesBackOwn
  BY DEF BooksInv
<1> QED BY <1>1, BooksKept, PTL
-----------------------------------------------------------------------------
(* The user *)

(* A driver that is in holds all that its handlers need. *)
LEMMA InHasNeeds == BooksInv /\ phase = "in" => Needs(driver) \subseteq held
<1> SUFFICES ASSUME BooksInv, phase = "in", Needs(driver) # {} PROVE Needs(driver) \subseteq held
  OBVIOUS
<1>1. TableSound(driver)
  BY DriversAssumption, TablesSound DEF BooksInv, TypeOK
<1>2. Missable(driver) = {} /\ Needs(driver) \subseteq Acquired(driver, Length(driver) + 1)
  BY <1>1 DEF TableSound, NodeSound
<1>3. Acquired(driver, Length(driver) + 1) \subseteq held
  BY <1>2 DEF BooksInv, TypeOK, WayIn
<1> QED BY <1>2, <1>3

(* During init there is no device to open, where it is registered last. *)
LEMMA InitClosed ==
  ASSUME BooksInv, TableSound(driver), phase = "init", Needs(driver) # {},
         driver \notin {"mmap", "echo"}
  PROVE  "node" \notin held
<1>1. "node" \notin Acquired(driver, Length(driver)) \cup Leftover(driver, TRUE)
  BY DEF TableSound, NodeSound
<1>2. Acquired(driver, step) \subseteq Acquired(driver, Length(driver))
  BY AcquiredBy DEF BooksInv, TypeOK, TableSound, TableTyped
<1>3. Leftover(driver, failed) \subseteq Leftover(driver, TRUE)
  BY LeftoverGrows DEF BooksInv, TypeOK
<1> QED BY <1>1, <1>2, <1>3 DEF BooksInv, WayIn

(* Every step keeps the user's side. *)
LEMMA UserStep == BooksInv /\ UserInv /\ [Next]_vars => UserInv'
<1> SUFFICES ASSUME BooksInv, UserInv, [Next]_vars PROVE UserInv'
  OBVIOUS
<1>1. TypeOK /\ TableSound(driver) /\ BooksInv'
  BY BooksStep, DriversAssumption, TablesSound DEF BooksInv, TypeOK
<1>2. /\ UserPhase /\ ExitClosed /\ UndoClosed /\ UserFindsResources
      /\ phase \in Phases /\ failed \in BOOLEAN /\ unbound \in BOOLEAN
      /\ going \in BOOLEAN /\ user \in BOOLEAN
  BY <1>1 DEF UserInv, TypeOK
<1> USE <1>2 DEF UserInv, UserPhase, ExitClosed, UndoClosed, UserFindsResources, Excused, Phases
<1>3. CASE Load
  BY <1>3 DEF Load
<1>4. CASE Acquire \/ FailUnnoticed
  <2>1. /\ phase = "init" /\ phase' \in {"init", "in"} /\ driver' = driver /\ user' = user
        /\ held \subseteq held' /\ (failed => failed') /\ unbound' = unbound
    BY <1>4 DEF Acquire, FailUnnoticed
  <2>2. (BooksInv /\ phase = "in" => Needs(driver) \subseteq held)'
    BY InHasNeeds, PTL
  <2>3. phase' = "in" => Needs(driver) \subseteq held'
    BY <1>1, <2>1, <2>2
  <2> QED BY <2>1, <2>3
<1>5. CASE Fail
  BY <1>1, <1>5, InitClosed DEF Fail
<1>6. CASE Unload
  BY <1>6, InHasNeeds DEF Unload, Platform, Revokes
<1>7. CASE GiveBack
  <2>1. /\ phase \in {"undo", "exit"} /\ held' = held \ {Head(todo)}
        /\ user' = (user /\ ~(driver \in Revokes /\ Head(todo) = "node"))
        /\ todo # <<>> /\ UNCHANGED <<driver, phase, step, going, failed, unbound>>
    BY <1>7 DEF GiveBack
  <2>2. driver \in Revokes => Head(ExitFunction[driver]) = "node"
    BY <1>1 DEF TableSound, NodeSound
  <2>3. ExitClosed' /\ UndoClosed'
    BY <2>1, <2>2
  <2>4. ASSUME user', Needs(driver) # {} PROVE Excused'
    BY <2>1, <2>2, <2>4
  <2> QED BY <2>1, <2>3, <2>4
<1>8. CASE Finish
  <2>1. driver \in Revokes => ExitFunction[driver] # <<>>
    BY <1>1 DEF TableSound, NodeSound
  <2> QED BY <1>8, <2>1 DEF Finish
<1>9. CASE Open
  <2>1. /\ "node" \in held /\ ~going /\ phase # "out" /\ user'
        /\ UNCHANGED <<driver, phase, step, todo, held, going, stray, failed, unbound>>
    BY <1>9 DEF Open
  <2>2. phase = "in" => Needs(driver) \subseteq held
    BY InHasNeeds
  <2>3. Needs(driver) # {} /\ ~Excused => phase \notin {"init", "undo"}
    BY <1>1, <2>1, InitClosed DEF BooksInv, UndoIsFailure
  <2>4. ASSUME phase = "exit", ~Excused
        PROVE  /\ driver \in Revokes /\ todo = ExitFunction[driver]
               /\ Needs(driver) \subseteq held
    <3>1. driver \in Platform /\ unbound
      BY <2>1, <2>4
    <3>2. driver = "rtc"
      BY <2>4, <3>1 DEF Platform
    <3>3. driver \in Revokes
      BY <3>2 DEF Revokes
    <3> QED BY <2>1, <2>4, <3>3
  <2> QED BY <2>1, <2>2, <2>3, <2>4
<1>10. CASE Close \/ UNCHANGED vars
  BY <1>10 DEF Close, vars
<1> QED BY <1>3, <1>4, <1>5, <1>6, <1>7, <1>8, <1>9, <1>10 DEF Next

(* Whoever has a device open finds what its handlers work on, however init  *)
(* and exit interleave with opens, closes, failures and unbinds; the        *)
(* exceptions are mmap and echo while they load or after a failure, and the *)
(* watchdog once it is unbound.                                             *)
THEOREM UserIsServed == Spec => []UserFindsResources
<1>1. Init => UserInv
  BY DEF Init, UserInv, UserPhase, ExitClosed, UndoClosed, UserFindsResources
<1>2. BooksInv /\ UserInv /\ [Next]_vars => UserInv'
  BY UserStep
<1>3. UserInv => UserFindsResources
  BY DEF UserInv
<1> QED BY <1>1, <1>2, <1>3, BooksKept, PTL DEF Spec
=============================================================================
