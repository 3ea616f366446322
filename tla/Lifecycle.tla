----------------------------- MODULE Lifecycle ------------------------------
(***************************************************************************)
(* How the drivers come and go: every init, probe, loader, remove and exit *)
(* function of the repository as a table of what it acquires, what it      *)
(* gives back when a step fails, and what it gives back at the end, and    *)
(* one machine that runs a driver through its table while a user opens and *)
(* closes its device.  The tables are the code; the machine is the kernel  *)
(* that runs it.                                                           *)
(***************************************************************************)
EXTENDS Naturals, Sequences

CONSTANT Drivers    \* the drivers whose life is explored

(* An init function: what each step acquires, and what a failure of that    *)
(* step gives back, in the code's order.  unchecked: steps whose failure    *)
(* the code does not notice;  sure: steps that cannot fail.                 *)
InitOf(acquire, undo) ==
  [acquire |-> acquire, undo |-> undo, unchecked |-> {}, sure |-> {}]

(* request_mem_region takes the region and allocates the struct resource.   *)
Region == {"region", "resource"}

watchdog_probe_no_err_irq ==
  InitOf(<<Region, {"map"}, {"irq"}, {"clk"}, {"node"}>>,
         << <<"region", "resource">>, <<"region", "resource">>,
            <<"map", "region", "resource">>, <<"map", "region", "resource">>,
            <<"clk", "irq", "map", "region", "resource">> >>)
(* The labels err_clk, err_irq, err_map and err_req fall through. *)
watchdog_probe ==
  InitOf(<<Region, {"map"}, {"irq"}, {"clk"}, {"node"}>>,
         << <<"region", "resource">>, <<"region", "resource">>,
            <<"map", "region", "resource">>, <<"irq", "map", "region", "resource">>,
            <<"clk", "irq", "map", "region", "resource">> >>)
watchdog_remove == <<"region", "resource", "irq", "clk", "map", "node">>

rtc_probe ==
  InitOf(<<Region, {"map", "enable"}, {"node"}>>,
         << <<>>, <<"region">>, <<"enable", "map", "region">> >>)
rtc_remove_unmap_first == <<"map", "node", "region", "resource">>
rtc_remove == <<"node", "map", "region", "resource">>

adc_module_init ==
  InitOf(<<{"map"}, {"clk"}, {"irq"}, {"node"}>>, << <<>>, <<>>, <<"map">>, <<>> >>)
adc_module_exit_unmap_twice == <<"irq", "map", "clk", "map", "node">>
adc_module_exit == <<"irq", "map", "clk", "node">>

(* mmap_test.c *)
dev_init == InitOf(<<{"node"}, {"buffer", "reserved"}>>, << <<>>, <<>> >>)
dev_exit == <<"node", "reserved", "buffer">>

(* malloc with M_WAITOK does not fail. *)
echo_load   == [InitOf(<<{"node"}, {"buffer"}>>, << <<>>, <<>> >>) EXCEPT !.sure = {2}]
echo_unload == <<"node", "buffer">>

(* device_register takes a reference even when it fails; device_del also    *)
(* removes the attribute file.                                              *)
version_dev_setup ==
  [InitOf(<<{"ref"}, {"node"}, {"attr"}>>, << <<>>, <<"ref">>, <<"node">> >>)
     EXCEPT !.sure = {1}]
version_exit == <<"node", "attr">>

(* One cdev is added under four numbers; cdev_del knows the last of them. *)
scull_module_init ==
  [InitOf(<<{"numbers"}, {"cdev0"}, {"cdev1"}, {"cdev2"}, {"node"}>>, <<>>)
     EXCEPT !.unchecked = 1..5]
scull_module_exit == <<"node">>

(* The registration of the driver probes the device, which adds an          *)
(* attribute; a probe that fails does not make the registration fail.       *)
cp0_probe == {"node"}
cp0_entry == [InitOf(<<{"device"}, {"driver"}, cp0_probe>>, << <<>>, <<>> >>)
                EXCEPT !.unchecked = {1, 3}]
cp0_exit == <<>>

(* Drivers that only register their device. *)
RegisterOnly   == InitOf(<<{"node"}>>, << <<>> >>)
DeregisterOnly == <<"node">>

buttons_module_init      == RegisterOnly
buttons_module_exit      == DeregisterOnly
PWM_module_init          == RegisterOnly
PWM_module_exit          == DeregisterOnly
s3c2440_leds_module_init == RegisterOnly
s3c2440_leds_module_exit == DeregisterOnly
complete_init            == RegisterOnly
complete_cleanup         == DeregisterOnly

InitFunction ==
  [watchdog |-> watchdog_probe, rtc |-> rtc_probe, adc |-> adc_module_init,
   mmap |-> dev_init, echo |-> echo_load, version |-> version_dev_setup,
   scull |-> scull_module_init, cp0 |-> cp0_entry, keys |-> buttons_module_init,
   pwm |-> PWM_module_init, leds |-> s3c2440_leds_module_init,
   completion |-> complete_init]

ExitFunction ==
  [watchdog |-> watchdog_remove, rtc |-> rtc_remove, adc |-> adc_module_exit,
   mmap |-> dev_exit, echo |-> echo_unload, version |-> version_exit,
   scull |-> scull_module_exit, cp0 |-> cp0_exit, keys |-> buttons_module_exit,
   pwm |-> PWM_module_exit, leds |-> s3c2440_leds_module_exit,
   completion |-> complete_cleanup]

(* What the handlers of an open device work on. *)
Needs(d) == CASE d = "watchdog"        -> {"map", "irq", "clk"}
              [] d = "rtc"             -> {"map", "enable"}
              [] d = "adc"             -> {"map", "irq", "clk"}
              [] d \in {"mmap", "echo"} -> {"buffer"}
              [] OTHER                 -> {}

(* Drivers of a platform device, which sysfs unbinds while the module stays *)
(* and even while the device is open.                                       *)
Platform == {"watchdog", "rtc"}

(* rtc_device_unregister leaves an open file without operations; FreeBSD's  *)
(* destroy_dev waits for calls in the driver and closes what is open.       *)
Revokes == {"rtc", "echo"}

ASSUME DriversAssumption == Drivers \subseteq DOMAIN InitFunction
-----------------------------------------------------------------------------
VARIABLES
  driver,   \* the driver at hand
  phase,    \* "out", "init", "undo", "in" or "exit"
  step,     \* the step of acquire that is next
  todo,     \* what is still to be given back
  held,     \* what the driver has acquired and not given back
  going,    \* the module is being unloaded: the kernel admits no open
  user,     \* somebody has the device open
  stray,    \* history: given back without being held
  failed,   \* history: an init has failed since the machine came up
  unbound   \* history: the device was unbound since

vars == <<driver, phase, step, todo, held, going, user, stray, failed, unbound>>

D == InitFunction[driver]

Init ==
  /\ driver \in Drivers
  /\ phase = "out" /\ step = 1 /\ todo = <<>> /\ held = {}
  /\ going = FALSE /\ user = FALSE /\ stray = {} /\ failed = FALSE /\ unbound = FALSE

Load ==
  /\ phase = "out" /\ phase' = "init" /\ step' = 1
  /\ UNCHANGED <<driver, todo, held, going, user, stray, failed, unbound>>

(* The next step succeeds; after the last the driver is in.  A name that an *)
(* earlier life of the driver has left registered is refused.               *)
Acquire ==
  /\ phase = "init"
  /\ "node" \notin D.acquire[step] \cap held
  /\ held' = held \cup D.acquire[step]
  /\ step' = step + 1
  /\ phase' = IF step = Len(D.acquire) THEN "in" ELSE "init"
  /\ UNCHANGED <<driver, todo, going, user, stray, failed, unbound>>

(* The next step fails: the init function undoes what it undoes. *)
Fail ==
  /\ phase = "init" /\ step \notin D.sure \cup D.unchecked
  /\ phase' = "undo" /\ todo' = D.undo[step] /\ failed' = TRUE
  /\ UNCHANGED <<driver, step, held, going, user, stray, unbound>>

(* It fails and the init function goes on. *)
FailUnnoticed ==
  /\ phase = "init" /\ step \in D.unchecked
  /\ step' = step + 1 /\ failed' = TRUE
  /\ phase' = IF step = Len(D.acquire) THEN "in" ELSE "init"
  /\ UNCHANGED <<driver, todo, held, going, user, stray, unbound>>

(* rmmod, which the kernel refuses while a Linux device is open, or an      *)
(* unbind through sysfs, which it does not.                                 *)
Unload ==
  /\ phase = "in"
  /\ phase' = "exit" /\ todo' = ExitFunction[driver]
  /\ \/ (user => driver = "echo") /\ going' = TRUE /\ UNCHANGED unbound
     \/ driver \in Platform /\ unbound' = TRUE /\ UNCHANGED going
  /\ UNCHANGED <<driver, step, held, user, stray, failed>>

GiveBack ==
  /\ phase \in {"undo", "exit"} /\ todo # <<>>
  /\ LET r == Head(todo)
     IN  /\ held' = held \ {r}
         /\ stray' = stray \cup ({r} \ held)
         /\ user' = (user /\ ~(driver \in Revokes /\ r = "node"))
  /\ todo' = Tail(todo)
  /\ UNCHANGED <<driver, phase, step, going, failed, unbound>>

Finish ==
  /\ phase \in {"undo", "exit"} /\ todo = <<>>
  /\ phase' = "out" /\ going' = FALSE
  /\ UNCHANGED <<driver, step, todo, held, user, stray, failed, unbound>>

(* A user opens the device as soon as it is there, and closes it. *)
Open ==
  /\ "node" \in held /\ ~user /\ ~going /\ phase # "out"
  /\ user' = TRUE
  /\ UNCHANGED <<driver, phase, step, todo, held, going, stray, failed, unbound>>

Close ==
  /\ user /\ user' = FALSE
  /\ UNCHANGED <<driver, phase, step, todo, held, going, stray, failed, unbound>>

Next == \/ Load \/ Acquire \/ Fail \/ FailUnnoticed \/ Unload \/ GiveBack \/ Finish
        \/ Open \/ Close

Spec == Init /\ [][Next]_vars
-----------------------------------------------------------------------------
(* Properties *)

(* What the code of each driver leaves behind at its end, and after an init *)
(* that failed on the way.                                                  *)
LeftAtExit(d) ==
  CASE d = "rtc"     -> {"enable"}
    [] d = "version" -> {"ref"}
    [] d = "scull"   -> {"numbers", "cdev0", "cdev1", "cdev2"}
    [] d = "cp0"     -> {"device", "driver", "node"}
    [] OTHER         -> {}
LeftByFailure(d) ==
  CASE d = "rtc"  -> {"resource"}
    [] d = "adc"  -> {"map", "clk", "irq"}
    [] d = "mmap" -> {"node"}
    [] OTHER      -> {}

(* A driver that is out has given back everything it acquired, however far  *)
(* its init got and whichever step failed, but for the leftovers above: the *)
(* err_ labels of the probes undo what was done, no less.                   *)
NothingLeftBehind ==
  phase = "out" =>
    held \subseteq LeftAtExit(driver) \cup (IF failed THEN LeftByFailure(driver) ELSE {})

(* Nothing is given back that is not held, or twice.  Two exceptions: the   *)
(* watchdog's err_req after a refused region, and scull's cdev_del after a  *)
(* cdev_add that failed unnoticed.                                          *)
GivesBackOwn ==
  stray \subseteq IF ~failed THEN {}
                 ELSE CASE driver = "watchdog" -> Region
                        [] driver = "scull"    -> {"node"}
                        [] OTHER               -> {}

(* Whoever has a device open finds what its handlers work on.  Three        *)
(* exceptions: mmap and echo register before they allocate, and the         *)
(* watchdog, unbound, gives everything back while its device is open.       *)
UserFindsResources ==
  user => \/ Needs(driver) \subseteq held
          \/ driver \in {"mmap", "echo"} /\ (phase = "init" \/ failed)
          \/ driver = "watchdog" /\ unbound
=============================================================================
