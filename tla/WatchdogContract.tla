-------------------------- MODULE WatchdogContract --------------------------
(***************************************************************************)
(* What /dev/watchdog promises.  Taking the device starts the watchdog; a  *)
(* write gives or takes back the magic word; letting the device go stops   *)
(* the watchdog if the word stands and leaves it running otherwise, until  *)
(* the device is taken again, the driver is bound afresh or the machine    *)
(* restarts.  Under nowayout the word is never given, and once the device  *)
(* has been taken only a restart takes the driver out.  Implemented by     *)
(* Watchdog.                                                               *)
(***************************************************************************)
VARIABLES
  nowayout,  \* TRUE: once started, never stopped by its user
  locked,    \* the driver can no longer be unloaded
  driver,    \* "out", "unbound", "binding", "in", or "down" with the machine
  held,      \* some opener holds the device
  running,   \* the watchdog is counting
  magic      \* the holder's latest write asked for the watchdog to stop

vars == <<nowayout, locked, driver, held, running, magic>>

Init == /\ nowayout \in BOOLEAN /\ running \in BOOLEAN /\ driver = "out"
        /\ locked = FALSE /\ held = FALSE /\ magic = FALSE

Take == /\ driver = "in" /\ ~held
        /\ held' = TRUE /\ running' = TRUE /\ magic' = FALSE
        /\ locked' = (locked \/ nowayout)
        /\ UNCHANGED <<nowayout, driver>>

Write == /\ driver = "in" /\ held
         /\ magic' \in BOOLEAN /\ ~(nowayout /\ magic')
         /\ UNCHANGED <<nowayout, locked, driver, held, running>>

LetGo == /\ driver = "in" /\ held
         /\ held' = FALSE /\ magic' = FALSE
         /\ running' = (running /\ ~magic)
         /\ UNCHANGED <<nowayout, locked, driver>>

(* Nobody may have the device while its driver is bound, or fails to be. *)
BeginBind == /\ driver \in {"out", "unbound"} /\ ~held
             /\ driver' \in {"binding", "unbound"}
             /\ UNCHANGED <<nowayout, locked, held, running, magic>>

(* Binding may start the watchdog, or stop one that was left running. *)
EndBind == /\ driver = "binding" /\ driver' = "in"
           /\ running' \in BOOLEAN
           /\ UNCHANGED <<nowayout, locked, held, magic>>

Unbind == /\ driver = "in" /\ driver' = "unbound"
          /\ UNCHANGED <<nowayout, locked, held, running, magic>>

Unload == /\ driver \in {"in", "unbound"} /\ ~held /\ ~locked /\ driver' = "out"
          /\ UNCHANGED <<nowayout, locked, held, running, magic>>

(* The machine goes down, with the device held or not ... *)
GoDown == /\ driver # "down" /\ driver' = "down"
          /\ running' \in BOOLEAN /\ (running' => running)
          /\ UNCHANGED <<nowayout, locked, held, magic>>

(* ... and comes up again with a watchdog in either state. *)
ComeUp == /\ driver = "down" /\ driver' = "out"
          /\ held' = FALSE /\ magic' = FALSE /\ locked' = FALSE
          /\ running' \in BOOLEAN
          /\ UNCHANGED nowayout

Next == \/ Take \/ Write \/ LetGo
        \/ BeginBind \/ EndBind \/ Unbind \/ Unload \/ GoDown \/ ComeUp

Spec == Init /\ [][Next]_vars
=============================================================================
