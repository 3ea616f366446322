-------------------------------- MODULE Pwm ---------------------------------
(***************************************************************************)
(* The buzzer: the PWM driver, pwm/driver/pwm.c, and programs that run     *)
(* pwm/app/unit-test.c on one terminal.  The driver admits one file at a   *)
(* time; the program sets a frequency, waits for a key with the terminal   *)
(* in raw mode, and stops the buzzer on its way out.  An ioctl runs under  *)
(* the big kernel lock, so it is one step.  A signal may end a program at  *)
(* any point, and the kernel then closes its file.                         *)
(***************************************************************************)
EXTENDS Integers

CONSTANTS
  Programs,   \* processes that run the unit test
  Pclk16,     \* pclk / 50 / 16: the rate of the timer's clock
  CountMax,   \* 65535: what TCNTB0 holds
  StartFreq, Step, FreqLow, FreqHigh   \* 1000, 10, 11 and 20000 in the source

ASSUME PwmAssumption ==
  /\ Pclk16 \in Nat /\ CountMax \in Nat /\ Step \in Nat /\ StartFreq \in Nat \ {0}
  /\ FreqHigh \in Nat /\ FreqLow \in Nat /\ FreqLow >= Step

VARIABLES
  lock,      \* the driver's semaphore
  pin,       \* GPB0: "tout0" or "output"
  tcntb, tcmpb,   \* TCNTB0 and TCMPB0
  timer,     \* TCON: timer 0 started with auto-reload
  tty,       \* the terminal: "cooked" or "raw"
  pwmpc,     \* where each program is
  fd,        \* does each program have the device open, or is its file being released?
  freq,      \* its local freq
  oldt,      \* its copy of the terminal setting
  tone,      \* history: the frequency last set since the file was opened
  hurt       \* history: a program ended inside getkey

driverVars == <<lock, pin, tcntb, tcmpb, timer, tone>>
pwmVars    == <<driverVars, tty, pwmpc, fd, freq, oldt, hurt>>

PwmInit ==
  /\ lock = 1 /\ pin = "output" /\ tcntb = 0 /\ tcmpb = 0 /\ timer = FALSE
  /\ tty = "cooked"
  /\ pwmpc = [p \in Programs |-> "out"]
  /\ fd = [p \in Programs |-> FALSE]
  /\ freq = [p \in Programs |-> StartFreq]
  /\ oldt = [p \in Programs |-> "cooked"]
  /\ tone = 0 /\ hurt = FALSE

Jump(p, from, to) == pwmpc[p] = from /\ pwmpc' = [pwmpc EXCEPT ![p] = to]
-----------------------------------------------------------------------------
(* The driver *)

PWM_set_freq(f) ==
  /\ pin' = "tout0"
  /\ tcntb' = Pclk16 \div f /\ tcmpb' = tcntb' \div 2
  /\ timer' = TRUE /\ tone' = f
  /\ UNCHANGED lock

(* The pin is taken from the timer, which runs on unheard. *)
PWM_stop == pin' = "output" /\ UNCHANGED <<tcntb, tcmpb, timer>>

(* 0 is refused, with nothing changed. *)
PWM_ioctl(cmd, arg) ==
  CASE cmd = "SET_FREQ" /\ arg # 0 -> PWM_set_freq(arg)
    [] cmd = "STOP"                -> PWM_stop /\ UNCHANGED <<lock, tone>>
    [] OTHER                       -> UNCHANGED driverVars

PWM_open_shared == lock' = 0
PWM_open == lock = 1 /\ lock' = 0

(* The release of the file, in two steps: PWM_stop, then up(&lock). *)
PWM_close_up_first(stopped) ==
  /\ IF stopped THEN PWM_stop /\ UNCHANGED lock
                ELSE lock' = 1 /\ UNCHANGED <<pin, tcntb, tcmpb, timer>>
  /\ UNCHANGED tone
PWM_close(stopped) ==
  IF stopped THEN lock' = 1 /\ tone' = 0 /\ UNCHANGED <<pin, tcntb, tcmpb, timer>>
             ELSE PWM_stop /\ UNCHANGED <<lock, tone>>
-----------------------------------------------------------------------------
(* The program *)

(* main up to its loop: open, or exit(5) if the device is busy. *)
buzzer_open(p) ==
  /\ \/ /\ PWM_open /\ Jump(p, "out", "set")
        /\ fd' = [fd EXCEPT ![p] = TRUE]
        /\ freq' = [freq EXCEPT ![p] = StartFreq]
     \/ lock = 0 /\ Jump(p, "out", "out") /\ UNCHANGED <<lock, fd, freq>>
  /\ UNCHANGED <<pin, tcntb, tcmpb, timer, tone, tty, oldt, hurt>>

(* Where the ioctl is refused the program exits. *)
buzzer_set_freq(p) ==
  /\ Jump(p, "set", IF freq[p] = 0 THEN "exit" ELSE "save")
  /\ PWM_ioctl("SET_FREQ", freq[p])
  /\ UNCHANGED <<tty, fd, freq, oldt, hurt>>

(* getkey: tcgetattr; tcsetattr; getchar; tcsetattr.  Each of the terminal  *)
(* calls may fail, and the program exits there.                             *)
getkey_save(p) ==
  /\ Jump(p, "save", "raw") \/ Jump(p, "save", "exit")
  /\ oldt' = [oldt EXCEPT ![p] = tty]
  /\ UNCHANGED <<driverVars, tty, fd, freq, hurt>>

getkey_raw(p) ==
  /\ \/ Jump(p, "raw", "key") /\ tty' = "raw"
     \/ Jump(p, "raw", "exit") /\ UNCHANGED tty
  /\ UNCHANGED <<driverVars, fd, freq, oldt, hurt>>

(* A key: + or - within the limits, ESC or end of file, or any other. *)
FreqUp(f)   == IF f < FreqHigh THEN f + Step ELSE f
FreqDown(f) == IF f > FreqLow THEN f - Step ELSE f

getchar(p) ==
  /\ \/ /\ Jump(p, "key", "restore")
        /\ \E f \in {freq[p], FreqUp(freq[p]), FreqDown(freq[p])} :
             freq' = [freq EXCEPT ![p] = f]
     \/ Jump(p, "key", "restorelast") /\ UNCHANGED freq
  /\ UNCHANGED <<driverVars, tty, fd, oldt, hurt>>

getkey_restore(p) ==
  /\ \/ (Jump(p, "restore", "set") \/ Jump(p, "restorelast", "stop"))
        /\ tty' = oldt[p] /\ UNCHANGED hurt
     \/ (Jump(p, "restore", "exit") \/ Jump(p, "restorelast", "exit"))
        /\ hurt' = TRUE /\ UNCHANGED tty
  /\ UNCHANGED <<driverVars, fd, freq, oldt>>

buzzer_stop_no_return(p) ==
  /\ Jump(p, "stop", "set") /\ PWM_ioctl("STOP", 0)
  /\ UNCHANGED <<tty, fd, freq, oldt, hurt>>

buzzer_stop(p) ==
  /\ Jump(p, "stop", "exit") /\ PWM_ioctl("STOP", 0)
  /\ UNCHANGED <<tty, fd, freq, oldt, hurt>>

(* atexit: buzzer_close stops the buzzer and closes the file, whose release *)
(* frees the semaphore once the buzzer is stopped.                          *)
buzzer_close(p) ==
  /\ \/ Jump(p, "exit", "close") /\ PWM_ioctl("STOP", 0)
     \/ Jump(p, "close", "up") /\ PWM_close(FALSE)
  /\ UNCHANGED <<tty, fd, freq, oldt, hurt>>

released(p) ==
  /\ Jump(p, "up", "out") /\ PWM_close(TRUE)
  /\ fd' = [fd EXCEPT ![p] = FALSE]
  /\ UNCHANGED <<tty, freq, oldt, hurt>>

(* A signal ends the program; no atexit function runs, but the kernel       *)
(* closes its file.                                                         *)
Kill(p) ==
  /\ pwmpc[p] \notin {"out", "up"} /\ pwmpc' = [pwmpc EXCEPT ![p] = "up"]
  /\ PWM_close(FALSE)
  /\ hurt' = (hurt \/ pwmpc[p] \in {"key", "restore", "restorelast"})
  /\ UNCHANGED <<tty, fd, freq, oldt>>

ProgramStep(p) == \/ buzzer_set_freq(p) \/ getkey_save(p) \/ getkey_raw(p)
                  \/ getkey_restore(p) \/ buzzer_stop(p) \/ buzzer_close(p)
                  \/ released(p)

PwmNext == \E p \in Programs : buzzer_open(p) \/ ProgramStep(p) \/ getchar(p) \/ Kill(p)

PwmSpec == PwmInit /\ [][PwmNext]_pwmVars
-----------------------------------------------------------------------------
(* Properties *)

Sounding == pin = "tout0" /\ timer

(* The buzzer sounds only for the one program that has it open, at the      *)
(* frequency that program asked for, with a count that the timer holds, and *)
(* never after that program has ended, by ESC, by a failure or by a signal. *)
SoundsForHolder ==
  Sounding => /\ \E p \in Programs : fd[p] /\ \A q \in Programs \ {p} : ~fd[q]
              /\ tone > 0 /\ tcntb = Pclk16 \div tone
              /\ tcntb \in 1..CountMax /\ tcmpb < tcntb

(* When no program is waiting for a key the terminal is as it was, unless a *)
(* program ended inside getkey: the device's lock also keeps two programs   *)
(* from saving each other's raw mode.                                       *)
TerminalRestored ==
  (\A p \in Programs : pwmpc[p] \notin {"key", "restore", "restorelast"}) /\ ~hurt =>
    tty = "cooked"

(* After ESC or end of file the program ends, its file is released, and     *)
(* what sounds then is another program's.                                   *)
EscEnds ==
  \A p \in Programs :
    pwmpc[p] = "restorelast" ~>
      /\ pwmpc[p] = "out" /\ ~fd[p]
      /\ Sounding => \E q \in Programs \ {p} : fd[q]
=============================================================================
