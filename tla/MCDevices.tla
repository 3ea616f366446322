----------------------------- MODULE MCDevices ------------------------------
(***************************************************************************)
(* Small parts that share nothing: the echo, completion and buzzer devices *)
(* with their programs, ioremap, and the threads of the RTC's unit test.   *)
(* Each behaviour exercises one of them while the others rest, so that one *)
(* run explores the sum of their states, not the product.                  *)
(***************************************************************************)
EXTENDS Echo, Completion, Pwm, Ioremap, RtcTest

VARIABLE device    \* the part that is exercised

vars == <<device, echoVars, completionVars, pwmVars, ioremapVars, testVars>>

EchoMessages == {<<1>>, <<2, 3>>, <<1, 1, 1>>}

Init ==
  /\ device \in {"echo", "completion", "pwm", "ioremap", "rtc test"}
  /\ EchoInit /\ PwmInit /\ TestInit
  /\ CompletionInit /\ (device # "completion" => count = CHOOSE n \in Counts : TRUE)
  /\ IoremapInit /\ (device # "ioremap" => reserved = {})

Next ==
  /\ UNCHANGED device
  /\ \/ /\ device = "echo" /\ EchoNext
        /\ UNCHANGED <<completionVars, pwmVars, ioremapVars, testVars>>
     \/ /\ device = "completion" /\ CompletionNext
        /\ UNCHANGED <<echoVars, pwmVars, ioremapVars, testVars>>
     \/ /\ device = "pwm" /\ PwmNext
        /\ UNCHANGED <<echoVars, completionVars, ioremapVars, testVars>>
     \/ /\ device = "ioremap" /\ IoremapNext
        /\ UNCHANGED <<echoVars, completionVars, pwmVars, testVars>>
     \/ /\ device = "rtc test" /\ TestNext
        /\ UNCHANGED <<echoVars, completionVars, pwmVars, ioremapVars>>

Spec == Init /\ [][Next]_vars

(* A process or thread that can run is run; nobody need press a key, start  *)
(* a program, or open /dev/rtc beside the unit test.                        *)
FairSpec ==
  /\ Spec
  /\ \A r \in Runs : WF_completionVars(device = "completion" /\ RunStep(r))
  /\ \A p \in Programs : WF_pwmVars(device = "pwm" /\ ProgramStep(p))
  /\ WF_testVars(device = "rtc test" /\ CreateThread)
  /\ WF_testVars(device = "rtc test" /\ JoinThread)
  /\ \A t \in Threads : WF_testVars(device = "rtc test" /\ Thread(t))
=============================================================================
