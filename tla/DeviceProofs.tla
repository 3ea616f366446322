---------------------------- MODULE DeviceProofs ----------------------------
(***************************************************************************)
(* Proofs about four of the small devices, each for every value of its     *)
(* constants: the buzzer, the completion device, ioremap and echo.         *)
(***************************************************************************)
EXTENDS Echo, Completion, Pwm, Ioremap, SequenceTheorems, TLAPS

-----------------------------------------------------------------------------
(* The buzzer *)

(* The frequencies that + and - can reach. *)
Lowest  == FreqLow + 1 - Step
Highest == FreqHigh + Step - 1

(* The timer can count every one of them.  With the limits of the source    *)
(* they are 2 .. 20009, and from a clock of 50 MHz that makes counts of     *)
(* 62500 \div 2 down to 62500 \div 20009, which fit 16 bits and are not 0.  *)
PitchFits ==
  /\ StartFreq \in Lowest..Highest
  /\ \A f \in Lowest..Highest : Pclk16 \div f \in 1..CountMax

InGetkey == {"key", "restore", "restorelast"}
PwmPlaces == {"out", "set", "save", "raw", "stop", "exit", "close", "up"} \cup InGetkey

PwmTypeOK ==
  /\ lock \in {0, 1} /\ pin \in {"tout0", "output"} /\ timer \in BOOLEAN
  /\ tty \in {"cooked", "raw"} /\ hurt \in BOOLEAN
  /\ pwmpc \in [Programs -> PwmPlaces] /\ fd \in [Programs -> BOOLEAN]
  /\ freq \in [Programs -> Nat \ {0}]
  /\ oldt \in [Programs -> {"cooked", "raw"}]

(* The semaphore is the file: one program at most is past its open.         *)
OneProgram ==
  /\ \A p \in Programs : fd[p] <=> pwmpc[p] # "out"
  /\ \A p, q \in Programs : fd[p] /\ fd[q] => p = q
  /\ lock = 0 <=> \E p \in Programs : fd[p]

(* Whatever is heard was set by the program that has the file open.         *)
PinIsSet ==
  pin = "tout0" =>
    /\ \E p \in Programs : fd[p]
    /\ tone \in Lowest..Highest /\ tcntb = Pclk16 \div tone /\ tcmpb = tcntb \div 2

(* The one program that may have changed the terminal knows how it was.     *)
TerminalKnown ==
  ~hurt => /\ tty = "raw" => \E p \in Programs : pwmpc[p] \in InGetkey
           /\ \A p \in Programs : pwmpc[p] \in {"raw"} \cup InGetkey => oldt[p] = "cooked"

PwmInv == PwmTypeOK /\ OneProgram /\ TerminalKnown

(* The pin is off before the semaphore is free. *)
SilentBeforeUp == \A p \in Programs : pwmpc[p] = "up" => pin = "output"

PitchInv ==
  PinIsSet /\ SilentBeforeUp /\ \A p \in Programs : freq[p] \in Lowest..Highest

LEMMA PitchRange == Lowest \in Nat \ {0} /\ Highest \in Int
BY PwmAssumption DEF Lowest, Highest

(* + and - stay between them, and never reach 0. *)
LEMMA KeysKeepPitch ==
  /\ \A f \in Lowest..Highest : FreqUp(f) \in Lowest..Highest /\ FreqDown(f) \in Lowest..Highest
  /\ \A f \in Nat \ {0} : FreqUp(f) \in Nat \ {0} /\ FreqDown(f) \in Nat \ {0}
BY PwmAssumption DEF Lowest, Highest, FreqUp, FreqDown

LEMMA PwmTypeStep == PwmTypeOK /\ [PwmNext]_pwmVars => PwmTypeOK'
<1> SUFFICES ASSUME PwmTypeOK, [PwmNext]_pwmVars PROVE PwmTypeOK'
  OBVIOUS
<1>0. StartFreq \in Nat \ {0}
  BY PwmAssumption
<1> USE DEF PwmTypeOK, PwmPlaces, InGetkey, Jump, driverVars
<1>1. ASSUME NEW p \in Programs, buzzer_open(p) PROVE PwmTypeOK'
  BY <1>0, <1>1 DEF buzzer_open, PWM_open
<1>2. ASSUME NEW p \in Programs, buzzer_set_freq(p) PROVE PwmTypeOK'
  BY <1>2 DEF buzzer_set_freq, PWM_ioctl, PWM_set_freq
<1>3. ASSUME NEW p \in Programs, getkey_save(p) \/ getkey_raw(p) \/ getkey_restore(p)
      PROVE  PwmTypeOK'
  BY <1>3 DEF getkey_save, getkey_raw, getkey_restore
<1>4. ASSUME NEW p \in Programs, getchar(p) PROVE PwmTypeOK'
  <2>1. freq' \in [Programs -> Nat \ {0}]
    BY <1>4, KeysKeepPitch DEF getchar
  <2> QED BY <1>4, <2>1 DEF getchar
<1>5. ASSUME NEW p \in Programs, buzzer_stop(p) PROVE PwmTypeOK'
  BY <1>5 DEF buzzer_stop, PWM_ioctl, PWM_stop
<1>6. ASSUME NEW p \in Programs, buzzer_close(p) \/ released(p) PROVE PwmTypeOK'
  BY <1>6 DEF buzzer_close, released, PWM_ioctl, PWM_close, PWM_stop
<1>7. ASSUME NEW p \in Programs, Kill(p) PROVE PwmTypeOK'
  BY <1>7 DEF Kill, PWM_close, PWM_stop
<1>8. CASE UNCHANGED pwmVars
  BY <1>8 DEF pwmVars
<1> QED BY <1>1, <1>2, <1>3, <1>4, <1>5, <1>6, <1>7, <1>8 DEF PwmNext, ProgramStep

LEMMA PwmInvStep == PwmInv /\ [PwmNext]_pwmVars => PwmInv'
<1> SUFFICES ASSUME PwmInv, [PwmNext]_pwmVars PROVE PwmInv'
  OBVIOUS
<1>0. PwmTypeOK /\ PwmTypeOK'
  BY PwmTypeStep DEF PwmInv
<1> DEFINE Rest == OneProgram /\ TerminalKnown
<1> USE <1>0 DEF PwmInv, OneProgram, TerminalKnown, PwmTypeOK, PwmPlaces, InGetkey, Jump,
        driverVars
<1>1. ASSUME NEW p \in Programs, buzzer_open(p) PROVE Rest'
  BY <1>1 DEF buzzer_open, PWM_open
<1>2. ASSUME NEW p \in Programs, buzzer_set_freq(p) PROVE Rest'
  BY <1>2 DEF buzzer_set_freq, PWM_ioctl, PWM_set_freq
<1>3. ASSUME NEW p \in Programs, getkey_save(p) PROVE Rest'
  BY <1>3 DEF getkey_save
<1>4. ASSUME NEW p \in Programs, getkey_raw(p) PROVE Rest'
  BY <1>4 DEF getkey_raw
<1>5. ASSUME NEW p \in Programs, getkey_restore(p) PROVE Rest'
  BY <1>5 DEF getkey_restore
<1>6. ASSUME NEW p \in Programs, getchar(p) PROVE Rest'
  BY <1>6 DEF getchar
<1>7. ASSUME NEW p \in Programs, buzzer_stop(p) PROVE Rest'
  BY <1>7 DEF buzzer_stop, PWM_ioctl, PWM_stop
<1>8. ASSUME NEW p \in Programs, buzzer_close(p) PROVE Rest'
  BY <1>8 DEF buzzer_close, PWM_ioctl, PWM_close, PWM_stop
<1>11. ASSUME NEW p \in Programs, released(p) PROVE Rest'
  BY <1>11 DEF released, PWM_close
<1>9. ASSUME NEW p \in Programs, Kill(p) PROVE Rest'
  BY <1>9 DEF Kill, PWM_close, PWM_stop
<1>10. CASE UNCHANGED pwmVars
  BY <1>10 DEF pwmVars
<1> QED BY <1>1, <1>2, <1>3, <1>4, <1>5, <1>6, <1>7, <1>8, <1>9, <1>10, <1>11
        DEF PwmNext, ProgramStep

(* The semaphore and the terminal: the inductive invariant of the buzzer.   *)
THEOREM PwmInvariance == PwmSpec => []PwmInv
<1>1. PwmInit => PwmInv
  <2> SUFFICES ASSUME PwmInit PROVE PwmInv
    OBVIOUS
  <2>1. timer \in BOOLEAN /\ hurt \in BOOLEAN /\ fd \in [Programs -> BOOLEAN]
    BY Zenon DEF PwmInit
  <2>2. \A p \in Programs : ~fd[p]
    BY Zenon DEF PwmInit
  <2>3. PwmTypeOK
    BY <2>1, PwmAssumption DEF PwmInit, PwmTypeOK, PwmPlaces, InGetkey
  <2> QED BY <2>2, <2>3 DEF PwmInit, PwmInv, OneProgram, TerminalKnown, InGetkey
<1> QED BY <1>1, PwmInvStep, PTL DEF PwmSpec

(* Only an ioctl of the program that has the file open sets the pin, and a  *)
(* close takes it away before it lets another program in.                   *)
LEMMA PitchStep == PitchFits /\ PwmInv /\ PitchInv /\ [PwmNext]_pwmVars => PitchInv'
<1> SUFFICES ASSUME PitchFits, PwmInv, PitchInv, [PwmNext]_pwmVars PROVE PitchInv'
  OBVIOUS
<1>0. PwmTypeOK /\ OneProgram /\ StartFreq \in Lowest..Highest
  BY DEF PwmInv, PitchFits
<1> USE <1>0 DEF PitchInv, PinIsSet, SilentBeforeUp, OneProgram, PwmTypeOK, PwmPlaces, InGetkey, Jump,
        driverVars
<1>1. ASSUME NEW p \in Programs, buzzer_open(p) PROVE PitchInv'
  BY <1>1 DEF buzzer_open, PWM_open
<1>2. ASSUME NEW p \in Programs, buzzer_set_freq(p) PROVE PitchInv'
  <2>1. freq[p] \in Lowest..Highest /\ fd[p] /\ \A q \in Programs : pwmpc'[q] # "up"
    BY <1>2 DEF buzzer_set_freq
  <2>2. PWM_set_freq(freq[p]) /\ UNCHANGED <<fd, freq>>
    BY <1>2 DEF buzzer_set_freq, PWM_ioctl
  <2> QED BY <2>1, <2>2 DEF PWM_set_freq
<1>3. ASSUME NEW p \in Programs, getkey_save(p) \/ getkey_raw(p) \/ getkey_restore(p)
      PROVE  PitchInv'
  BY <1>3 DEF getkey_save, getkey_raw, getkey_restore
<1>4. ASSUME NEW p \in Programs, getchar(p) PROVE PitchInv'
  BY <1>4, KeysKeepPitch DEF getchar
<1>5. ASSUME NEW p \in Programs, buzzer_stop(p) PROVE PitchInv'
  BY <1>5 DEF buzzer_stop, PWM_ioctl, PWM_stop
<1>6. ASSUME NEW p \in Programs, buzzer_close(p) PROVE PitchInv'
  BY <1>6 DEF buzzer_close, PWM_ioctl, PWM_close, PWM_stop
<1>8. ASSUME NEW p \in Programs, released(p) PROVE PitchInv'
  BY <1>8 DEF released, PWM_close
<1>9. ASSUME NEW p \in Programs, Kill(p) PROVE PitchInv'
  BY <1>9 DEF Kill, PWM_close, PWM_stop
<1>7. CASE UNCHANGED pwmVars
  BY <1>7 DEF pwmVars
<1> QED BY <1>1, <1>2, <1>3, <1>4, <1>5, <1>6, <1>7, <1>8, <1>9 DEF PwmNext, ProgramStep

(* If the timer can count every frequency that the keys can reach, the      *)
(* buzzer sounds only for the program that has it open, at the frequency it *)
(* asked for (PWM_ioctl, PWM_close, buzzer_close), for any number of        *)
(* programs that come, go and are killed.                                   *)
THEOREM BuzzerObeysHolder == ASSUME PitchFits PROVE PwmSpec => []SoundsForHolder
<1>1. PwmInit => PitchInv
  BY DEF PwmInit, PitchInv, PinIsSet, SilentBeforeUp, PitchFits
<1>2. PwmInv /\ PitchInv => SoundsForHolder
  <2> SUFFICES ASSUME PwmInv, PitchInv, Sounding PROVE SoundsForHolder
    BY DEF SoundsForHolder
  <2>1. /\ \E p \in Programs : fd[p] /\ \A q \in Programs \ {p} : ~fd[q]
        /\ tone \in Lowest..Highest /\ tcntb = Pclk16 \div tone /\ tcmpb = tcntb \div 2
    BY DEF Sounding, PwmInv, PitchInv, PinIsSet, OneProgram
  <2>2. tcntb \in 1..CountMax
    BY <2>1 DEF PitchFits
  <2>3. tcmpb < tcntb
    BY <2>1, <2>2, PwmAssumption
  <2>4. tone > 0
    BY <2>1, PitchRange
  <2> QED BY <2>1, <2>2, <2>3, <2>4 DEF SoundsForHolder
<1> QED BY <1>1, <1>2, PitchStep, PwmInvariance, PTL DEF PwmSpec

(* With no program waiting for a key the terminal is as it was, unless a    *)
(* program ended inside getkey: no program saves another's raw mode.        *)
THEOREM TerminalComesBack == PwmSpec => []TerminalRestored
<1>1. PwmInv => TerminalRestored
  BY DEF PwmInv, PwmTypeOK, TerminalKnown, InGetkey, TerminalRestored
<1> QED BY <1>1, PwmInvariance, PTL
-----------------------------------------------------------------------------
(* The completion device *)

CompletionTypeOK ==
  /\ count \in Nat \ {0} /\ read_index \in Nat /\ write_index \in Nat /\ done \in Nat
  /\ completion_buffer \in [0..(BUFFER_SIZE - 1) -> Runs \cup {0}]
  /\ child \in [Runs -> {"none", "copy", "advance", "complete", "over"}]
  /\ parent \in [Runs -> {"none", "wait", "copy", "advance", "over"}]
  /\ DOMAIN got = Runs /\ overrun \in BOOLEAN /\ disturbed \in BOOLEAN

(* The message of run r is where the next read will look for it. *)
Written(r) ==
  \A i \in Places(read_index) : i \in DOMAIN completion_buffer /\ completion_buffer[i] = r

(* How far the indices and the completion have got, at each point of an     *)
(* undisturbed run.                                                         *)
Stage(r) ==
  /\ child[r] = "none" <=> parent[r] = "none"
  /\ child[r] \in {"copy", "advance", "complete"} => parent[r] = "wait"
  /\ child[r] \in {"copy", "advance"} => read_index = write_index
  /\ child[r] \in {"advance", "complete"} => Written(r)
  /\ child[r] = "complete" \/ (child[r] = "over" /\ parent[r] # "over") =>
       write_index = Advanced(read_index)
  /\ Active(r) => done = IF child[r] = "over" /\ parent[r] = "wait" THEN 1 ELSE 0
  /\ child[r] = "over" /\ parent[r] \in {"wait", "copy"} => Written(r)
  /\ parent[r] \in {"advance", "over"} => got[r] = [i \in 1..count |-> r]

(* As long as nothing disturbs them, runs come one after the other, and     *)
(* between them the indices agree and no completion is left over.           *)
InStep ==
  ~disturbed =>
    /\ \A r, s \in Runs : Active(r) /\ Active(s) => r = s
    /\ \A r \in Runs : Stage(r)
    /\ (\A r \in Runs : ~Active(r)) => read_index = write_index /\ done = 0

CompletionInv == CompletionTypeOK /\ InStep

LEMMA AdvancedIsNat == CompletionTypeOK => \A i \in Nat : Advanced(i) \in Nat
<1> SUFFICES ASSUME CompletionTypeOK, NEW i \in Nat PROVE Advanced(i) \in Nat
  OBVIOUS
<1>1. \A m \in Nat : m % BUFFER_SIZE \in Nat
  BY CompletionAssumption
<1>2. i + count \in Nat
  BY DEF CompletionTypeOK
<1> QED BY <1>1, <1>2 DEF Advanced

LEMMA CompletionTypeStep == CompletionTypeOK /\ [CompletionNext]_completionVars => CompletionTypeOK'
<1> SUFFICES ASSUME CompletionTypeOK, [CompletionNext]_completionVars PROVE CompletionTypeOK'
  OBVIOUS
<1> USE DEF CompletionTypeOK
<1>1. ASSUME NEW r \in Runs, Fork(r) PROVE CompletionTypeOK'
  BY <1>1 DEF Fork
<1>2. ASSUME NEW r \in Runs, WriteCopy(r) PROVE CompletionTypeOK'
  <2>1. completion_buffer' \in [0..(BUFFER_SIZE - 1) -> Runs \cup {0}]
    BY <1>2 DEF WriteCopy
  <2>2. child' \in [Runs -> {"none", "copy", "advance", "complete", "over"}]
    BY <1>2 DEF WriteCopy
  <2>3. disturbed' \in BOOLEAN
    BY <1>2 DEF WriteCopy
  <2>4. read_index' \in Nat /\ write_index' \in Nat /\ overrun' \in BOOLEAN
    BY <1>2, CompletionAssumption DEF WriteCopy, Spill
  <2> QED BY <1>2, <2>1, <2>2, <2>3, <2>4 DEF WriteCopy
<1>3. ASSUME NEW r \in Runs, WriteAdvance(r) PROVE CompletionTypeOK'
  BY <1>3, AdvancedIsNat DEF WriteAdvance
<1>4. ASSUME NEW r \in Runs, WriteComplete(r) PROVE CompletionTypeOK'
  BY <1>4 DEF WriteComplete, Complete
<1>5. ASSUME NEW r \in Runs, ReadWoken(r) PROVE CompletionTypeOK'
  BY <1>5 DEF ReadWoken, ReadWait
<1>6. ASSUME NEW r \in Runs, ReadCopy(r) PROVE CompletionTypeOK'
  <2>1. DOMAIN got' = Runs /\ parent' \in [Runs -> {"none", "wait", "copy", "advance", "over"}]
    BY <1>6 DEF ReadCopy
  <2>2. disturbed' \in BOOLEAN
    BY <1>6 DEF ReadCopy
  <2> QED BY <1>6, <2>1, <2>2 DEF ReadCopy
<1>7. ASSUME NEW r \in Runs, ReadAdvance(r) PROVE CompletionTypeOK'
  BY <1>7, AdvancedIsNat DEF ReadAdvance
<1>8. CASE UNCHANGED completionVars
  BY <1>8 DEF completionVars
<1> QED BY <1>1, <1>2, <1>3, <1>4, <1>5, <1>6, <1>7, <1>8 DEF CompletionNext, RunStep

(* A step of one run leaves a run that is not active as it was. *)
LEMMA OthersRest ==
  ASSUME NEW s \in Runs, Stage(s), ~Active(s), count' = count,
         child'[s] = child[s], parent'[s] = parent[s], got'[s] = got[s]
  PROVE  Stage(s)' /\ ~Active(s)'
<1>1. ~Active(s)'
  BY DEF Active
<1>2. \/ child[s] = "none" /\ parent[s] = "none"
      \/ child[s] = "over" /\ parent[s] = "over"
  BY DEF Stage, Active
<1>3. Stage(s) => (parent[s] = "over" => got[s] = [i \in 1..count |-> s])
  BY DEF Stage
<1> QED BY <1>1, <1>2, <1>3 DEF Stage

(* A step of the one active run takes it to its next stage. *)
LEMMA RunKeepsStep ==
  ASSUME CompletionInv, ~disturbed, ~disturbed', NEW r \in Runs, RunStep(r)
  PROVE  /\ Active(r) /\ Stage(r)'
         /\ ~Active(r)' => read_index' = write_index' /\ done' = 0
<1>0. CompletionTypeOK /\ CompletionTypeOK' /\ Stage(r)
  BY CompletionTypeStep DEF CompletionInv, InStep, CompletionNext
<1>1. CASE WriteCopy(r)
  <2>1. /\ child[r] = "copy" /\ child'[r] = "advance" /\ Inside(write_index)
        /\ parent[r] = "wait" /\ parent'[r] = "wait" /\ read_index = write_index /\ done = 0
        /\ UNCHANGED <<count, read_index, write_index, done, got>>
        /\ completion_buffer' = [i \in DOMAIN completion_buffer |->
             IF i \in Places(write_index) THEN r ELSE completion_buffer[i]]
    BY <1>0, <1>1 DEF WriteCopy, Spill, Stage, Active, CompletionTypeOK
  <2>2. Written(r)'
    BY <2>1 DEF Written, Inside, Places
  <2> QED BY <2>1, <2>2 DEF Stage, Active
<1>2. CASE WriteAdvance(r)
  BY <1>0, <1>2 DEF WriteAdvance, Stage, Active, Written, Places, Advanced, CompletionTypeOK
<1>3. CASE WriteComplete(r)
  <2>1. /\ child[r] = "complete" /\ child'[r] = "over"
        /\ parent[r] = "wait" /\ parent'[r] = "wait" /\ done = 0 /\ done' = 1
        /\ UNCHANGED <<count, completion_buffer, read_index, write_index, got>>
        /\ Written(r) /\ write_index = Advanced(read_index)
    BY <1>0, <1>3 DEF WriteComplete, Complete, Stage, Active, CompletionTypeOK
  <2>2. Written(r)' /\ (write_index = Advanced(read_index))'
    BY <2>1 DEF Written, Places, Advanced
  <2> QED BY <2>1, <2>2 DEF Stage, Active
<1>4. CASE ReadWoken(r)
  BY <1>0, <1>4 DEF ReadWoken, ReadWait, Stage, Active, Written, Places, Advanced, CompletionTypeOK
<1>5. CASE ReadCopy(r)
  <2>1. /\ parent[r] = "copy" /\ parent'[r] = "advance" /\ child[r] = "over" /\ child'[r] = "over"
        /\ UNCHANGED <<count, completion_buffer, read_index, write_index, done>>
        /\ Written(r) /\ write_index = Advanced(read_index) /\ done = 0
        /\ got'[r] = [i \in 1..count |->
             IF read_index + i - 1 \in DOMAIN completion_buffer
             THEN completion_buffer[read_index + i - 1] ELSE 0]
    BY <1>0, <1>5 DEF ReadCopy, Stage, Active, CompletionTypeOK
  <2>2. \A i \in 1..count : read_index + i - 1 \in Places(read_index)
    BY <1>0 DEF Places, CompletionTypeOK
  <2>3. got'[r] = [i \in 1..count |-> r]
    BY <2>1, <2>2 DEF Written
  <2>4. (write_index = Advanced(read_index))'
    BY <2>1 DEF Advanced
  <2> QED BY <2>1, <2>3, <2>4 DEF Stage, Active
<1>6. CASE ReadAdvance(r)
  BY <1>0, <1>6 DEF ReadAdvance, Stage, Active, Advanced, CompletionTypeOK
<1> QED BY <1>1, <1>2, <1>3, <1>4, <1>5, <1>6 DEF RunStep

LEMMA InStepStep == CompletionInv /\ [CompletionNext]_completionVars => InStep'
<1> SUFFICES ASSUME CompletionInv, [CompletionNext]_completionVars, ~disturbed' PROVE InStep'
  BY DEF InStep
<1>0. CompletionTypeOK /\ CompletionTypeOK'
  BY CompletionTypeStep DEF CompletionInv
<1>1. ASSUME NEW r \in Runs, Fork(r) PROVE InStep'
  <2>1. ~disturbed /\ \A s \in Runs : ~Active(s)
    BY <1>1 DEF Fork
  <2>2. (\A s \in Runs : Stage(s)) /\ read_index = write_index /\ done = 0
    BY <2>1 DEF CompletionInv, InStep
  <2>3. child'[r] = "copy" /\ parent'[r] = "wait" /\ UNCHANGED <<read_index, write_index, done>>
    BY <1>0, <1>1 DEF Fork, CompletionTypeOK
  <2>4. Active(r)' /\ Stage(r)'
    BY <2>2, <2>3 DEF Stage, Active
  <2>5. ASSUME NEW s \in Runs \ {r}
        PROVE  /\ count' = count
               /\ child'[s] = child[s] /\ parent'[s] = parent[s] /\ got'[s] = got[s]
    BY <1>0, <1>1 DEF Fork, CompletionTypeOK
  <2>6. \A s \in Runs \ {r} : Stage(s)' /\ ~Active(s)'
    BY <2>1, <2>2, <2>5, OthersRest
  <2> QED BY <2>4, <2>6 DEF InStep
<1>2. ASSUME NEW r \in Runs, RunStep(r) PROVE InStep'
  <2>1. ~disturbed
    BY <1>0, <1>2 DEF RunStep, WriteCopy, WriteAdvance, WriteComplete, ReadWoken, ReadCopy, ReadAdvance
  <2>2. /\ \A s \in Runs : Stage(s)
        /\ \A q, s \in Runs : Active(q) /\ Active(s) => q = s
    BY <2>1 DEF CompletionInv, InStep
  <2>3. /\ Active(r) /\ Stage(r)'
        /\ ~Active(r)' => read_index' = write_index' /\ done' = 0
    BY <1>2, <2>1, RunKeepsStep
  <2>4. ASSUME NEW s \in Runs \ {r}
        PROVE  /\ count' = count
               /\ child'[s] = child[s] /\ parent'[s] = parent[s] /\ got'[s] = got[s]
    BY <1>0, <1>2 DEF RunStep, WriteCopy, WriteAdvance, WriteComplete, ReadWoken, ReadCopy, ReadAdvance,
       CompletionTypeOK
  <2>5. \A s \in Runs \ {r} : Stage(s)' /\ ~Active(s)'
    BY <2>2, <2>3, <2>4, OthersRest
  <2> QED BY <2>3, <2>5 DEF InStep
<1>3. CASE UNCHANGED completionVars
  <2>1. \A r \in Runs : (Active(r)' <=> Active(r)) /\ (Stage(r)' <=> Stage(r))
    BY <1>3 DEF completionVars, Stage, Active, Written, Places, Advanced
  <2> QED BY <1>3, <2>1 DEF completionVars, CompletionInv, InStep
<1> QED BY <1>1, <1>2, <1>3 DEF CompletionNext

(* The parent reads the message of its own child, for any buffer size,      *)
(* message length and number of runs, as long as runs do not overlap and no *)
(* copy fails or runs over the end of the buffer (completion_read,          *)
(* completion_write).                                                       *)
THEOREM MessagesArrive == CompletionSpec => []MessageArrives
<1>1. CompletionInit => CompletionInv
  <2> SUFFICES ASSUME CompletionInit PROVE CompletionInv
    OBVIOUS
  <2>1. overrun \in BOOLEAN /\ disturbed \in BOOLEAN
    BY Zenon DEF CompletionInit
  <2>2. count \in Nat \ {0}
    BY CompletionAssumption DEF CompletionInit
  <2>3. CompletionTypeOK
    BY <2>1, <2>2 DEF CompletionInit, CompletionTypeOK
  <2> QED BY <2>3 DEF CompletionInit, CompletionInv, InStep, Stage, Active
<1>2. CompletionInv /\ [CompletionNext]_completionVars => CompletionInv'
  BY CompletionTypeStep, InStepStep DEF CompletionInv
<1>3. CompletionInv => MessageArrives
  BY DEF CompletionInv, InStep, Stage, MessageArrives
<1> QED BY <1>1, <1>2, <1>3, PTL DEF CompletionSpec
-----------------------------------------------------------------------------
(* ioremap *)

(* Division of natural numbers: quotient and remainder, their uniqueness,   *)
(* and that quotients keep the order.                                       *)
LEMMA DivMod ==
  \A n \in Nat, d \in Nat \ {0} :
    n \div d \in Nat /\ n % d \in 0..(d - 1) /\ n % d = n - d * (n \div d)
  OBVIOUS

LEMMA TimesKeepsOrder == \A x, y, d \in Nat : x <= y => d * x <= d * y
  OBVIOUS

LEMMA QuotientUnique ==
  ASSUME NEW d \in Nat \ {0}, NEW q \in Nat, NEW n \in Nat, d * q <= n, n < d * q + d
  PROVE  n \div d = q
<1> DEFINE m == n \div d
<1>1. m \in Nat /\ d * m <= n /\ n < d * m + d
  BY DivMod
<1> HIDE DEF m
<1>2. ~(m + 1 <= q)
  <2>1. m + 1 <= q => d * (m + 1) <= d * q
    BY <1>1, TimesKeepsOrder
  <2>2. d * (m + 1) = d * m + d
    BY <1>1
  <2> QED BY <1>1, <2>1, <2>2
<1>3. ~(q + 1 <= m)
  <2>1. q + 1 <= m => d * (q + 1) <= d * m
    BY <1>1, TimesKeepsOrder
  <2>2. d * (q + 1) = d * q + d
    OBVIOUS
  <2> QED BY <1>1, <2>1, <2>2
<1> QED BY <1>1, <1>2, <1>3 DEF m

LEMMA QuotientMonotone ==
  ASSUME NEW d \in Nat \ {0}, NEW m \in Nat, NEW n \in Nat, m <= n
  PROVE  m \div d <= n \div d
<1> DEFINE a == m \div d
           b == n \div d
<1>1. a \in Nat /\ d * a <= m /\ b \in Nat /\ n < d * b + d
  BY DivMod
<1> HIDE DEF a, b
<1>2. b + 1 <= a => d * (b + 1) <= d * a
  BY <1>1, TimesKeepsOrder
<1>3. d * (b + 1) = d * b + d
  BY <1>1
<1> QED BY <1>1, <1>2, <1>3 DEF a, b

(* One sum of two unsigned longs wraps at most once. *)
LEMMA WrapsOnce ==
  \A w \in Nat \ {0}, n \in Nat :
    n < w + w => n % w = IF n < w THEN n ELSE n - w
  OBVIOUS

(* A request that passes the first test does not wrap. *)
LEMMA LastByte ==
  ASSUME NEW phys \in Address, NEW size \in Address, ~Wraps(phys, size)
  PROVE  size >= 1 /\ last_addr(phys, size) = phys + size - 1 /\ phys + size <= Word
<1>1. Word \in Nat \ {0} /\ phys \in Nat /\ size \in Nat /\ phys < Word /\ size < Word
  BY IoremapAssumption DEF Address
<1>2. size >= 1
  BY <1>1 DEF Wraps
<1>3. phys + size - 1 \in Nat /\ phys + size - 1 < Word + Word
  BY <1>1, <1>2
<1>4. last_addr(phys, size) =
        IF phys + size - 1 < Word THEN phys + size - 1 ELSE (phys + size - 1) - Word
  <2> DEFINE s == phys + size - 1
  <2> HIDE DEF s
  <2>1. s % Word = IF s < Word THEN s ELSE s - Word
    BY <1>1, <1>3, WrapsOnce DEF s
  <2> QED BY <2>1, Zenon DEF s, last_addr
<1> QED BY <1>1, <1>2, <1>4 DEF Wraps

LEMMA PageMaskMultiple ==
  ASSUME NEW n \in Nat
  PROVE  /\ PageMask(n) = PAGE_SIZE * (n \div PAGE_SIZE) /\ PageMask(n) \in Nat
         /\ PageMask(n) = n - (n % PAGE_SIZE) /\ n % PAGE_SIZE \in 0..(PAGE_SIZE - 1)
         /\ PFN_DOWN(PageMask(n)) = PFN_DOWN(n)
<1>1. PAGE_SIZE \in Nat \ {0}
  BY IoremapAssumption
<1>2. /\ n \div PAGE_SIZE \in Nat /\ n % PAGE_SIZE \in 0..(PAGE_SIZE - 1)
      /\ n % PAGE_SIZE = n - PAGE_SIZE * (n \div PAGE_SIZE)
  BY <1>1, DivMod
<1> DEFINE q == n \div PAGE_SIZE
           m == PAGE_SIZE * q
<1>3. m \in Nat /\ q \in Nat /\ PageMask(n) = m
  BY <1>1, <1>2 DEF PageMask
<1>4. m \div PAGE_SIZE = q
  BY <1>1, <1>3, QuotientUnique
<1>5. PFN_DOWN(PageMask(n)) = PFN_DOWN(n)
  BY <1>3, <1>4 DEF PFN_DOWN
<1>6. PageMask(n) = n - (n % PAGE_SIZE)
  BY Zenon DEF PageMask
<1> QED BY <1>2, <1>3, <1>5, <1>6

LEMMA WordPages == /\ PAGE_SIZE <= Word
                   /\ \E q \in Nat : Word = PAGE_SIZE * q
<1>1. Word \in Nat \ {0} /\ PAGE_SIZE \in Nat \ {0} /\ Word % PAGE_SIZE = 0
  BY IoremapAssumption
<1> DEFINE q == Word \div PAGE_SIZE
<1>2. q \in Nat /\ Word = PAGE_SIZE * q
  BY <1>1, DivMod
<1> HIDE DEF q
<1>3. q >= 1
  BY <1>1, <1>2
<1>4. PAGE_SIZE * 1 <= PAGE_SIZE * q
  BY <1>1, <1>2, <1>3, TimesKeepsOrder
<1> QED BY <1>1, <1>2, <1>4

(* PAGE_ALIGN of the byte behind the last: the next page boundary, or 0     *)
(* where that is the end of the address space.                              *)
LEMMA AlignedEnd ==
  ASSUME NEW last \in Address
  PROVE  LET end == PAGE_ALIGN((last + 1) % Word)
         IN  \E e \in Nat : /\ last < e /\ e <= last + PAGE_SIZE /\ e <= Word
                            /\ \E q \in Nat : e = PAGE_SIZE * q
                            /\ end = IF e = Word THEN 0 ELSE e
<1> DEFINE x == (last + 1) % Word
           y == (x + PAGE_SIZE - 1) % Word
<1>1. /\ Word \in Nat \ {0} /\ PAGE_SIZE \in Nat \ {0} /\ last \in Nat /\ last < Word
      /\ PAGE_SIZE <= Word
  BY IoremapAssumption, WordPages DEF Address
<1>2. x = IF last + 1 < Word THEN last + 1 ELSE 0
  BY <1>1, WrapsOnce DEF Address
<1>3. x \in Nat /\ x < Word /\ x + PAGE_SIZE - 1 \in Nat /\ x + PAGE_SIZE - 1 < Word + Word
  BY <1>1, <1>2
<1> HIDE DEF x
<1>4. y = IF x + PAGE_SIZE - 1 < Word THEN x + PAGE_SIZE - 1 ELSE (x + PAGE_SIZE - 1) - Word
  <2> DEFINE s == x + PAGE_SIZE - 1
  <2> HIDE DEF s
  <2>1. s % Word = IF s < Word THEN s ELSE s - Word
    BY <1>1, <1>3, WrapsOnce DEF s
  <2> QED BY <2>1, Zenon DEF s, y
<1>5. PAGE_ALIGN(x) = PageMask(y) /\ y \in Nat
  BY <1>1, <1>3, <1>4 DEF PAGE_ALIGN
<1> HIDE DEF y
<1>6. /\ PageMask(y) \in Nat /\ PageMask(y) = y - (y % PAGE_SIZE)
      /\ y % PAGE_SIZE \in 0..(PAGE_SIZE - 1)
      /\ PageMask(y) = PAGE_SIZE * (y \div PAGE_SIZE) /\ y \div PAGE_SIZE \in Nat
  BY <1>1, <1>5, PageMaskMultiple, DivMod
<1>7. CASE last + 1 < Word /\ last + PAGE_SIZE < Word
  <2>1. y = last + PAGE_SIZE
    BY <1>1, <1>2, <1>4, <1>7
  <2>2. /\ last < PageMask(y) /\ PageMask(y) <= last + PAGE_SIZE /\ PageMask(y) < Word
    BY <1>1, <1>6, <1>7, <2>1
  <2> DEFINE e == PageMask(y)
  <2>3. /\ e \in Nat /\ last < e /\ e <= last + PAGE_SIZE /\ e < Word
        /\ \E q \in Nat : e = PAGE_SIZE * q
        /\ PAGE_ALIGN(x) = e
    BY <1>5, <1>6, <2>2
  <2> HIDE DEF e
  <2> QED BY <1>1, <2>3 DEF x
<1>8. CASE ~(last + 1 < Word /\ last + PAGE_SIZE < Word)
  <2>1. y \in Nat /\ y < PAGE_SIZE
    BY <1>1, <1>2, <1>4, <1>5, <1>8
  <2>2. PageMask(y) = 0
    <3>1. y \div PAGE_SIZE = 0
      BY <1>1, <2>1, QuotientUnique
    <3> QED BY <1>1, <1>6, <3>1
  <2>3. last < Word /\ Word <= last + PAGE_SIZE
    BY <1>1, <1>8
  <2> QED BY <1>1, <1>5, <2>2, <2>3, WordPages DEF x
<1> QED BY <1>7, <1>8

(* The window is never short and never one page too long, unless it is the  *)
(* whole address space, whose length is 0 in an unsigned long.              *)
LEMMA WindowFits ==
  ASSUME NEW phys \in Address, NEW size \in Address, ~Wraps(phys, size),
         WindowSize(phys, size) >= 1
  PROVE  LET end == PageMask(phys) + WindowSize(phys, size)
             last == phys + size - 1
         IN  /\ WindowSize(phys, size) \in Nat /\ PageMask(phys) \in Nat
             /\ phys + size <= end /\ PFN_DOWN(end - 1) = PFN_DOWN(last)
<1> DEFINE last == phys + size - 1
           base == PageMask(phys)
<1>1. /\ size >= 1 /\ last_addr(phys, size) = last /\ last \in Address /\ phys <= last
      /\ phys \in Nat /\ size \in Nat /\ last \in Nat
  BY LastByte, IoremapAssumption DEF Address
<1>2. base \in Nat /\ base <= phys /\ Word \in Nat \ {0} /\ PAGE_SIZE \in Nat \ {0}
  BY <1>1, PageMaskMultiple, IoremapAssumption
<1>3. PICK e \in Nat : /\ last < e /\ e <= last + PAGE_SIZE /\ e <= Word
                      /\ \E q \in Nat : e = PAGE_SIZE * q
                      /\ PAGE_ALIGN((last + 1) % Word) = IF e = Word THEN 0 ELSE e
  BY <1>1, AlignedEnd
<1>4. WindowSize(phys, size) = ((IF e = Word THEN 0 ELSE e) - base) % Word
  BY <1>1, <1>3 DEF WindowSize
<1> HIDE DEF last, base
<1>5. WindowSize(phys, size) = e - base
  <2>1. CASE e # Word
    <3>1. e - base \in Nat /\ e - base < Word
      BY <1>1, <1>2, <1>3, <2>1
    <3> DEFINE s == e - base
    <3>3. s \in Nat /\ s < Word /\ s < Word + Word
      BY <1>2, <3>1
    <3> HIDE DEF s
    <3>2. s % Word = s
      BY <1>2, <3>3, WrapsOnce
    <3> QED BY <1>4, <2>1, <3>2, Zenon DEF s
  <2>2. CASE e = Word
    <3>1. (0 - base) % Word >= 1
      BY <1>4, <2>2
    <3>2. base # 0
      BY <1>2, <3>1
    <3>3. base < Word
      BY <1>1, <1>2, <1>3, <2>2
    <3>4. (0 - base) % Word = Word - base
      BY <1>2, <3>2, <3>3
    <3> QED BY <1>4, <2>2, <3>4
  <2> QED BY <2>1, <2>2
<1>6. PFN_DOWN(e - 1) = PFN_DOWN(last)
  <2>1. PICK q \in Nat : e = PAGE_SIZE * q
    BY <1>3
  <2>2. q >= 1
    BY <1>1, <1>2, <1>3, <2>1
  <2> DEFINE k == q - 1
  <2>3. k \in Nat /\ PAGE_SIZE * k + PAGE_SIZE = e
    BY <1>2, <2>1, <2>2
  <2> HIDE DEF k
  <2>4. PAGE_SIZE * k \in Nat
    BY <1>2, <2>3
  <2>5. (e - 1) \div PAGE_SIZE = k
    <3>1. e - 1 \in Nat /\ PAGE_SIZE * k <= e - 1 /\ e - 1 < PAGE_SIZE * k + PAGE_SIZE
      BY <1>2, <2>3, <2>4
    <3> QED BY <1>2, <2>3, <3>1, QuotientUnique
  <2>6. last \div PAGE_SIZE = k
    <3>1. PAGE_SIZE * k <= last /\ last < PAGE_SIZE * k + PAGE_SIZE
      BY <1>1, <1>2, <1>3, <2>3, <2>4
    <3> QED BY <1>1, <1>2, <2>3, <3>1, QuotientUnique
  <2> QED BY <2>5, <2>6 DEF PFN_DOWN
<1> QED BY <1>1, <1>2, <1>3, <1>5, <1>6 DEF last, base

(* An area in use is the one the call asked for: it begins with the page of *)
(* the request and ends with the page of its last byte.                     *)
AreaFits ==
  /\ area.addr = VmStart /\ area.phys = PageMask(iophys) /\ area.size \in Nat \ {0}
  /\ iophys + iosize <= area.phys + area.size

IoremapInv ==
  /\ iocall \in {"idle", "map", "done"} /\ iophys \in Nat /\ iosize \in Nat
  /\ iocall = "idle" => area = NoArea
  /\ iocall = "map" => AreaFits
  /\ ReachesRequest /\ RamNotRemapped

(* KSEG1 reaches the request where it lies. *)
LEMMA Kseg1Reaches ==
  ASSUME NEW phys \in Address, NEW size \in Address, NEW uncached \in BOOLEAN,
         ~Wraps(phys, size), UseKseg1(phys, size, uncached), area = NoArea
  PROVE  /\ CKSEG1ADDR(phys) # NULL
         /\ \A b \in 0..(size - 1) : Physical(CKSEG1ADDR(phys) + b) = phys + b
<1>1. /\ phys \in Nat /\ size \in Nat /\ phys + size - 1 < Low512 /\ phys < Low512 /\ size >= 1
      /\ Low512 \in Nat \ {0} /\ KSEG1 \in Nat
  BY LastByte, IoremapAssumption DEF Address, UseKseg1, IS_LOW512
<1>2. phys % Low512 = phys
  <2>1. phys < Low512 + Low512
    BY <1>1
  <2> QED BY <1>1, <2>1, WrapsOnce
<1>3. CKSEG1ADDR(phys) = phys + KSEG1
  BY <1>2 DEF CKSEG1ADDR, CPHYSADDR
<1>4. area.addr = 0 /\ area.size = 0
  BY DEF NoArea
<1>5. ASSUME NEW b \in 0..(size - 1) PROVE Physical(phys + KSEG1 + b) = phys + b
  <2> DEFINE v == phys + KSEG1 + b
  <2>1. v \in Nat /\ KSEG1 <= v /\ v < KSEG1 + Low512 /\ v - KSEG1 = phys + b
    BY <1>1
  <2> HIDE DEF v
  <2>2. Physical(v) = v - KSEG1
    BY <1>4, <2>1 DEF Physical
  <2> QED BY <2>1, <2>2 DEF v
<1> QED BY <1>1, <1>3, <1>5 DEF NULL

(* The pages of the window are the pages that were tested, or lie behind    *)
(* RAM.                                                                     *)
LEMMA WindowSpares ==
  ASSUME NEW phys \in Address, NEW size \in Address, ~Wraps(phys, size),
         WindowSize(phys, size) >= 1,
         phys < HighMemory => TestedPages(phys, size) \subseteq reserved
  PROVE  \A p \in PFN_DOWN(PageMask(phys))..PFN_DOWN(PageMask(phys) + WindowSize(phys, size) - 1) :
           p \in RamPages => p \in reserved
<1> DEFINE last == phys + size - 1
<1>1. /\ phys \in Nat /\ PAGE_SIZE \in Nat \ {0} /\ HighMemory \in Nat
      /\ last_addr(phys, size) = last
  BY LastByte, IoremapAssumption DEF Address
<1>2. PFN_DOWN(PageMask(phys)) = PFN_DOWN(phys)
  BY <1>1, PageMaskMultiple
<1>3. PFN_DOWN(PageMask(phys) + WindowSize(phys, size) - 1) = PFN_DOWN(last)
  <2>1. PFN_DOWN((PageMask(phys) + WindowSize(phys, size)) - 1) = PFN_DOWN(last)
    BY WindowFits
  <2>2. PageMask(phys) \in Nat /\ WindowSize(phys, size) \in Nat
    BY WindowFits
  <2>3. PageMask(phys) + WindowSize(phys, size) - 1 = (PageMask(phys) + WindowSize(phys, size)) - 1
    BY <2>2
  <2> QED BY <2>1, <2>3
<1>4. CASE phys < HighMemory
  BY <1>1, <1>2, <1>3, <1>4 DEF TestedPages
<1>5. CASE HighMemory <= phys
  <2>1. PFN_DOWN(HighMemory) <= PFN_DOWN(phys)
    BY <1>1, <1>5, QuotientMonotone DEF PFN_DOWN
  <2>2. PFN_DOWN(HighMemory) \in Nat /\ PFN_DOWN(phys) \in Nat
    BY <1>1, DivMod DEF PFN_DOWN
  <2>3. \A p \in PFN_DOWN(phys)..PFN_DOWN(last) : ~(p < PFN_DOWN(HighMemory))
    BY <2>1, <2>2
  <2> QED BY <1>2, <1>3, <2>3 DEF RamPages
<1> QED BY <1>1, <1>4, <1>5

LEMMA IoremapStep == IoremapInv /\ [IoremapNext]_ioremapVars => IoremapInv'
<1> SUFFICES ASSUME IoremapInv, [IoremapNext]_ioremapVars PROVE IoremapInv'
  OBVIOUS
<1>1. ASSUME NEW phys \in Address, NEW size \in Address, NEW uncached \in BOOLEAN,
             NEW known \in BOOLEAN, ioremap(phys, size, uncached, known)
      PROVE  IoremapInv'
  <2>1. /\ iocall = "idle" /\ area = NoArea /\ iophys' = phys /\ iosize' = size
        /\ phys \in Nat /\ size \in Nat /\ UNCHANGED reserved
    BY <1>1, IoremapAssumption DEF ioremap, IoremapInv, Address
  <2>2. CASE Returns(NULL)
    BY <2>1, <2>2 DEF Returns, IoremapInv, ReachesRequest, RamNotRemapped
  <2>3. CASE /\ ~Wraps(phys, size) /\ UseKseg1(phys, size, uncached)
             /\ Returns(CKSEG1ADDR(phys))
    <3>1. area' = NoArea /\ iocall' = "done" /\ ioaddr' = CKSEG1ADDR(phys)
      BY <2>1, <2>3 DEF Returns
    <3>2. CKSEG1ADDR(phys) # NULL
          /\ \A b \in 0..(size - 1) : Physical(CKSEG1ADDR(phys) + b) = phys + b
      BY <2>1, <2>3, Kseg1Reaches
    <3>3. \A v : Physical(v)' = Physical(v)
      BY <2>1, <3>1 DEF Physical
    <3>4. ReachesRequest'
      BY <2>1, <3>1, <3>2, <3>3 DEF ReachesRequest
    <3> QED BY <2>1, <3>1, <3>4 DEF IoremapInv, RamNotRemapped
  <2>4. CASE /\ ~Wraps(phys, size)
             /\ phys < HighMemory => TestedPages(phys, size) \subseteq reserved
             /\ WindowSize(phys, size) \in 1..(Word - VmStart)
             /\ area' = [addr |-> VmStart, phys |-> PageMask(phys),
                         size |-> WindowSize(phys, size)]
             /\ iocall' = "map"
    <3>1. WindowSize(phys, size) \in Nat \ {0} /\ WindowSize(phys, size) >= 1
      BY <2>4, IoremapAssumption
    <3>2. phys + size <= PageMask(phys) + WindowSize(phys, size)
      BY <2>4, <3>1, WindowFits
    <3>3. AreaFits'
      BY <2>1, <2>4, <3>1, <3>2 DEF AreaFits, PageMask
    <3>4. \A p \in PFN_DOWN(PageMask(phys))..PFN_DOWN(PageMask(phys) + WindowSize(phys, size) - 1) :
            p \in RamPages => p \in reserved
      BY <2>4, <3>1, WindowSpares
    <3>5. area'.phys = PageMask(phys) /\ area'.size = WindowSize(phys, size)
      BY <2>4
    <3>6. RamNotRemapped'
      BY <2>1, <3>4, <3>5 DEF RamNotRemapped, PFN_DOWN, RamPages, Pages
    <3> QED BY <2>1, <2>4, <3>3, <3>6 DEF IoremapInv, ReachesRequest
  <2> QED BY <1>1, <2>2, <2>3, <2>4 DEF ioremap, KnownKseg1, get_vm_area
<1>2. CASE remap_area_pages
  <2>1. /\ iocall = "map" /\ iocall' = "done" /\ AreaFits
        /\ UNCHANGED <<reserved, iophys, iosize>> /\ iophys \in Nat /\ iosize \in Nat
    BY <1>2 DEF remap_area_pages, IoremapInv
  <2>2. CASE ioaddr' = NULL /\ area' = NoArea
    BY <2>1, <2>2 DEF IoremapInv, ReachesRequest, RamNotRemapped
  <2>3. CASE ioaddr' = area.addr + (iophys % PAGE_SIZE) /\ UNCHANGED area
    <3> DEFINE off == iophys % PAGE_SIZE
               width == area.size
    <3>1. /\ off \in Nat /\ width \in Nat /\ VmStart \in Nat
          /\ area.addr = VmStart /\ area.phys = iophys - off /\ area.phys \in Nat
          /\ iophys + iosize <= area.phys + width
      <4>1. /\ PageMask(iophys) \in Nat /\ PageMask(iophys) = iophys - (iophys % PAGE_SIZE)
            /\ iophys % PAGE_SIZE \in 0..(PAGE_SIZE - 1) /\ PAGE_SIZE \in Nat \ {0}
        BY <2>1, PageMaskMultiple, IoremapAssumption
      <4>2. VmStart \in Nat
        BY IoremapAssumption
      <4>3. off \in Nat /\ area.phys = iophys - off
        BY <2>1, <4>1 DEF AreaFits
      <4> QED BY <2>1, <4>1, <4>2, <4>3 DEF AreaFits
    <3> HIDE DEF off, width
    <3>2. ASSUME NEW b \in 0..(iosize - 1) PROVE Physical(VmStart + off + b) = iophys + b
      <4> DEFINE v == VmStart + off + b
      <4>1. /\ v \in Nat /\ VmStart <= v /\ v < VmStart + width
            /\ area.phys + (v - VmStart) = iophys + b
        BY <2>1, <3>1
      <4> HIDE DEF v
      <4>2. Physical(v) = area.phys + (v - VmStart)
        BY <3>1, <4>1 DEF Physical, width
      <4> QED BY <4>1, <4>2 DEF v
    <3>3. \A v : Physical(v)' = Physical(v)
      BY <2>3 DEF Physical
    <3>4. ioaddr' = VmStart + off /\ ioaddr' # NULL
      BY <2>3, <3>1 DEF NULL, off
    <3>5. ReachesRequest'
      BY <2>1, <3>2, <3>3, <3>4 DEF ReachesRequest
    <3>6. RamNotRemapped'
      BY <2>1, <2>3 DEF IoremapInv, RamNotRemapped, PFN_DOWN, RamPages, Pages
    <3> QED BY <2>1, <3>5, <3>6 DEF IoremapInv
  <2> QED BY <1>2, <2>2, <2>3 DEF remap_area_pages
<1>3. CASE IoDone
  BY <1>3 DEF IoDone, IoremapInv, ReachesRequest, RamNotRemapped
<1>4. CASE UNCHANGED ioremapVars
  <2>1. \A v : Physical(v)' = Physical(v)
    BY <1>4 DEF Physical, ioremapVars
  <2>2. ReachesRequest'
    BY <1>4, <2>1 DEF IoremapInv, ReachesRequest, ioremapVars
  <2>3. RamNotRemapped'
    BY <1>4 DEF IoremapInv, RamNotRemapped, ioremapVars
  <2> QED BY <1>4, <2>2, <2>3 DEF IoremapInv, AreaFits, ioremapVars
<1> QED BY <1>1, <1>2, <1>3, <1>4 DEF IoremapNext

LEMMA IoremapInvariance == IoremapSpec => []IoremapInv
<1>1. IoremapInit => IoremapInv
  BY DEF IoremapInit, IoremapInv, ReachesRequest, RamNotRemapped
<1> QED BY <1>1, IoremapStep, PTL DEF IoremapSpec

(* The address that __ioremap returns reaches every byte of the request,    *)
(* for every width of an address, page size and placement of KSEG1, of RAM  *)
(* and of the vmalloc area; the sums that wrap at the end of the address    *)
(* space are harmless.                                                      *)
THEOREM ReachesEveryByte == IoremapSpec => []ReachesRequest
<1>1. IoremapInv => ReachesRequest
  BY DEF IoremapInv
<1> QED BY <1>1, IoremapInvariance, PTL

(* No page of RAM in use gets into page tables: the pages whose             *)
(* PageReserved __ioremap tests are exactly those that the rounded window   *)
(* covers, though the test runs on the addresses before rounding.           *)
THEOREM RamStaysOut == IoremapSpec => []RamNotRemapped
<1>1. IoremapInv => RamNotRemapped
  BY DEF IoremapInv
<1> QED BY <1>1, IoremapInvariance, PTL
-----------------------------------------------------------------------------
(* Echo: its copies stay inside the buffer, for any number of users, any    *)
(* buffer size and messages of any length, as long as no two writes         *)
(* overlap; and a read from the start that no write overlaps returns the    *)
(* message that the accepted writes made up, then its NUL.                  *)

Calls == {"none", "amount", "move", "terminate", "read"}

EchoTypeOK ==
  /\ len \in 0..BufferSize
  /\ offset \in [Users -> Nat] /\ amt \in [Users -> Nat]
  /\ call \in [Users -> Calls]
  /\ data \in [Users -> Seq(Nat)]
  /\ mingled \in BOOLEAN

(* Until two writes have overlapped there is one writer at most, ...        *)
OneWriter == ~mingled => \A u, v \in Users : Writing(u) /\ Writing(v) => u = v

(* ... whose offset is still the length that echo_write compared it with.   *)
OffsetIsLength == ~mingled => \A u \in Users : call[u] = "amount" => offset[u] = len

(* A finished copy has left the offset inside the buffer. *)
EndIsInside == \A u \in Users : call[u] = "terminate" => offset[u] <= BufferSize

EchoInv == EchoTypeOK /\ OneWriter /\ OffsetIsLength /\ EndIsInside /\ CopiesStayInside

(* Every step of a user keeps the variables in their types. *)
LEMMA EchoTypeStep == EchoTypeOK /\ EndIsInside /\ [EchoNext]_echoVars => EchoTypeOK'
<1> SUFFICES ASSUME EchoTypeOK, EndIsInside, [EchoNext]_echoVars PROVE EchoTypeOK'
  OBVIOUS
<1> USE EchoAssumption DEF EchoTypeOK, Calls
<1>1. ASSUME NEW u \in Users, NEW o \in 0..(BufferSize + 1), Seek(u, o) PROVE EchoTypeOK'
  BY <1>1 DEF Seek
<1>2. ASSUME NEW u \in Users, NEW m \in Messages, echo_write(u, m) PROVE EchoTypeOK'
  BY <1>2 DEF echo_write, CallStep
<1>3. ASSUME NEW u \in Users, write_amount(u) PROVE EchoTypeOK'
  <2>1. WriteAmount(u) \in Nat
    BY DEF WriteAmount, Smaller
  <2> QED BY <1>3, <2>1 DEF write_amount, CallStep
<1>4. ASSUME NEW u \in Users, write_uiomove(u) PROVE EchoTypeOK'
  BY <1>4 DEF write_uiomove, CallStep
<1>5. ASSUME NEW u \in Users, write_terminate(u) PROVE EchoTypeOK'
  BY <1>5 DEF write_terminate, CallStep, EndIsInside
<1>6. ASSUME NEW u \in Users, NEW resid \in Resids, echo_read(u, resid) PROVE EchoTypeOK'
  BY <1>6 DEF echo_read, CallStep, Smaller
<1>7. ASSUME NEW u \in Users, read_uiomove(u) PROVE EchoTypeOK'
  BY <1>7 DEF read_uiomove, CallStep
<1>8. ASSUME UNCHANGED echoVars PROVE EchoTypeOK'
  BY <1>8 DEF echoVars
<1> QED BY <1>1, <1>2, <1>3, <1>4, <1>5, <1>6, <1>7, <1>8 DEF EchoNext

(* Every step keeps the invariant: only a write that begins beside another  *)
(* one could disturb it, and that write sets mingled.                       *)
LEMMA EchoInvStep == EchoInv /\ [EchoNext]_echoVars => EchoInv'
<1> SUFFICES ASSUME EchoInv, [EchoNext]_echoVars PROVE EchoInv'
  OBVIOUS
<1>0. EchoTypeOK /\ EchoTypeOK'
  BY EchoTypeStep DEF EchoInv
<1> DEFINE Rest == OneWriter /\ OffsetIsLength /\ EndIsInside /\ CopiesStayInside
<1> USE <1>0, EchoAssumption DEF EchoInv, OneWriter, OffsetIsLength, EndIsInside,
        CopiesStayInside, Writing
<1>1. ASSUME NEW u \in Users, NEW o \in 0..(BufferSize + 1), Seek(u, o) PROVE Rest'
  BY <1>1 DEF Seek, EchoTypeOK
<1>2. ASSUME NEW u \in Users, NEW m \in Messages, echo_write(u, m) PROVE Rest'
  BY <1>2 DEF echo_write, CallStep, WriteAllowed, EchoTypeOK
<1>3. ASSUME NEW u \in Users, write_amount(u) PROVE Rest'
  <2>1. WriteAmount(u) \in Nat /\ WriteAmount(u) <= BufferSize - len
    BY DEF WriteAmount, Smaller, EchoTypeOK
  <2> QED BY <1>3, <2>1 DEF write_amount, CallStep, EchoTypeOK
<1>4. ASSUME NEW u \in Users, write_uiomove(u) PROVE Rest'
  <2>1. PICK k \in 0..amt[u] : offset' = [offset EXCEPT ![u] = @ + k]
    BY <1>4 DEF write_uiomove
  <2>2. offset'[u] <= BufferSize
    BY <1>4, <2>1 DEF write_uiomove, EchoTypeOK
  <2> QED BY <1>4, <2>1, <2>2 DEF write_uiomove, CallStep, EchoTypeOK
<1>5. ASSUME NEW u \in Users, write_terminate(u) PROVE Rest'
  BY <1>5 DEF write_terminate, CallStep, EchoTypeOK
<1>6. ASSUME NEW u \in Users, NEW resid \in Resids, echo_read(u, resid) PROVE Rest'
  <2>1. amt'[u] <= BufferSize + 1
    BY <1>6 DEF echo_read, Smaller, EchoTypeOK
  <2> QED BY <1>6, <2>1 DEF echo_read, CallStep, EchoTypeOK
<1>7. ASSUME NEW u \in Users, read_uiomove(u) PROVE Rest'
  <2>1. PICK k \in 0..amt[u] : offset' = [offset EXCEPT ![u] = @ + k]
    BY <1>7 DEF read_uiomove
  <2> QED BY <1>7, <2>1 DEF read_uiomove, CallStep, EchoTypeOK
<1>8. ASSUME UNCHANGED echoVars PROVE Rest'
  BY <1>8 DEF echoVars
<1> QED BY <1>1, <1>2, <1>3, <1>4, <1>5, <1>6, <1>7, <1>8 DEF EchoNext

(* Every reachable state satisfies the invariant: one writer at a time,     *)
(* where the message ends, unless two writes have overlapped (echo_write).  *)
THEOREM EchoInvariance == EchoSpec => []EchoInv
<1>1. EchoInit => EchoInv
  <2> SUFFICES ASSUME EchoInit PROVE EchoInv
    OBVIOUS
  <2>1. EchoTypeOK
    <3>1. len \in 0..BufferSize
      BY EchoAssumption DEF EchoInit
    <3>2. mingled \in BOOLEAN
      BY Zenon DEF EchoInit
    <3>3. offset \in [Users -> Nat] /\ amt \in [Users -> Nat] /\ call \in [Users -> Calls]
      BY DEF EchoInit, Calls
    <3>4. data \in [Users -> Seq(Nat)]
      BY DEF EchoInit
    <3> QED BY <3>1, <3>2, <3>3, <3>4 DEF EchoTypeOK
  <2>2. \A u \in Users : call[u] = "none"
    BY DEF EchoInit
  <2> QED BY <2>1, <2>2 DEF EchoInv, OneWriter, OffsetIsLength, EndIsInside,
        CopiesStayInside, Writing
<1>2. EchoInv /\ [EchoNext]_echoVars => EchoInv'
  BY EchoInvStep
<1> QED BY <1>1, <1>2, PTL DEF EchoSpec

(* No copy of the echo device leaves its buffer unless two writes overlap   *)
(* (the amounts that echo_read and echo_write give to uiomove).             *)
THEOREM EchoCopiesInside == EchoSpec => []CopiesStayInside
<1>1. EchoInv => CopiesStayInside
  BY DEF EchoInv
<1> QED BY <1>1, EchoInvariance, PTL
-----------------------------------------------------------------------------
(* What a read of echo returns *)

SaidTypeOK == msg \in [0..BufferSize -> Nat] /\ said \in Seq(Nat)

(* uiomove is never asked for more than the write brings.                   *)
AmountIsBrought == \A u \in Users : call[u] = "move" => amt[u] <= Len(data[u])

(* Until two writes overlap, the buffer begins with what was said, ...      *)
SaidIsStored ==
  ~mingled => /\ Len(said) <= BufferSize
              /\ \A i \in 1..Len(said) : msg[i - 1] = said[i]

(* ... a write continues it where it ends, ...                              *)
WriteContinues == ~mingled => \A u \in Users : Writing(u) => offset[u] = Len(said)

(* ... and between two writes its length and its NUL are in place.          *)
SaidIsEnded ==
  ~mingled /\ (\A u \in Users : ~Writing(u)) => len = Len(said) /\ msg[len] = NUL

(* A clean read began when nobody wrote, asks for no more than the message  *)
(* and its NUL, and nobody has written since.                               *)
CleanIsAlone ==
  \A u \in clean : /\ u \in Users /\ call[u] = "read"
                   /\ offset[u] = 0 => amt[u] <= len + 1
                   /\ \A v \in Users : ~Writing(v)

SaidInv == /\ SaidTypeOK /\ AmountIsBrought /\ SaidIsStored /\ WriteContinues
           /\ SaidIsEnded /\ CleanIsAlone

(* The first k bytes of a write, for a k within them. *)
LEMMA FirstBytes ==
  ASSUME NEW d \in Seq(Nat), NEW k \in Nat, k <= Len(d)
  PROVE  /\ SubSeq(d, 1, k) \in Seq(Nat) /\ Len(SubSeq(d, 1, k)) = k
         /\ \A i \in 1..k : SubSeq(d, 1, k)[i] = d[i]
<1>1. \A i \in 1..k : d[i] \in Nat
  BY ElementOfSeq
<1> QED BY <1>1, SubSeqProperties

(* What a message becomes with them. *)
LEMMA SaidMore ==
  ASSUME NEW s \in Seq(Nat), NEW d \in Seq(Nat), NEW k \in Nat, k <= Len(d)
  PROVE  /\ s \o SubSeq(d, 1, k) \in Seq(Nat)
         /\ Len(s \o SubSeq(d, 1, k)) = Len(s) + k
         /\ \A i \in 1..(Len(s) + k) :
              (s \o SubSeq(d, 1, k))[i] = IF i <= Len(s) THEN s[i] ELSE d[i - Len(s)]
<1> DEFINE b == SubSeq(d, 1, k)
<1>1. /\ b \in Seq(Nat) /\ Len(b) = k
      /\ \A i \in 1..k : b[i] = d[i]
  BY FirstBytes
<1>2. Len(s) \in Nat
  BY LenProperties
<1> HIDE DEF b
<1>3. /\ s \o b \in Seq(Nat) /\ Len(s \o b) = Len(s) + k
      /\ \A i \in 1..(Len(s) + k) : (s \o b)[i] = IF i <= Len(s) THEN s[i] ELSE b[i - Len(s)]
  BY <1>1, ConcatProperties
<1>4. \A i \in 1..(Len(s) + k) : ~(i <= Len(s)) => b[i - Len(s)] = d[i - Len(s)]
  BY <1>1, <1>2
<1>5. \A i \in 1..(Len(s) + k) : (s \o b)[i] = IF i <= Len(s) THEN s[i] ELSE d[i - Len(s)]
  BY <1>3, <1>4
<1> QED BY <1>3, <1>5 DEF b

(* Every step keeps it. *)
LEMMA SaidStep == EchoInv /\ SaidInv /\ [EchoNext]_echoVars => SaidInv'
<1> SUFFICES ASSUME EchoInv, SaidInv, [EchoNext]_echoVars PROVE SaidInv'
  OBVIOUS
<1>0. /\ EchoTypeOK /\ OneWriter /\ SaidTypeOK /\ Len(said) \in Nat
      /\ len \in 0..BufferSize /\ BufferSize \in Nat
      /\ \A u \in Users : offset[u] \in Nat /\ amt[u] \in Nat /\ call[u] \in Calls
      /\ call \in [Users -> Calls] /\ offset \in [Users -> Nat]
      /\ amt \in [Users -> Nat] /\ data \in [Users -> Seq(Nat)]
  BY LenProperties, EchoAssumption DEF EchoInv, SaidInv, EchoTypeOK, SaidTypeOK
<1>1. ASSUME NEW u \in Users, NEW o \in 0..(BufferSize + 1), Seek(u, o) PROVE SaidInv'
  BY <1>0, <1>1 DEF Seek, SaidInv, SaidTypeOK, AmountIsBrought, SaidIsStored, WriteContinues,
     SaidIsEnded, CleanIsAlone, Writing
<1>2. ASSUME NEW u \in Users, NEW m \in Messages, echo_write(u, m) PROVE SaidInv'
  <2>1. /\ call[u] = "none" /\ call' = [call EXCEPT ![u] = "amount"]
        /\ offset' = offset /\ amt' = amt /\ msg' = msg /\ clean' = {}
        /\ data' = [data EXCEPT ![u] = m]
    BY <1>2 DEF echo_write, CallStep
  <2>2. SaidTypeOK' /\ CleanIsAlone'
    BY <1>0, <1>2, <2>1 DEF echo_write, SaidInv, SaidTypeOK, CleanIsAlone
  <2>3. AmountIsBrought'
    BY <1>0, <2>1 DEF SaidInv, AmountIsBrought
  <2>4. Writing(u)'
    BY <1>0, <2>1 DEF Writing
  <2>5. ASSUME ~mingled'
        PROVE  /\ \A v \in Users : ~Writing(v)
               /\ \A v \in Users : Writing(v)' => v = u
               /\ \/ offset[u] = 0 /\ said' = <<>>
                  \/ ~mingled /\ said' = said /\ offset[u] = len
    BY <1>0, <1>2, <2>1, <2>5 DEF echo_write, WriteAllowed, Writing
  <2>6. SaidIsStored' /\ WriteContinues'
    <3> SUFFICES ASSUME ~mingled' PROVE SaidIsStored' /\ WriteContinues'
      BY DEF SaidIsStored, WriteContinues
    <3>1. CASE offset[u] = 0 /\ said' = <<>>
      BY <1>0, <2>1, <2>5, <3>1 DEF SaidIsStored, WriteContinues
    <3>2. CASE ~mingled /\ said' = said /\ offset[u] = len
      BY <1>0, <2>1, <2>5, <3>2 DEF SaidInv, SaidIsStored, WriteContinues, SaidIsEnded
    <3> QED BY <2>5, <3>1, <3>2
  <2> QED BY <2>2, <2>3, <2>4, <2>6 DEF SaidInv, SaidIsEnded
<1>3. ASSUME NEW u \in Users, write_amount(u) PROVE SaidInv'
  <2>1. WriteAmount(u) <= Len(data[u])
    BY <1>0, LenProperties DEF WriteAmount, Smaller
  <2>2. Writing(u) /\ \A v \in Users : Writing(v)' <=> Writing(v)
    BY <1>0, <1>3 DEF write_amount, CallStep, Writing
  <2>3. AmountIsBrought'
    BY <1>0, <1>3, <2>1 DEF write_amount, CallStep, SaidInv, AmountIsBrought
  <2> QED BY <1>0, <1>3, <2>2, <2>3 DEF write_amount, SaidInv, SaidTypeOK, SaidIsStored,
          WriteContinues, SaidIsEnded, CleanIsAlone
<1>4. ASSUME NEW u \in Users, write_uiomove(u) PROVE SaidInv'
  <2>1. /\ call[u] = "move" /\ call' = [call EXCEPT ![u] = "terminate"]
        /\ offset[u] + amt[u] <= BufferSize
        /\ amt' = [amt EXCEPT ![u] = 0] /\ data' = [data EXCEPT ![u] = <<>>]
        /\ len' = len /\ mingled' = mingled /\ clean' = clean
    BY <1>4 DEF write_uiomove, CallStep
  <2>2. PICK k \in 0..amt[u] :
          /\ msg' = [i \in 0..BufferSize |->
                       IF offset[u] <= i /\ i < offset[u] + k
                       THEN data[u][i - offset[u] + 1] ELSE msg[i]]
          /\ offset' = [offset EXCEPT ![u] = @ + k]
          /\ said' = IF mingled THEN <<>> ELSE said \o SubSeq(data[u], 1, k)
    BY <1>4 DEF write_uiomove
  <2>3. k \in Nat /\ k <= Len(data[u]) /\ data[u] \in Seq(Nat) /\ Len(data[u]) \in Nat
    BY <1>0, <2>1, LenProperties DEF SaidInv, AmountIsBrought
  <2>4. \A i \in 1..k : data[u][i] \in Nat
    BY <2>3, ElementOfSeq
  <2> DEFINE more == said \o SubSeq(data[u], 1, k)
  <2>5. /\ more \in Seq(Nat) /\ Len(more) = Len(said) + k
        /\ \A i \in 1..(Len(said) + k) :
              more[i] = IF i <= Len(said) THEN said[i] ELSE data[u][i - Len(said)]
    BY <1>0, <2>3, SaidMore DEF SaidTypeOK
  <2>6. said' = IF mingled THEN <<>> ELSE more
    BY <2>2
  <2> HIDE DEF more
  <2>7. SaidTypeOK'
    <3>1. \A i \in 0..BufferSize :
            (IF offset[u] <= i /\ i < offset[u] + k
             THEN data[u][i - offset[u] + 1] ELSE msg[i]) \in Nat
      BY <1>0, <2>3, <2>4 DEF SaidTypeOK
    <3>2. msg' \in [0..BufferSize -> Nat]
      BY <2>2, <3>1
    <3>3. said' \in Seq(Nat)
      BY <2>5, <2>6
    <3> QED BY <3>2, <3>3 DEF SaidTypeOK
  <2>8. AmountIsBrought'
    BY <1>0, <2>1 DEF SaidInv, AmountIsBrought
  <2>9. Writing(u) /\ \A v \in Users : Writing(v)' <=> Writing(v)
    BY <1>0, <2>1 DEF Writing
  <2>10. CleanIsAlone' /\ SaidIsEnded'
    BY <2>1, <2>9 DEF SaidInv, CleanIsAlone, SaidIsEnded
  <2>11. ASSUME ~mingled' PROVE SaidIsStored' /\ WriteContinues'
    <3>1. ~mingled /\ offset[u] = Len(said) /\ said' = more
      BY <2>1, <2>6, <2>9, <2>11 DEF SaidInv, WriteContinues
    <3>2. \A i \in 1..(Len(said) + k) : msg'[i - 1] = more[i]
      <4> SUFFICES ASSUME NEW i \in 1..(Len(said) + k) PROVE msg'[i - 1] = more[i]
        OBVIOUS
      <4>0. i \in Int /\ i - 1 \in 0..BufferSize
        BY <1>0, <2>1, <2>3, <3>1
      <4>1. CASE i <= Len(said)
        BY <1>0, <2>2, <2>5, <3>1, <4>0, <4>1 DEF SaidInv, SaidIsStored
      <4>2. CASE ~(i <= Len(said))
        <5>1. /\ offset[u] <= i - 1 /\ i - 1 < offset[u] + k
              /\ (i - 1) - offset[u] + 1 = i - Len(said)
          BY <1>0, <2>3, <3>1, <4>0, <4>2
        <5>2. msg'[i - 1] = data[u][(i - 1) - offset[u] + 1]
          BY <2>2, <4>0, <5>1
        <5> QED BY <2>5, <4>2, <5>1, <5>2
      <4> QED BY <4>1, <4>2
    <3>3. SaidIsStored'
      BY <1>0, <2>1, <2>5, <3>1, <3>2 DEF SaidIsStored
    <3>4. \A v \in Users : Writing(v)' => v = u
      BY <2>9, <3>1, <1>0 DEF OneWriter
    <3> QED BY <1>0, <2>2, <2>5, <3>1, <3>3, <3>4 DEF WriteContinues
  <2>12. SaidIsStored' /\ WriteContinues'
    BY <2>11 DEF SaidIsStored, WriteContinues
  <2> QED BY <2>7, <2>8, <2>10, <2>12 DEF SaidInv
<1>5. ASSUME NEW u \in Users, write_terminate(u) PROVE SaidInv'
  <2>1. /\ call[u] = "terminate" /\ call' = [call EXCEPT ![u] = "none"]
        /\ len' = offset[u] /\ msg' = [msg EXCEPT ![offset[u]] = NUL]
        /\ offset' = offset /\ data' = data /\ amt' = amt /\ said' = said
        /\ mingled' = mingled /\ clean' = clean
    BY <1>5 DEF write_terminate, CallStep, Terminated
  <2>2. Writing(u) /\ \A v \in Users : Writing(v)' => Writing(v) /\ v # u
    BY <1>0, <2>1 DEF Writing
  <2>3. offset[u] \in 0..BufferSize
    BY <1>0, <2>1 DEF EchoInv, EndIsInside
  <2>4. SaidTypeOK'
    BY <1>0, <2>1, <2>3 DEF SaidTypeOK, NUL
  <2>5. AmountIsBrought' /\ CleanIsAlone' /\ WriteContinues'
    BY <1>0, <2>1, <2>2 DEF SaidInv, AmountIsBrought, CleanIsAlone, WriteContinues
  <2>6. ASSUME ~mingled PROVE SaidIsStored' /\ SaidIsEnded'
    <3>1. offset[u] = Len(said)
      BY <2>2, <2>6 DEF SaidInv, WriteContinues
    <3>2. msg'[offset[u]] = NUL /\ \A i \in 0..BufferSize : i # offset[u] => msg'[i] = msg[i]
      BY <1>0, <2>1, <2>3 DEF SaidTypeOK
    <3>3. \A i \in 1..Len(said) : i - 1 \in 0..BufferSize /\ i - 1 # offset[u]
      BY <1>0, <2>3, <3>1
    <3> QED BY <1>0, <2>1, <2>6, <3>1, <3>2, <3>3 DEF SaidInv, SaidIsStored, SaidIsEnded
  <2>7. SaidIsStored' /\ SaidIsEnded'
    BY <2>1, <2>6 DEF SaidIsStored, SaidIsEnded
  <2> QED BY <2>4, <2>5, <2>7 DEF SaidInv
<1>6. ASSUME NEW u \in Users, NEW resid \in Resids, echo_read(u, resid) PROVE SaidInv'
  <2>1. \A v \in Users : Writing(v)' <=> Writing(v)
    BY <1>0, <1>6 DEF echo_read, CallStep, Writing
  <2>2. offset[u] = 0 => amt'[u] <= len + 1
    BY <1>0, <1>6, EchoAssumption DEF echo_read, Smaller
  <2>3. CleanIsAlone'
    BY <1>0, <1>6, <2>1, <2>2 DEF echo_read, CallStep, SaidInv, CleanIsAlone
  <2>4. AmountIsBrought'
    BY <1>0, <1>6 DEF echo_read, CallStep, SaidInv, AmountIsBrought
  <2> QED BY <1>0, <1>6, <2>1, <2>3, <2>4 DEF echo_read, SaidInv, SaidTypeOK, SaidIsStored,
          WriteContinues, SaidIsEnded
<1>7. ASSUME NEW u \in Users, read_uiomove(u) PROVE SaidInv'
  <2>1. \A v \in Users : Writing(v)' <=> Writing(v)
    BY <1>0, <1>7 DEF read_uiomove, CallStep, Writing
  <2>2. PICK k \in 0..amt[u] : offset' = [offset EXCEPT ![u] = @ + k]
    BY <1>7 DEF read_uiomove
  <2>3. AmountIsBrought' /\ CleanIsAlone' /\ WriteContinues'
    BY <1>0, <1>7, <2>1, <2>2 DEF read_uiomove, CallStep, SaidInv, AmountIsBrought,
       CleanIsAlone, WriteContinues, Writing
  <2> QED BY <1>0, <1>7, <2>1, <2>3 DEF read_uiomove, SaidInv, SaidTypeOK, SaidIsStored, SaidIsEnded
<1>8. ASSUME UNCHANGED echoVars PROVE SaidInv'
  BY <1>8 DEF echoVars, SaidInv, SaidTypeOK, AmountIsBrought, SaidIsStored, WriteContinues,
     SaidIsEnded, CleanIsAlone, Writing
<1> QED BY <1>1, <1>2, <1>3, <1>4, <1>5, <1>6, <1>7, <1>8 DEF EchoNext

(* A clean read from the start copies the message and then its NUL. *)
LEMMA CleanRead ==
  ASSUME EchoInv, SaidInv, NEW u \in Users, read_uiomove(u), u \in clean, ~mingled,
         offset[u] = 0, NEW i \in 1..offset'[u]
  PROVE  msg[i - 1] = Append(said, NUL)[i]
<1>1. /\ said \in Seq(Nat) /\ Len(said) \in Nat /\ NUL \in Nat
      /\ offset \in [Users -> Nat] /\ amt[u] \in Nat
  BY LenProperties DEF EchoInv, EchoTypeOK, SaidInv, SaidTypeOK, NUL
<1>2. PICK k \in 0..amt[u] : offset' = [offset EXCEPT ![u] = @ + k]
  BY DEF read_uiomove
<1>3. amt[u] <= len + 1 /\ len = Len(said) /\ msg[len] = NUL
  BY DEF SaidInv, CleanIsAlone, SaidIsEnded
<1>4. i \in 1..(Len(said) + 1)
  BY <1>1, <1>2, <1>3
<1>5. /\ \A j \in 1..Len(said) : Append(said, NUL)[j] = said[j]
      /\ Append(said, NUL)[Len(said) + 1] = NUL
  BY <1>1, AppendProperties
<1>6. \A j \in 1..Len(said) : msg[j - 1] = said[j]
  BY DEF SaidInv, SaidIsStored
<1>7. CASE i \in 1..Len(said)
  BY <1>5, <1>6, <1>7
<1>8. CASE i = Len(said) + 1
  BY <1>1, <1>3, <1>5, <1>8
<1> QED BY <1>1, <1>4, <1>7, <1>8

(* A read from the start that no write overlaps returns the accepted        *)
(* message and its NUL (echo_read, echo_write), for any number of users,    *)
(* any buffer size and messages, after any faults, refusals and seeks.      *)
THEOREM ReadsAccepted == EchoSpec => ReadsWhatWasSaid
<1> DEFINE Reads == \A u \in Users :
                      read_uiomove(u) /\ u \in clean /\ ~mingled /\ offset[u] = 0 =>
                        \A i \in 1..offset'[u] : msg[i - 1] = Append(said, NUL)[i]
<1>1. EchoInit => SaidInv
  <2> SUFFICES ASSUME EchoInit PROVE SaidInv
    OBVIOUS
  <2>1. msg = [i \in 0..BufferSize |-> 0] /\ len = 0 /\ said = <<>> /\ clean = {}
    BY DEF EchoInit, NUL
  <2>2. \A u \in Users : call[u] = "none"
    BY DEF EchoInit
  <2>3. SaidTypeOK /\ Len(said) = 0 /\ msg[0] = 0
    BY <2>1, EmptySeq, EchoAssumption DEF SaidTypeOK
  <2> QED BY <2>1, <2>2, <2>3, EchoAssumption DEF SaidInv, AmountIsBrought, SaidIsStored,
          WriteContinues, SaidIsEnded, CleanIsAlone, Writing, NUL
<1>2. EchoInv /\ SaidInv /\ [EchoNext]_echoVars => SaidInv'
  BY SaidStep
<1>3. EchoInv /\ SaidInv /\ [EchoNext]_echoVars => [Reads]_echoVars
  BY CleanRead
<1> QED BY <1>1, <1>2, <1>3, EchoInvariance, PTL DEF EchoSpec, ReadsWhatWasSaid
=============================================================================
