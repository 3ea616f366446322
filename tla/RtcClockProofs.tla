--------------------------- MODULE RtcClockProofs ---------------------------
(***************************************************************************)
(* Proofs about RtcClock, for every calendar, every set of times and       *)
(* alarms, and any interleaving of ticks with the calls.                   *)
(***************************************************************************)
EXTENDS RtcClock, TLAPS

Ops == {"none", "gettime", "settime", "setalarm", "return"}
AlarmBits == {"ALM", "sec", "hour"}  \* what RTCALM ever enables

Calls == [op : Ops, i : 0..7, tm : [Fields -> Int], bits : SUBSET AlarmBits,
          retried : BOOLEAN]

TypeOK ==
  /\ reg \in [Fields -> Int] /\ alm \in [AlarmFields -> Int]
  /\ en \in SUBSET AlarmBits /\ wake \in Nat /\ af \in BOOLEAN
  /\ call \in Calls
  /\ ticks \in Nat
-----------------------------------------------------------------------------
(* BCD and the order of the fields *)

LEMMA BcdType == \A n \in Int : bin2bcd(n) \in Int /\ bcd2bin(n) \in Int
  BY DEF bin2bcd, bcd2bin

LEMMA BcdInverse == \A n \in 0..99 : bcd2bin(bin2bcd(n)) = n
  BY DEF bin2bcd, bcd2bin

LEMMA BcdInjective == \A m, n \in Int : bin2bcd(m) = bin2bcd(n) => m = n
  BY DEF bin2bcd

LEMMA BcdSmall == bin2bcd(0) = 0 /\ bin2bcd(1) = 1 /\ bin2bcd(bcd2bin(0) + 1) = 1
  BY DEF bin2bcd, bcd2bin

LEMMA FieldSet == Fields = {"sec", "min", "hour", "mday", "mon", "year"}
  BY DEF Fields, WriteOrder

LEMMA LastType == ASSUME NEW f \in Fields PROVE Last[f] \in 0..99 /\ First(f) \in Int
  BY RtcAssumption DEF First

(* The seconds are the first field to be written and the last to be read.   *)
LEMMA Orders ==
  /\ \A j \in 1..6 : WriteOrder[j] \in Fields /\ (WriteOrder[j] = "sec" <=> j = 1)
  /\ \A f \in Fields : \E j \in 1..6 : WriteOrder[j] = f
  /\ \A j \in 1..6 : ReadOrder[j] \in Fields /\ (ReadOrder[j] = "sec" <=> j = 6)
  /\ \A f \in Fields : \E j \in 1..6 : ReadOrder[j] = f
<1>1. \A j \in 1..6 : WriteOrder[j] \in Fields /\ (WriteOrder[j] = "sec" <=> j = 1)
  BY FieldSet DEF WriteOrder
<1>2. \A f \in Fields : \E j \in 1..6 : WriteOrder[j] = f
  BY DEF Fields
<1>3. \A j \in 1..6 : ReadOrder[j] \in Fields /\ (ReadOrder[j] = "sec" <=> j = 6)
  BY FieldSet DEF ReadOrder
<1>4. \A f \in Fields : \E j \in 1..6 : ReadOrder[j] = f
  BY FieldSet DEF ReadOrder
<1> QED BY <1>1, <1>2, <1>3, <1>4

LEMMA OrdersDistinct ==
  /\ \A j, k \in 1..6 : WriteOrder[j] = WriteOrder[k] => j = k
  /\ \A j, k \in 1..6 : ReadOrder[j] = ReadOrder[k] => j = k
  BY DEF WriteOrder, ReadOrder

(* A tick changes another field than the seconds only together with them,   *)
(* when they go back to 0.                                                  *)
LEMMA AdvancedValue ==
  ASSUME NEW r \in [Fields -> Int]
  PROVE  /\ Advanced(r) \in [Fields -> Int]
         /\ Advanced(r)["sec"] = IF r["sec"] = bin2bcd(Last["sec"]) THEN 0
                                 ELSE bin2bcd(bcd2bin(r["sec"]) + 1)
         /\ r["sec"] # bin2bcd(Last["sec"]) =>
              \A f \in Fields \ {"sec"} : Advanced(r)[f] = r[f]
<1> DEFINE k(f) == CHOOSE j \in 1..6 : WriteOrder[j] = f
           Later(f) == IF r[f] = bin2bcd(Last[f]) THEN bin2bcd(First(f))
                                                  ELSE bin2bcd(bcd2bin(r[f]) + 1)
           Held(f) == \E j \in 1..(k(f) - 1) : r[WriteOrder[j]] # bin2bcd(Last[WriteOrder[j]])
<1>1. \A f \in Fields : k(f) \in 1..6 /\ WriteOrder[k(f)] = f
  BY Orders
<1>2. Advanced(r) = [f \in Fields |-> IF Held(f) THEN r[f] ELSE Later(f)]
  BY DEF Advanced
<1> HIDE DEF k
<1>3. \A f \in Fields : Later(f) \in Int
  <2> TAKE f \in Fields
  <2>1. r[f] \in Int /\ bcd2bin(r[f]) \in Int /\ First(f) \in Int
    BY BcdType, LastType
  <2> QED BY <2>1, BcdType
<1>4. k("sec") = 1 /\ "sec" \in Fields
  BY <1>1, FieldSet, Orders
<1>5. ~Held("sec")
  BY <1>4
<1>6. Later("sec") = IF r["sec"] = bin2bcd(Last["sec"]) THEN 0
                     ELSE bin2bcd(bcd2bin(r["sec"]) + 1)
  BY BcdSmall DEF First
<1>7. ASSUME r["sec"] # bin2bcd(Last["sec"]), NEW f \in Fields \ {"sec"} PROVE Held(f)
  <2>1. k(f) \in 2..6
    BY <1>1, Orders
  <2>2. WriteOrder[1] = "sec" /\ 1 \in 1..(k(f) - 1)
    BY <2>1, Orders
  <2> QED BY <1>7, <2>2
<1> HIDE DEF Later, Held
<1> QED BY <1>2, <1>3, <1>4, <1>5, <1>6, <1>7
-----------------------------------------------------------------------------
(* Types *)

LEMMA CallUpdate ==
  /\ \A c \in Calls, n \in 0..7 : [c EXCEPT !.i = n] \in Calls
  /\ \A c \in Calls, n \in 0..7, t \in [Fields -> Int] : [c EXCEPT !.tm = t, !.i = n] \in Calls
  /\ \A c \in Calls, n \in 0..7 : [c EXCEPT !.i = n, !.retried = TRUE] \in Calls
  /\ \A c \in Calls, o \in Ops, t \in [Fields -> Int] : [c EXCEPT !.op = o, !.tm = t] \in Calls
  /\ \A c \in Calls, n \in 0..7, b \in SUBSET AlarmBits : [c EXCEPT !.i = n, !.bits = b] \in Calls
  /\ \A c \in Calls, o \in Ops, n \in 0..7, t \in [Fields -> Int] :
       [c EXCEPT !.op = o, !.i = n, !.tm = t] \in Calls
  BY DEF Calls

LEMMA IdleType == Idle \in Calls
<1>1. NoTime \in [Fields -> Int]
  BY DEF NoTime
<1>2. FALSE \in BOOLEAN /\ {} \in SUBSET AlarmBits /\ "none" \in Ops
  BY Zenon DEF Ops
<1> QED BY <1>1, <1>2 DEF Idle, Calls

LEMMA TypeInit == Init => TypeOK
<1> SUFFICES ASSUME Init PROVE TypeOK
  OBVIOUS
<1>1. reg \in [Fields -> Int]
  <2>1. \A f \in Fields : Bcd(f) \subseteq Int
    BY LastType, BcdType DEF Bcd, Valid
  <2>2. reg \in Registers
    BY DEF Init
  <2> QED BY <2>1, <2>2, FieldSet DEF Registers
<1>2. alm \in [AlarmFields -> Int]
  <2>1. \A f \in AlarmFields : Boot[f] \in Int
    BY LastType, FieldSet DEF AlarmFields, Boot
  <2> QED BY <2>1, BcdType DEF Init
<1>3. en \in SUBSET AlarmBits
  BY DEF Init, AlarmBits
<1>4. af \in BOOLEAN
  BY Zenon DEF Init
<1> QED BY <1>1, <1>2, <1>3, <1>4, IdleType DEF Init, TypeOK

LEMMA BeginType ==
  ASSUME TypeOK, NEW op \in Ops, NEW tm \in [Fields -> Int], Begin(op, tm)
  PROVE  call' \in Calls /\ ticks' \in Nat
<1>1. Idle \in Calls /\ 1 \in 0..7
  BY IdleType
<1>2. call' = [Idle EXCEPT !.op = op, !.i = 1, !.tm = tm]
  BY DEF Begin
<1>3. call' \in Calls
  BY <1>1, <1>2, CallUpdate, Zenon
<1> QED BY <1>3 DEF Begin

LEMMA TypeStep == TypeOK /\ [Next]_vars => TypeOK'
<1> SUFFICES ASSUME TypeOK, [Next]_vars PROVE TypeOK'
  OBVIOUS
<1>0. /\ call \in Calls /\ call.i \in 0..7 /\ call.tm \in [Fields -> Int]
      /\ call.bits \in SUBSET AlarmBits /\ call.retried \in BOOLEAN /\ call.op \in Ops
  BY DEF TypeOK, Calls
<1> USE DEF TypeOK, historyVars, alarmVars
<1>1. CASE Tick
  <2>1. reg' \in [Fields -> Int]
    BY <1>1, AdvancedValue DEF Tick
  <2>2. af' \in BOOLEAN
    BY <1>1, Zenon DEF Tick, Rings
  <2> QED BY <1>1, <2>1, <2>2 DEF Tick
<1>2. CASE ReadEvent
  BY <1>2 DEF ReadEvent
<1>3. CASE Return
  BY <1>3, IdleType DEF Return, End
<1>4. CASE GetTime
  <2>1. NoTime \in [Fields -> Int] /\ "gettime" \in Ops
    BY DEF NoTime, Ops
  <2> QED BY <1>4, <2>1, BeginType DEF GetTime
<1>5. CASE ReadField
  <2> DEFINE f == ReadOrder[call.i]
  <2>1. call.i \in 0..6
    BY <1>0, <1>5 DEF ReadField
  <2>2. call' = [call EXCEPT !.tm = [call.tm EXCEPT ![f] = reg[f]], !.i = call.i + 1]
    BY <1>0, <1>5 DEF ReadField, Calls
  <2>3. CASE f \in Fields
    <3>1. [call.tm EXCEPT ![f] = reg[f]] \in [Fields -> Int]
      BY <1>0, <2>3
    <3>2. call.i + 1 \in 0..7
      BY <2>1
    <3>3. call' \in Calls
      BY <1>0, <2>2, <3>1, <3>2, CallUpdate, Zenon
    <3> QED BY <1>5, <3>3 DEF ReadField
  <2>4. CASE f \notin Fields
    <3>1. [call.tm EXCEPT ![f] = reg[f]] \in [Fields -> Int]
      BY <1>0, <2>4
    <3>2. call.i + 1 \in 0..7
      BY <2>1
    <3>3. call' \in Calls
      BY <1>0, <2>2, <3>1, <3>2, CallUpdate, Zenon
    <3> QED BY <1>5, <3>3 DEF ReadField
  <2> QED BY <2>3, <2>4
<1>6. CASE ScanAgain
  <2>1. call' \in Calls
    <3>1. 1 \in 0..7
      OBVIOUS
    <3> QED BY <1>0, <1>6, <3>1, CallUpdate, Zenon DEF ScanAgain
  <2> QED BY <1>6, <2>1 DEF ScanAgain
<1>7. CASE GotTime
  <2>1. FromRegisters(call.tm) \in [Fields -> Int]
    BY <1>0, BcdType DEF FromRegisters, Offset
  <2>2. call' \in Calls
    BY <1>0, <1>7, <2>1, CallUpdate DEF GotTime, Ops
  <2> QED BY <1>7, <2>2 DEF GotTime
<1>8. CASE SetTime
  <2>1. PICK tm \in Times : Begin("settime", tm) /\ UNCHANGED <<reg, alarmVars>>
    BY <1>8 DEF SetTime
  <2>2. tm \in [Fields -> Int] /\ "settime" \in Ops
    BY RtcAssumption, FieldSet DEF Ops
  <2> QED BY <2>1, <2>2, BeginType
<1>9. CASE SetTimeRefused
  BY <1>9, IdleType DEF SetTimeRefused, End
<1>10. CASE WriteField
  <2> DEFINE f == SetOrder[call.i]
  <2>1. reg' \in [Fields -> Int]
    <3>1. reg' = [reg EXCEPT ![f] = bin2bcd(ToField(f, call.tm[f]))]
      BY <1>10 DEF WriteField
    <3>2. CASE f \in Fields
      <4>1. call.tm[f] \in Int /\ ToField(f, call.tm[f]) \in Int
        BY <1>0, <3>2 DEF ToField, Offset
      <4> QED BY <3>1, <3>2, <4>1, BcdType
    <3> QED BY <3>1, <3>2
  <2>2. CASE call.i = 6
    BY <1>10, <2>1, <2>2, IdleType DEF WriteField, End
  <2>3. CASE call.i # 6
    <3>1. call.i + 1 \in 0..7 /\ call' = [call EXCEPT !.i = call.i + 1]
      BY <1>0, <1>10, <2>3 DEF WriteField
    <3>2. call' \in Calls
      BY <1>0, <3>1, CallUpdate
    <3> QED BY <1>10, <2>1, <2>3, <3>2 DEF WriteField
  <2> QED BY <2>2, <2>3
<1>11. CASE SetAlarm
  <2>1. PICK a \in Alarms :
          /\ Begin("setalarm", [f \in Fields |-> IF f \in AlarmFields THEN a[f] ELSE 0])
          /\ UNCHANGED <<reg, alm, en, af, wake, old>>
    BY <1>11 DEF SetAlarm
  <2>2. \A f \in AlarmFields : a[f] \in Int
    BY RtcAssumption DEF AlarmFields
  <2>3. /\ [f \in Fields |-> IF f \in AlarmFields THEN a[f] ELSE 0] \in [Fields -> Int]
        /\ "setalarm" \in Ops
    BY <2>2 DEF Ops
  <2> QED BY <2>1, <2>3, BeginType
<1>12. CASE ClearAlarm
  <2>1. call' \in Calls
    <3>1. 2 \in 0..7 /\ en \cap {"ALM"} \in SUBSET AlarmBits
      BY DEF AlarmBits
    <3> QED BY <1>0, <1>12, <3>1, CallUpdate, Zenon DEF ClearAlarm
  <2> QED BY <1>12, <2>1 DEF ClearAlarm, Cleared
<1>13. CASE WriteAlarmField
  <2>1. PICK i \in 2..4 :
          /\ LET f == WriteOrder[i - 1]
             IN  IF call.tm[f] \in 0..Last[f]
                 THEN /\ alm' = [alm EXCEPT ![f] = bin2bcd(call.tm[Source(f)])]
                      /\ call' = [call EXCEPT !.i = i + 1, !.bits = @ \cup {Source(f)}]
                 ELSE call' = [call EXCEPT !.i = i + 1] /\ UNCHANGED alm
          /\ UNCHANGED <<reg, en, af, wake, old, new, asked, historyVars>>
    BY <1>13 DEF WriteAlarmField
  <2> DEFINE f == WriteOrder[i - 1]
  <2>2. f \in AlarmFields /\ Source(f) \in {"sec", "hour"} /\ Source(f) \in Fields
    BY FieldSet DEF WriteOrder, AlarmFields, Source
  <2>3. call.bits \cup {Source(f)} \in SUBSET AlarmBits
    BY <1>0, <2>2 DEF AlarmBits
  <2>4. call' \in Calls
    <3>1. i + 1 \in 0..7
      OBVIOUS
    <3> DEFINE b == call.bits \cup {Source(f)}
    <3>2. \/ call' = [call EXCEPT !.i = i + 1, !.bits = b]
          \/ call' = [call EXCEPT !.i = i + 1]
      BY <2>1
    <3>3. b \in SUBSET AlarmBits
      BY <2>3
    <3> HIDE DEF b, f
    <3>4. CASE call' = [call EXCEPT !.i = i + 1, !.bits = b]
      BY <1>0, <3>1, <3>3, <3>4, CallUpdate, Zenon
    <3>5. CASE call' = [call EXCEPT !.i = i + 1]
      BY <1>0, <3>1, <3>5, CallUpdate, Zenon
    <3> QED BY <3>2, <3>4, <3>5
  <2>5. alm' \in [AlarmFields -> Int]
    <3>1. bin2bcd(call.tm[Source(f)]) \in Int
      BY <1>0, <2>2, BcdType
    <3> HIDE DEF f
    <3>2. [alm EXCEPT ![f] = bin2bcd(call.tm[Source(f)])] \in [AlarmFields -> Int]
      BY <2>2, <3>1
    <3> QED BY <2>1, <3>2 DEF f
  <2> QED BY <2>1, <2>4, <2>5
<1>14. CASE WriteEnables
  <2>1. call' \in Calls
    BY <1>0, <1>14 DEF WriteEnables, Calls
  <2> QED BY <1>0, <1>14, <2>1 DEF WriteEnables
<1>15. CASE SetAie
  <2>1. call' \in Calls
    BY <1>0, <1>15 DEF SetAie, Calls
  <2> QED BY <1>15, <2>1 DEF SetAie, WithAie, AlarmBits
<1>16. CASE SetWake
  BY <1>16, IdleType DEF SetWake, End, WakeDepth
<1>17. CASE UNCHANGED vars
  BY <1>17 DEF vars
<1> QED
  BY <1>1, <1>2, <1>3, <1>4, <1>5, <1>6, <1>7, <1>8, <1>9, <1>10, <1>11, <1>12, <1>13,
     <1>14, <1>15, <1>16, <1>17 DEF Next, GetTimeStep, SetTimeStep, SetAlarmStep
-----------------------------------------------------------------------------
(* rtc_gettime *)

(* What the retry relies on: one tick at most while the registers are read, *)
(* and a minute that is longer than the retry.                              *)
RetryIsQuick == TicksPerScan <= 1 /\ Last["sec"] >= 2

(* The registers read so far still show what was read. *)
Fresh == \A j \in 1..6 : j < call.i => call.tm[ReadOrder[j]] = reg[ReadOrder[j]]

(* A tick may have made the fields read so far stale, but only by taking    *)
(* the seconds, which are read last, to 0: the fields are then read again,  *)
(* and the second time no tick can do that.                                 *)
ReadingInv ==
  Busy("gettime") =>
    /\ reg \in seen /\ call.i >= 1 /\ ticks \in {0, 1}
    /\ call.i <= 6 /\ ~call.retried => Fresh \/ (ticks = 1 /\ reg["sec"] = 0)
    /\ call.i <= 6 /\ call.retried =>
         Fresh /\ (ticks = 1 \/ (ticks = 0 /\ reg["sec"] \in {0, 1}))
    /\ call.i = 7 => call.tm \in seen \/ (call.tm["sec"] = 0 /\ ~call.retried)
    /\ call.i = 7 /\ ~call.retried /\ call.tm["sec"] = 0 =>
         reg["sec"] = 0 \/ (ticks = 1 /\ reg["sec"] = 1)

GetInv == ReadingInv /\ GetTimeTrue

(* The fields of the call after the steps that change them. *)
LEMMA BeginCall ==
  ASSUME NEW op, NEW tm, Begin(op, tm)
  PROVE  /\ Busy("none") /\ call'.op = op /\ call'.i = 1 /\ call'.tm = tm /\ call'.bits = {}
         /\ ~call'.retried /\ ticks' = 0
  BY DEF Begin, Idle, Busy

LEMMA EndCall == ASSUME End PROVE call'.op = "none"
  BY DEF End, Idle

(* Only the last seconds of a minute let a tick change another field. *)
LEMMA TickKeeps ==
  ASSUME TypeOK, Tick, "sec" \in Fields
  PROVE  \/ reg["sec"] = bin2bcd(Last["sec"]) /\ reg'["sec"] = 0
         \/ /\ reg["sec"] # bin2bcd(Last["sec"])
            /\ reg'["sec"] = bin2bcd(bcd2bin(reg["sec"]) + 1)
            /\ \A f \in Fields \ {"sec"} : reg'[f] = reg[f]
  BY AdvancedValue DEF Tick, TypeOK

LEMMA GetTick == ASSUME RetryIsQuick, TypeOK, GetInv, Tick PROVE GetInv'
<1>1. GetTimeTrue'
  BY DEF GetInv, GetTimeTrue, Tick, Busy
<1>2. SUFFICES ASSUME Busy("gettime") PROVE ReadingInv'
  BY <1>1 DEF GetInv, ReadingInv, Busy, Tick
<1>3. /\ call' = call /\ call.op = "gettime" /\ seen' = seen \cup {reg'} /\ call.i \in 1..7
      /\ ticks = 0 /\ ticks' = 1
  BY <1>2, RtcAssumption DEF Tick, Busy, Scanning, RetryIsQuick, GetInv, ReadingInv, TypeOK, Calls
<1>4. "sec" \in Fields /\ reg["sec"] \in Int
  BY FieldSet DEF TypeOK
<1>5. bin2bcd(Last["sec"]) \notin {0, 1}
  <2>1. Last["sec"] \in Int /\ Last["sec"] >= 2
    BY <1>4, LastType DEF RetryIsQuick
  <2> QED BY <2>1, BcdSmall, BcdInjective
<1>6. ASSUME reg["sec"] # bin2bcd(Last["sec"]), Fresh, call.i <= 6 PROVE Fresh'
  <2>1. \A j \in 1..6 : j < call.i => ReadOrder[j] \in Fields \ {"sec"}
    BY <1>3, <1>6, Orders
  <2>2. \A f \in Fields \ {"sec"} : reg'[f] = reg[f]
    BY <1>4, <1>6, TickKeeps
  <2> QED BY <1>3, <1>6, <2>1, <2>2 DEF Fresh
<1>7. call.i <= 6 /\ ~call.retried => Fresh' \/ reg'["sec"] = 0
  BY <1>2, <1>3, <1>4, <1>6, TickKeeps DEF GetInv, ReadingInv
<1>8. call.i <= 6 /\ call.retried => Fresh'
  BY <1>2, <1>3, <1>5, <1>6 DEF GetInv, ReadingInv
<1>9. call.i = 7 /\ ~call.retried /\ call.tm["sec"] = 0 => reg'["sec"] = 1
  <2>1. call.i = 7 /\ ~call.retried /\ call.tm["sec"] = 0 => reg["sec"] = 0
    BY <1>2, <1>3 DEF GetInv, ReadingInv
  <2> QED BY <2>1, <1>4, <1>5, TickKeeps, BcdSmall
<1> QED BY <1>2, <1>3, <1>7, <1>8, <1>9 DEF GetInv, ReadingInv, Busy

LEMMA GetRead == ASSUME TypeOK, GetInv, ReadField PROVE GetInv'
<1> DEFINE f == ReadOrder[call.i]
<1>1. /\ Busy("gettime") /\ call.op = "gettime" /\ call.i \in 1..6 /\ UNCHANGED <<reg, seen, ticks>>
      /\ call \in Calls /\ call.tm \in [Fields -> Int] /\ reg \in [Fields -> Int]
  BY DEF ReadField, Busy, GetInv, ReadingInv, TypeOK, Calls, historyVars
<1>2. f \in Fields
  BY <1>1, Orders
<1>3. /\ call'.op = "gettime" /\ call'.i = call.i + 1 /\ call'.retried = call.retried
      /\ call'.tm = [call.tm EXCEPT ![f] = reg[f]]
  BY <1>1 DEF ReadField, Calls
<1>4. ASSUME Fresh PROVE \A j \in 1..6 : j < call.i + 1 => call'.tm[ReadOrder[j]] = reg[ReadOrder[j]]
  <2> TAKE j \in 1..6
  <2>1. CASE j = call.i
    BY <1>1, <1>2, <1>3, <2>1
  <2>2. CASE j < call.i
    <3>1. ReadOrder[j] # f /\ ReadOrder[j] \in Fields
      BY <1>1, <2>2, Orders, OrdersDistinct
    <3>2. call.tm[ReadOrder[j]] = reg[ReadOrder[j]]
      BY <1>4, <2>2 DEF Fresh
    <3> QED BY <1>1, <1>3, <3>1, <3>2
  <2> QED BY <1>1, <2>1, <2>2
<1>5. CASE call.i < 6
  <2>1. Fresh => Fresh'
    BY <1>1, <1>3, <1>4 DEF Fresh
  <2> QED BY <1>1, <1>3, <1>5, <2>1 DEF GetInv, ReadingInv, GetTimeTrue, Busy
<1>6. CASE call.i = 6
  <2>1. f = "sec"
    BY <1>6, Orders
  <2>2. call'.tm["sec"] = reg["sec"]
    BY <1>1, <1>2, <1>3, <2>1
  <2>3. ASSUME Fresh PROVE call'.tm = reg
    <3>1. \A g \in Fields : call'.tm[g] = reg[g]
      BY <1>4, <1>6, <2>3, Orders
    <3>2. call'.tm \in [Fields -> Int]
      BY <1>1, <1>2, <1>3
    <3> QED BY <1>1, <3>1, <3>2
  <2>4. call.retried => Fresh
    BY <1>1, <1>6 DEF GetInv, ReadingInv
  <2>5. ~call.retried => Fresh \/ reg["sec"] = 0
    BY <1>1, <1>6 DEF GetInv, ReadingInv
  <2>6. reg \in seen /\ ticks \in {0, 1}
    BY <1>1 DEF GetInv, ReadingInv
  <2>7. call'.i = 7
    BY <1>3, <1>6
  <2> QED BY <1>1, <1>3, <2>2, <2>3, <2>4, <2>5, <2>6, <2>7 DEF GetInv, ReadingInv, GetTimeTrue, Busy
<1> QED BY <1>1, <1>5, <1>6

LEMMA GetStep == ASSUME RetryIsQuick, TypeOK, GetInv, [Next]_vars PROVE GetInv'
<1>0. call \in Calls /\ call.i \in 0..7
  BY DEF TypeOK, Calls
<1>1. CASE Tick
  BY <1>1, GetTick
<1>2. CASE ReadField
  BY <1>2, GetRead
<1>3. CASE ScanAgain
  <2>1. /\ call.op = "gettime" /\ call.i = 7 /\ call.tm["sec"] = 0 /\ ~call.retried
        /\ UNCHANGED <<reg, seen>> /\ ticks' = 0
        /\ call'.op = "gettime" /\ call'.i = 1 /\ call'.retried
    BY <1>0, <1>3 DEF ScanAgain, At, Retry, Calls
  <2>2. reg["sec"] \in {0, 1} /\ reg \in seen
    BY <2>1 DEF GetInv, ReadingInv, Busy
  <2>3. Fresh'
    BY <2>1 DEF Fresh
  <2> QED BY <2>1, <2>2, <2>3 DEF GetInv, ReadingInv, GetTimeTrue, Busy
<1>4. CASE GotTime
  <2>1. /\ call.op = "gettime" /\ call.i = 7 /\ UNCHANGED seen
        /\ ~(call.tm["sec"] = 0 /\ ~call.retried)
        /\ call'.op = "return" /\ call'.tm = FromRegisters(call.tm)
    BY <1>0, <1>4 DEF GotTime, At, Retry, Calls, historyVars
  <2>2. call.tm \in seen
    BY <2>1 DEF GetInv, ReadingInv, Busy
  <2> QED BY <2>1, <2>2 DEF GetInv, ReadingInv, GetTimeTrue, Busy
<1>5. CASE GetTime
  <2>1. /\ call'.op = "gettime" /\ call'.i = 1 /\ ~call'.retried /\ ticks' = 0
        /\ seen' = {reg} /\ reg' = reg
    BY <1>5, BeginCall DEF GetTime, Begin
  <2>2. Fresh'
    BY <2>1 DEF Fresh
  <2> QED BY <2>1, <2>2 DEF GetInv, ReadingInv, GetTimeTrue, Busy
<1>6. CASE SetTime \/ SetAlarm
  <2>1. call'.op \in {"settime", "setalarm"}
    BY <1>6, BeginCall DEF SetTime, SetAlarm
  <2> QED BY <2>1 DEF GetInv, ReadingInv, GetTimeTrue, Busy
<1>7. CASE SetTimeStep \/ SetAlarmStep \/ Return
  <2>1. call'.op \in {"none", "settime", "setalarm"}
    BY <1>0, <1>7, EndCall DEF SetTimeStep, SetAlarmStep, Return, SetTimeRefused, WriteField,
       ClearAlarm, WriteAlarmField, WriteEnables, SetAie, SetWake, At, Busy, Calls
  <2> QED BY <2>1 DEF GetInv, ReadingInv, GetTimeTrue, Busy
<1>8. CASE ReadEvent \/ UNCHANGED vars
  BY <1>8 DEF ReadEvent, vars, historyVars, GetInv, ReadingInv, GetTimeTrue, Busy, Fresh
<1> QED BY <1>1, <1>2, <1>3, <1>4, <1>5, <1>6, <1>7, <1>8 DEF Next, GetTimeStep

(* The time that rtc_gettime returns is one that the clock has shown during *)
(* the call, for every calendar in which the retry is quick: the one retry, *)
(* on seconds of 0, catches every rollover, of the minute as of the year.   *)
THEOREM TimeWasShown == ASSUME RetryIsQuick PROVE Spec => []GetTimeTrue
<1>1. Init => TypeOK /\ GetInv
  <2>1. Init => GetInv
    BY DEF Init, Idle, GetInv, ReadingInv, GetTimeTrue, Busy
  <2> QED BY <2>1, TypeInit
<1>2. TypeOK /\ GetInv /\ [Next]_vars => (TypeOK /\ GetInv)'
  BY TypeStep, GetStep
<1>3. GetInv => GetTimeTrue
  BY DEF GetInv
<1> QED BY <1>1, <1>2, <1>3, PTL DEF Spec
-----------------------------------------------------------------------------
(* rtc_settime *)

(* What the order of rtc_settime relies on: one tick at most meanwhile. *)
OneTick == TicksPerScan <= 1

(* A time that no tick carries into the next minute. *)
NotLastSecond(tm) == tm["sec"] # Last["sec"]

(* The fields written so far stay as written, but for the seconds, which    *)
(* may advance, and unless the seconds are the last of their minute.        *)
WritingInv ==
  Busy("settime") =>
    /\ call.i \in 1..6 /\ call.tm \in Times
    /\ NotLastSecond(call.tm) =>
         /\ \A j \in 2..6 : j < call.i =>
              reg[WriteOrder[j]] = Settled(call.tm)[WriteOrder[j]]
         /\ call.i >= 2 => \/ reg["sec"] = Settled(call.tm)["sec"]
                           \/ ticks = 1 /\ reg["sec"] = Advanced(Settled(call.tm))["sec"]

LEMMA SettledValue ==
  ASSUME NEW tm \in Times, NotLastSecond(tm)
  PROVE  /\ Settled(tm) \in [Fields -> Int] /\ "sec" \in Fields
         /\ Settled(tm)["sec"] # bin2bcd(Last["sec"])
<1>1. tm \in [Fields -> Int] /\ "sec" \in Fields
  BY RtcAssumption, FieldSet
<1>2. \A f \in Fields : bin2bcd(ToField(f, tm[f])) \in Int
  BY <1>1, BcdType DEF ToField, Offset
<1>3. Settled(tm)["sec"] = bin2bcd(tm["sec"])
  <2>1. ToField("sec", tm["sec"]) = tm["sec"]
    BY <1>1 DEF ToField, Offset
  <2> QED BY <1>1, <2>1 DEF Settled
<1>4. tm["sec"] \in Int /\ Last["sec"] \in Int /\ tm["sec"] # Last["sec"]
  BY <1>1, LastType DEF NotLastSecond
<1> QED BY <1>1, <1>2, <1>3, <1>4, BcdInjective DEF Settled

(* The field written is the one whose turn it is. *)
LEMMA WriteFieldValue ==
  ASSUME TypeOK, WritingInv, WriteField
  PROVE  /\ call.op = "settime" /\ call.i \in 1..6 /\ call.tm \in Times
         /\ reg' = [reg EXCEPT ![WriteOrder[call.i]] = Settled(call.tm)[WriteOrder[call.i]]]
         /\ \/ call.i = 6 /\ call'.op = "none"
            \/ /\ call.i < 6 /\ call'.op = "settime" /\ call'.i = call.i + 1 /\ call'.tm = call.tm
               /\ ticks' = ticks
<1>1. call.op = "settime" /\ call.i \in 1..6 /\ call.tm \in Times /\ call \in Calls
  BY DEF WritingInv, WriteField, Busy, TypeOK
<1>2. WriteOrder[call.i] \in Fields /\ SetOrder = WriteOrder
  BY <1>1, Orders DEF SetOrder, WriteOrder
<1>3. reg' = [reg EXCEPT ![WriteOrder[call.i]] = Settled(call.tm)[WriteOrder[call.i]]]
  BY <1>2 DEF WriteField, Settled
<1>4. CASE call.i = 6
  BY <1>1, <1>3, <1>4, EndCall DEF WriteField
<1>5. CASE call.i # 6
  <2>1. call' = [call EXCEPT !.i = call.i + 1] /\ ticks' = ticks
    BY <1>5 DEF WriteField, historyVars
  <2>2. call'.op = call.op /\ call'.i = call.i + 1 /\ call'.tm = call.tm
    BY <1>1, <2>1 DEF Calls
  <2> QED BY <1>1, <1>3, <1>5, <2>1, <2>2
<1> QED BY <1>4, <1>5

LEMMA SetTick == ASSUME OneTick, TypeOK, WritingInv, Tick PROVE WritingInv'
<1> SUFFICES ASSUME Busy("settime") PROVE WritingInv'
  BY DEF WritingInv, Busy, Tick
<1>0. CASE ~NotLastSecond(call.tm)
  BY <1>0 DEF WritingInv, NotLastSecond, Busy, Tick
<1> SUFFICES ASSUME NotLastSecond(call.tm) PROVE WritingInv'
  BY <1>0
<1>1. /\ call' = call /\ call.op = "settime" /\ call.i \in 1..6 /\ call.tm \in Times
      /\ ticks = 0 /\ ticks' = 1
  BY RtcAssumption DEF Tick, Busy, Scanning, OneTick, WritingInv, TypeOK
<1> DEFINE S == Settled(call.tm)
<1>2. S \in [Fields -> Int] /\ "sec" \in Fields /\ S["sec"] # bin2bcd(Last["sec"])
  BY <1>1, SettledValue
<1>3. Settled(call.tm)' = S /\ Advanced(Settled(call.tm))' = Advanced(S)
  BY <1>1 DEF Settled, Advanced
<1>4. CASE call.i = 1
  BY <1>1, <1>4 DEF WritingInv, Busy
<1>5. CASE call.i >= 2
  <2>1. reg["sec"] = S["sec"] /\ \A j \in 2..6 : j < call.i => reg[WriteOrder[j]] = S[WriteOrder[j]]
    BY <1>1, <1>5 DEF WritingInv
  <2> HIDE DEF S
  <2>2. /\ reg'["sec"] = bin2bcd(bcd2bin(S["sec"]) + 1)
        /\ \A f \in Fields \ {"sec"} : reg'[f] = reg[f]
    BY <1>2, <2>1, TickKeeps
  <2>3. Advanced(S)["sec"] = bin2bcd(bcd2bin(S["sec"]) + 1)
    BY <1>2, AdvancedValue
  <2>4. \A j \in 2..6 : j < call.i => reg'[WriteOrder[j]] = S[WriteOrder[j]]
    BY <2>1, <2>2, Orders
  <2> QED BY <1>1, <1>3, <2>2, <2>3, <2>4 DEF WritingInv, Busy
<1> QED BY <1>1, <1>4, <1>5

LEMMA SetWrite == ASSUME TypeOK, WritingInv, WriteField PROVE WritingInv'
<1> DEFINE S == Settled(call.tm)
           f == WriteOrder[call.i]
<1>1. CASE call'.op = "none"
  BY <1>1 DEF WritingInv, Busy
<1>2. CASE call'.op # "none"
  <2>1. /\ call.op = "settime" /\ call.i \in 1..5 /\ call.tm \in Times
        /\ reg' = [reg EXCEPT ![f] = S[f]] /\ f \in Fields /\ reg \in [Fields -> Int]
        /\ call'.op = "settime" /\ call'.i = call.i + 1 /\ call'.tm = call.tm /\ ticks' = ticks
    BY <1>2, WriteFieldValue, Orders DEF TypeOK
  <2>0. CASE ~NotLastSecond(call.tm)
    BY <2>0, <2>1 DEF WritingInv, NotLastSecond, Busy
  <2> SUFFICES ASSUME NotLastSecond(call.tm) PROVE WritingInv'
    BY <2>0
  <2>2. Settled(call.tm)' = S /\ Advanced(Settled(call.tm))' = Advanced(S)
    BY <2>1 DEF Settled, Advanced
  <2>3. "sec" \in Fields
    BY FieldSet
  <2> HIDE DEF S
  <2>4. \A j \in 2..6 : j < call.i + 1 => reg'[WriteOrder[j]] = S[WriteOrder[j]]
    <3> TAKE j \in 2..6
    <3>1. CASE j = call.i
      BY <2>1, <3>1
    <3>2. CASE j < call.i
      <4>1. WriteOrder[j] # f /\ WriteOrder[j] \in Fields
        BY <2>1, <3>2, Orders, OrdersDistinct
      <4>2. reg[WriteOrder[j]] = S[WriteOrder[j]]
        BY <2>1, <3>2 DEF WritingInv, Busy, S
      <4> QED BY <2>1, <4>1, <4>2
    <3> QED BY <2>1, <3>1, <3>2
  <2>5. \/ reg'["sec"] = S["sec"]
        \/ ticks = 1 /\ reg'["sec"] = Advanced(S)["sec"]
    <3>1. CASE call.i = 1
      BY <2>1, <2>3, <3>1, Orders
    <3>2. CASE call.i >= 2
      <4>1. f # "sec"
        BY <2>1, <3>2, Orders
      <4>2. reg'["sec"] = reg["sec"]
        BY <2>1, <2>3, <4>1
      <4> QED BY <2>1, <3>2, <4>2 DEF WritingInv, Busy, S
    <3> QED BY <2>1, <3>1, <3>2
  <2> QED BY <2>1, <2>2, <2>4, <2>5 DEF WritingInv, Busy
<1> QED BY <1>1, <1>2

LEMMA SetStep == ASSUME OneTick, TypeOK, WritingInv, [Next]_vars PROVE WritingInv'
<1>0. call \in Calls
  BY DEF TypeOK
<1>1. CASE Tick
  BY <1>1, SetTick
<1>2. CASE WriteField
  BY <1>2, SetWrite
<1>3. CASE SetTime
  <2>1. call'.op = "settime" /\ call'.i = 1 /\ call'.tm \in Times
    BY <1>3, BeginCall DEF SetTime
  <2> QED BY <2>1 DEF WritingInv, Busy
<1>4. CASE GetTime \/ SetAlarm
  <2>1. call'.op \in {"gettime", "setalarm"}
    BY <1>4, BeginCall DEF GetTime, SetAlarm
  <2> QED BY <2>1 DEF WritingInv, Busy
<1>5. CASE SetTimeRefused \/ SetAlarmStep \/ Return \/ GetTimeStep
  <2>1. call'.op # "settime"
    BY <1>0, <1>5, EndCall DEF SetAlarmStep, Return, SetTimeRefused, GetTimeStep, ReadField,
       ScanAgain, GotTime, ClearAlarm, WriteAlarmField, WriteEnables, SetAie, SetWake, At, Busy, Calls
  <2> QED BY <2>1 DEF WritingInv, Busy
<1>6. CASE ReadEvent \/ UNCHANGED vars
  <2>1. UNCHANGED <<reg, call, ticks>>
    BY <1>6 DEF ReadEvent, vars, historyVars
  <2>2. Settled(call.tm)' = Settled(call.tm)
        /\ Advanced(Settled(call.tm))' = Advanced(Settled(call.tm))
    BY <2>1 DEF Settled, Advanced
  <2> QED BY <2>1, <2>2 DEF WritingInv, NotLastSecond, Busy
<1> QED BY <1>1, <1>2, <1>3, <1>4, <1>5, <1>6 DEF Next, SetTimeStep

(* The last write leaves the time set, or that time a second later. *)
LEMMA SetEnds ==
  ASSUME TypeOK, WritingInv, [Next]_vars, At("settime", 6), Busy("none")',
         NotLastSecond(call.tm)
  PROVE  reg' \in {Settled(call.tm), Advanced(Settled(call.tm))}
<1>0. call \in Calls /\ call.op = "settime" /\ call.i = 6 /\ call'.op = "none"
  BY DEF TypeOK, At, Busy
<1>1. WriteField
  <2>1. ~(GetTime \/ SetTime \/ SetAlarm)
    BY <1>0, BeginCall DEF GetTime, SetTime, SetAlarm, Busy
  <2>2. ~(GetTimeStep \/ SetAlarmStep \/ Return \/ SetTimeRefused)
    BY <1>0 DEF SetAlarmStep, Return, SetTimeRefused, GetTimeStep, ReadField, ScanAgain, GotTime,
       ClearAlarm, WriteAlarmField, WriteEnables, SetAie, SetWake, At, Busy
  <2>3. ~(Tick \/ ReadEvent \/ UNCHANGED vars)
    BY <1>0 DEF Tick, ReadEvent, vars
  <2> QED BY <2>1, <2>2, <2>3 DEF Next, SetTimeStep
<1> DEFINE S == Settled(call.tm)
<1>2. /\ S \in [Fields -> Int] /\ "sec" \in Fields /\ S["sec"] # bin2bcd(Last["sec"])
      /\ reg' = [reg EXCEPT ![WriteOrder[6]] = S[WriteOrder[6]]] /\ reg \in [Fields -> Int]
      /\ reg' \in [Fields -> Int] /\ Advanced(S) \in [Fields -> Int]
  BY <1>0, <1>1, WriteFieldValue, SettledValue, AdvancedValue, TypeStep DEF TypeOK
<1>3. \A j \in 2..5 : reg[WriteOrder[j]] = S[WriteOrder[j]]
  BY <1>0 DEF WritingInv, Busy
<1>4. reg["sec"] = S["sec"] \/ reg["sec"] = Advanced(S)["sec"]
  BY <1>0 DEF WritingInv, Busy
<1> HIDE DEF S
<1>5. \A j \in 2..6 : reg'[WriteOrder[j]] = S[WriteOrder[j]]
  <2> TAKE j \in 2..6
  <2>1. CASE j = 6
    BY <1>2, <2>1, Orders
  <2>2. CASE j # 6
    <3>1. WriteOrder[j] # WriteOrder[6] /\ WriteOrder[j] \in Fields
      BY <2>2, Orders, OrdersDistinct
    <3> QED BY <1>2, <1>3, <2>2, <3>1
  <2> QED BY <2>1, <2>2
<1>6. reg'["sec"] = reg["sec"]
  BY <1>2, Orders
<1>7. \A f \in Fields \ {"sec"} : reg'[f] = S[f] /\ Advanced(S)[f] = S[f]
  <2> TAKE f \in Fields \ {"sec"}
  <2>1. PICK j \in 2..6 : WriteOrder[j] = f
    BY Orders
  <2> QED BY <1>2, <1>5, <2>1, AdvancedValue
<1>8. CASE reg["sec"] = S["sec"]
  <2>1. \A f \in Fields : reg'[f] = S[f]
    BY <1>6, <1>7, <1>8
  <2> QED BY <1>2, <2>1 DEF S
<1>9. CASE reg["sec"] = Advanced(S)["sec"]
  <2>1. \A f \in Fields : reg'[f] = Advanced(S)[f]
    BY <1>6, <1>7, <1>9
  <2> QED BY <1>2, <2>1 DEF S
<1> QED BY <1>4, <1>8, <1>9

(* When rtc_settime returns the clock shows the time set or one second      *)
(* more, for every calendar and whatever the clock showed before, unless    *)
(* the time set is in the last second of a minute: in every other second,   *)
(* writing the seconds first keeps the later fields from being carried into. *)
THEOREM TimeIsSet == ASSUME OneTick PROVE Spec => SetTimeTrue
<1>1. Init => TypeOK /\ WritingInv
  <2>1. Init => WritingInv
    BY DEF Init, Idle, WritingInv, Busy
  <2> QED BY <2>1, TypeInit
<1>2. TypeOK /\ WritingInv /\ [Next]_vars => (TypeOK /\ WritingInv)'
  BY TypeStep, SetStep
<1>3. TypeOK /\ WritingInv /\ [Next]_vars =>
        [At("settime", 6) /\ Busy("none")' /\ call.tm["sec"] # Last["sec"]
           => reg' \in {Settled(call.tm), Advanced(Settled(call.tm))}]_vars
  BY SetEnds DEF NotLastSecond
<1> QED BY <1>1, <1>2, <1>3, PTL DEF Spec, SetTimeTrue
-----------------------------------------------------------------------------
(* rtc_setalarm *)

(* What rtc_valid_tm lets through to rtc_setalarm. *)
AlarmsValid == \A a \in Alarms : \A f \in AlarmFields : a[f] \in 0..Last[f]

(* The clock compares the fields of q, or nothing. *)
Compares(q) ==
  /\ en = {} \/ {"sec", "hour"} \subseteq en
  /\ alm["sec"] = bin2bcd(q["sec"]) /\ alm["hour"] = bin2bcd(q["hour"])

(* The registers hold an alarm as a whole, except between the step that     *)
(* clears RTCALM and the one that sets it again.                            *)
AlarmInv ==
  /\ asked => new \in Alarms
  /\ Busy("setalarm") =>
       /\ asked /\ call.i \in 1..7
       /\ \A f \in AlarmFields : call.tm[f] = new[f]
       /\ call.i = 1 => Compares(old)
       /\ call.i \in 2..5 => en = {}
       /\ call.i \in 3..5 => alm["sec"] = bin2bcd(new["sec"]) /\ "sec" \in call.bits
       /\ call.i = 5 => alm["hour"] = bin2bcd(new["hour"]) /\ "hour" \in call.bits
       /\ call.i \in 6..7 => Compares(new) /\ {"sec", "hour"} \subseteq en
       /\ call.i = 7 => ("ALM" \in en <=> new.enabled)
  /\ ~Busy("setalarm") => Compares(new) /\ old = new
  /\ ~Busy("setalarm") /\ asked =>
       /\ {"sec", "hour"} \subseteq en
       /\ "ALM" \in en <=> new.enabled
       /\ "ALM" \in en => wake > 0

(* A step of another call, or of the clock, leaves all that as it is. *)
LEMMA AlarmRests ==
  ASSUME AlarmInv, ~Busy("setalarm"), ~Busy("setalarm")', UNCHANGED <<alm, en, wake, old, new, asked>>
  PROVE  AlarmInv'
  BY DEF AlarmInv, Compares, Busy

LEMMA AlarmBegins == ASSUME TypeOK, AlarmInv, SetAlarm PROVE AlarmInv'
<1>1. PICK a \in Alarms :
        /\ Begin("setalarm", [f \in Fields |-> IF f \in AlarmFields THEN a[f] ELSE 0])
        /\ new' = a /\ asked' = TRUE /\ UNCHANGED <<reg, alm, en, af, wake, old>>
  BY DEF SetAlarm
<1>2. /\ call.op = "none" /\ call'.op = "setalarm" /\ call'.i = 1
      /\ call'.tm = [f \in Fields |-> IF f \in AlarmFields THEN a[f] ELSE 0]
  BY <1>1, BeginCall DEF Busy
<1>3. \A f \in AlarmFields : call'.tm[f] = new'[f]
  BY <1>1, <1>2, FieldSet DEF AlarmFields
<1>4. Compares(old)'
  BY <1>1, <1>2 DEF AlarmInv, Busy, Compares
<1> QED BY <1>1, <1>2, <1>3, <1>4 DEF AlarmInv, Busy

LEMMA AlarmFieldStep ==
  ASSUME AlarmsValid, TypeOK, AlarmInv, WriteAlarmField PROVE AlarmInv'
<1>1. PICK i \in 2..4 :
        /\ At("setalarm", i)
        /\ LET f == WriteOrder[i - 1]
           IN  IF call.tm[f] \in 0..Last[f]
               THEN /\ alm' = [alm EXCEPT ![f] = bin2bcd(call.tm[Source(f)])]
                    /\ call' = [call EXCEPT !.i = i + 1, !.bits = @ \cup {Source(f)}]
               ELSE call' = [call EXCEPT !.i = i + 1] /\ UNCHANGED alm
        /\ UNCHANGED <<reg, en, af, wake, old, new, asked, historyVars>>
  BY DEF WriteAlarmField
<1>2. /\ call.op = "setalarm" /\ call.i = i /\ asked /\ new \in Alarms /\ en = {}
      /\ \A f \in AlarmFields : call.tm[f] = new[f]
      /\ i \in 3..4 => alm["sec"] = bin2bcd(new["sec"]) /\ "sec" \in call.bits
  BY <1>1 DEF At, AlarmInv, Busy
<1> DEFINE f == WriteOrder[i - 1]
<1>3. /\ i = 2 => f = "sec" /\ Source(f) = "sec"
      /\ i = 3 => f = "min" /\ Source(f) = "sec"
      /\ i = 4 => f = "hour" /\ Source(f) = "hour"
  BY DEF WriteOrder, Source
<1>4. f \in AlarmFields /\ Source(f) \in AlarmFields
  BY <1>3 DEF AlarmFields
<1>5. call.tm[f] \in 0..Last[f]
  BY <1>2, <1>4 DEF AlarmsValid
<1>6. /\ alm' = [alm EXCEPT ![f] = bin2bcd(call.tm[Source(f)])]
      /\ call' = [call EXCEPT !.i = i + 1, !.bits = call.bits \cup {Source(f)}]
  BY <1>1, <1>5
<1> HIDE DEF f
<1>7. /\ call'.op = "setalarm" /\ call'.i = i + 1 /\ call'.tm = call.tm
      /\ call'.bits = call.bits \cup {Source(f)}
  BY <1>2, <1>6 DEF TypeOK, Calls
<1>8. /\ alm'[f] = bin2bcd(new[Source(f)])
      /\ \A g \in AlarmFields \ {f} : alm'[g] = alm[g]
  BY <1>2, <1>4, <1>6 DEF TypeOK
<1>9. alm'["sec"] = bin2bcd(new["sec"]) /\ "sec" \in call'.bits
  BY <1>2, <1>3, <1>7, <1>8 DEF AlarmFields
<1>10. i = 4 => alm'["hour"] = bin2bcd(new["hour"]) /\ "hour" \in call'.bits
  BY <1>3, <1>7, <1>8
<1>11. UNCHANGED <<en, new, asked>>
  BY <1>1
<1> QED BY <1>2, <1>7, <1>9, <1>10, <1>11 DEF AlarmInv, Busy

LEMMA AlarmStep == ASSUME AlarmsValid, TypeOK, AlarmInv, [Next]_vars PROVE AlarmInv'
<1>0. call \in Calls /\ call.i \in 0..7
  BY DEF TypeOK, Calls
<1>1. CASE SetAlarm
  BY <1>1, AlarmBegins
<1>2. CASE ClearAlarm
  <2>1. /\ call.op = "setalarm" /\ call.i = 1 /\ call'.op = "setalarm" /\ call'.i = 2
        /\ call'.tm = call.tm /\ en' = {} /\ UNCHANGED <<new, asked>>
    BY <1>0, <1>2 DEF ClearAlarm, Cleared, At, Calls
  <2> QED BY <2>1 DEF AlarmInv, Busy
<1>3. CASE WriteAlarmField
  BY <1>3, AlarmFieldStep
<1>4. CASE WriteEnables
  <2>1. /\ call.op = "setalarm" /\ call.i = 5 /\ call'.op = "setalarm" /\ call'.i = 6
        /\ call'.tm = call.tm /\ en' = call.bits /\ UNCHANGED <<new, asked, alm>>
    BY <1>0, <1>4 DEF WriteEnables, At, Calls
  <2> QED BY <2>1 DEF AlarmInv, Busy, Compares
<1>5. CASE SetAie
  <2>1. /\ call.op = "setalarm" /\ call.i = 6 /\ call'.op = "setalarm" /\ call'.i = 7
        /\ call'.tm = call.tm /\ en' = WithAie(en, new.enabled) /\ UNCHANGED <<new, asked, alm>>
    BY <1>0, <1>5 DEF SetAie, At, Calls
  <2>2. ("ALM" \in en' <=> new.enabled) /\ en' \ {"ALM"} = en \ {"ALM"}
    BY <2>1 DEF WithAie
  <2> QED BY <2>1, <2>2 DEF AlarmInv, Busy, Compares
<1>6. CASE SetWake
  <2>1. /\ call.op = "setalarm" /\ call.i = 7 /\ call'.op = "none" /\ old' = new
        /\ wake' = WakeDepth(new.enabled) /\ UNCHANGED <<en, new, asked, alm>>
    BY <1>6, EndCall DEF SetWake, At
  <2>2. new.enabled => wake' > 0
    BY <2>1 DEF WakeDepth, TypeOK
  <2> QED BY <2>1, <2>2 DEF AlarmInv, Busy, Compares
<1>7. CASE GetTime \/ SetTime
  <2>1. /\ call.op = "none" /\ call'.op # "setalarm" /\ UNCHANGED <<alm, en, wake, old, new, asked>>
    BY <1>7, BeginCall DEF GetTime, SetTime, Busy, alarmVars
  <2> QED BY <2>1, AlarmRests DEF Busy
<1>8. CASE GetTimeStep \/ SetTimeStep \/ Return
  <2>1. call.op # "setalarm" /\ UNCHANGED <<alm, en, wake, old, new, asked>>
    BY <1>8 DEF GetTimeStep, SetTimeStep, Return, ReadField, ScanAgain, GotTime, SetTimeRefused,
       WriteField, At, Busy, alarmVars
  <2>2. call'.op # "setalarm"
    BY <1>0, <1>8, EndCall DEF GetTimeStep, SetTimeStep, Return, ReadField, ScanAgain, GotTime,
       SetTimeRefused, WriteField, At, Busy, Calls
  <2> QED BY <2>1, <2>2, AlarmRests DEF Busy
<1>9. CASE Tick \/ ReadEvent \/ UNCHANGED vars
  <2>1. UNCHANGED <<alm, en, wake, old, new, asked, call>>
    BY <1>9 DEF Tick, ReadEvent, vars, alarmVars
  <2> QED BY <2>1 DEF AlarmInv, Compares, Busy
<1> QED BY <1>1, <1>2, <1>3, <1>4, <1>5, <1>6, <1>7, <1>8, <1>9 DEF Next, SetAlarmStep

(* The inductive invariant of rtc_setalarm, for valid alarms. *)
THEOREM AlarmInvariance == ASSUME AlarmsValid PROVE Spec => [](TypeOK /\ AlarmInv)
<1>1. Init => TypeOK /\ AlarmInv
  <2>1. Init => AlarmInv
    BY DEF Init, Idle, AlarmInv, Busy, Compares, AlarmFields
  <2> QED BY <2>1, TypeInit
<1>2. TypeOK /\ AlarmInv /\ [Next]_vars => (TypeOK /\ AlarmInv)'
  BY TypeStep, AlarmStep
<1> QED BY <1>1, <1>2, PTL DEF Spec

(* An alarm never rings for fields of two requests: RTCALM is clear while   *)
(* rtc_setalarm replaces the registers one by one.                          *)
THEOREM NeverMixedAlarm == ASSUME AlarmsValid PROVE Spec => []OneRequestArmed
<1>1. TypeOK /\ AlarmInv => OneRequestArmed
  <2> SUFFICES ASSUME TypeOK, AlarmInv, "ALM" \in en PROVE OneRequestArmed
    BY DEF OneRequestArmed
  <2>1. en \ {"ALM"} \subseteq {"sec", "hour"}
    BY DEF TypeOK, AlarmBits
  <2>2. Compares(old) \/ Compares(new)
    BY DEF AlarmInv
  <2> QED BY <2>1, <2>2 DEF OneRequestArmed, Compares
<1> QED BY <1>1, AlarmInvariance, PTL

(* rtc_getalarm reads back, through BCD and in spite of the register        *)
(* address that it uses as a mask, whether the alarm set last is enabled,   *)
(* its hour and its second; its minute reads back as any, for every alarm.  *)
THEOREM AlarmReadsBack == ASSUME AlarmsValid PROVE Spec => []AlarmReadBack
<1>1. TypeOK /\ AlarmInv => AlarmReadBack
  <2> SUFFICES ASSUME TypeOK, AlarmInv, Busy("none"), asked PROVE AlarmReadBack
    BY DEF AlarmReadBack
  <2>1. /\ {"sec", "hour"} \subseteq en /\ ("ALM" \in en <=> new.enabled)
        /\ alm["sec"] = bin2bcd(new["sec"]) /\ alm["hour"] = bin2bcd(new["hour"])
        /\ new \in Alarms
    BY DEF AlarmInv, Busy, Compares
  <2>2. new["sec"] \in 0..99 /\ new["hour"] \in 0..99
    BY <2>1, LastType, FieldSet DEF AlarmsValid, AlarmFields
  <2>3. bcd2bin(alm["sec"]) = new["sec"] /\ bcd2bin(alm["hour"]) = new["hour"]
    BY <2>1, <2>2, BcdInverse
  <2>4. (en \cap EnableMask # {}) <=> "ALM" \in en
    BY DEF TypeOK, AlarmBits, EnableMask
  <2>5. new.enabled \in BOOLEAN
    BY <2>1, RtcAssumption
  <2>6. GetAlarm.enabled = new.enabled
    BY <2>1, <2>4, <2>5 DEF GetAlarm
  <2>7. GetAlarm["sec"] = new["sec"] /\ GetAlarm["hour"] = new["hour"]
    BY <2>1, <2>3 DEF GetAlarm
  <2>8. GetAlarm["min"] = 255
    <3>1. "min" \notin en
      BY DEF TypeOK, AlarmBits
    <3> QED BY <3>1 DEF GetAlarm
  <2>9. \A f \in AlarmFields : GetAlarm[f] = IF f = "min" THEN 255 ELSE new[f]
    BY <2>7, <2>8 DEF AlarmFields
  <2> QED BY <2>6, <2>9 DEF AlarmReadBack
<1> QED BY <1>1, AlarmInvariance, PTL

(* An alarm that can ring can wake the machine, whatever alarms were set    *)
(* and disabled before: enable_irq_wake outweighs every disable_irq_wake.   *)
THEOREM AlarmCanWake == ASSUME AlarmsValid PROVE Spec => []AlarmWakes
<1>1. AlarmInv => AlarmWakes
  BY DEF AlarmInv, AlarmWakes, Busy
<1> QED BY <1>1, AlarmInvariance, PTL
=============================================================================
