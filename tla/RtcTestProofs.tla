---------------------------- MODULE RtcTestProofs ---------------------------
(***************************************************************************)
(* Proofs about RtcTest, for any number of threads: rtc_mutex keeps the    *)
(* threads' files of /dev/rtc apart, every test expects what the driver    *)
(* answers, and so only another program can make the unit test fail.       *)
(***************************************************************************)
EXTENDS RtcTest, TLAPS

Steps == {"lock", "open", "ioctl", "close", "unlock", "assert", "exit"}

(* Inside a test, from rtc_lock to rtc_unlock. *)
Locked(t) == step[t] \in {"open", "ioctl", "close", "unlock"}

TypeOK ==
  /\ created \in 0..ThreadNum
  /\ rtc_mutex \in Threads \cup {Nobody}
  /\ opened \in Threads \cup {Nobody, Other}
  /\ step \in [Threads -> Steps]
  /\ test \in [Threads -> 1..Len(unit_test_entry)]
  /\ err \in [Threads -> {"0", "ENOTTY", "EINVAL", "EBUSY"}]
  /\ met \in BOOLEAN /\ aborted \in BOOLEAN

(* The mutex is held by the one thread that is inside a test, ...           *)
MutexHeld == \A t \in Threads : Locked(t) => rtc_mutex = t

(* ... and only that thread has the device open, from open to close.        *)
FileUnderMutex ==
  \A t \in Threads : /\ opened = t /\ ~aborted => step[t] \in {"ioctl", "close"}
                     /\ step[t] \in {"ioctl", "close"} /\ ~aborted => opened = t

(* What a test is about to return is what the driver answers, or EBUSY      *)
(* because another program had the device open.                             *)
Outcome(t) ==
  step[t] \in {"close", "unlock", "assert"} =>
    \/ err[t] = Answer(unit_test_entry[test[t]])
    \/ met

TestInv ==
  /\ TypeOK /\ MutexHeld /\ FileUnderMutex /\ FailsOnlyByOthers
  /\ \A t \in Threads : Outcome(t)

(* unit_test_entry is a sequence of tests. *)
Tests ==
  {RTC_AIE_ON_test, RTC_AIE_OFF_test, RTC_UIE_ON_test, RTC_UIE_OFF_test,
   RTC_PIE_ON_test, RTC_PIE_OFF_test, RTC_WIE_ON_test, RTC_WIE_OFF_test,
   RTC_ALM_SET_test, RTC_ALM_READ_test, RTC_RD_TIME_test, RTC_SET_TIME_test,
   RTC_IRQP_READ_test, RTC_IRQP_SET_test, RTC_EPOCH_READ_test, RTC_EPOCH_SET_test,
   RTC_WKALM_SET_test, RTC_WKALM_RD_test, RTC_PLL_GET_test, RTC_PLL_SET_test,
   RTC_VL_READ_test, RTC_VL_CLR_test}

LEMMA EntryType ==
  /\ unit_test_entry \in Seq(Tests)
  /\ Len(unit_test_entry) \in Nat \ {0}
BY DEF unit_test_entry, Tests

(* unit_test_entry expects of every test what the core and the driver       *)
(* answer: the rate it sets is a power of two and the year is in range.     *)
LEMMA ExpectedIsAnswer == \A i \in 1..Len(unit_test_entry) :
  Expected(unit_test_entry[i]) = Answer(unit_test_entry[i])
<1>1. /\ \A tst \in Tests : tst.ioctl = "IRQP_SET" => tst.arg = 512
      /\ \A tst \in Tests : tst.ioctl = "SET_TIME" => tst.arg = 117
      /\ \A tst \in Tests : tst.ioctl \in CoreIoctls <=> Expected(tst) = "0"
      /\ \A tst \in Tests : Expected(tst) \in {"0", "ENOTTY"}
  BY DEF Tests, Test, Expected, CoreIoctls, RTC_AIE_ON_test, RTC_AIE_OFF_test, RTC_UIE_ON_test,
     RTC_UIE_OFF_test, RTC_PIE_ON_test, RTC_PIE_OFF_test, RTC_WIE_ON_test, RTC_WIE_OFF_test,
     RTC_ALM_SET_test, RTC_ALM_READ_test, RTC_RD_TIME_test, RTC_SET_TIME_test,
     RTC_IRQP_READ_test, RTC_IRQP_SET_test, RTC_EPOCH_READ_test, RTC_EPOCH_SET_test,
     RTC_WKALM_SET_test, RTC_WKALM_RD_test, RTC_PLL_GET_test, RTC_PLL_SET_test,
     RTC_VL_READ_test, RTC_VL_CLR_test
<1>2. ~RefusesRate(512) /\ ~RefusesYear(117)
  BY DEF RefusesRate, RefusesYear
<1>3. \A tst \in Tests : Expected(tst) = Answer(tst)
  BY <1>1, <1>2 DEF Answer
<1> QED BY <1>3, EntryType

LEMMA TypeStep == TypeOK /\ [TestNext]_testVars => TypeOK'
<1> SUFFICES ASSUME TypeOK, [TestNext]_testVars PROVE TypeOK'
  OBVIOUS
<1>0. ThreadNum \in Nat \ {0} /\ Len(unit_test_entry) \in Nat \ {0}
  BY ThreadAssumption, EntryType
<1> USE <1>0 DEF TypeOK, Steps, GoTo
<1>1. CASE CreateThread
  BY <1>1 DEF CreateThread
<1>2. CASE JoinThread \/ UNCHANGED testVars
  BY <1>2 DEF JoinThread, testVars
<1>3. ASSUME NEW t \in Threads, rtc_lock(t) PROVE TypeOK'
  BY <1>3 DEF rtc_lock
<1>4. ASSUME NEW t \in Threads, OpenRtc(t) PROVE TypeOK'
  BY <1>4 DEF OpenRtc
<1>5. ASSUME NEW t \in Threads, OpenBusy(t) PROVE TypeOK'
  BY <1>5 DEF OpenBusy
<1>6. ASSUME NEW t \in Threads, Ioctl(t) PROVE TypeOK'
  BY <1>6 DEF Ioctl, Answer
<1>7. ASSUME NEW t \in Threads, Close(t) PROVE TypeOK'
  BY <1>7 DEF Close
<1>8. ASSUME NEW t \in Threads, rtc_unlock(t) PROVE TypeOK'
  BY <1>8 DEF rtc_unlock
<1>9. ASSUME NEW t \in Threads, Assert(t) PROVE TypeOK'
  <2>1. CASE HasNext(t)
    <3>1. test[t] + 1 \in 1..Len(unit_test_entry)
      BY <2>1 DEF HasNext
    <3>2. test' = [test EXCEPT ![t] = test[t] + 1] /\ step' = [step EXCEPT ![t] = "lock"]
      BY <1>9, <2>1 DEF Assert
    <3> QED BY <1>9, <3>1, <3>2 DEF Assert
  <2>2. CASE ~HasNext(t)
    BY <1>9, <2>2 DEF Assert
  <2> QED BY <2>1, <2>2
<1>10. ASSUME NEW t \in Threads, Abort(t) PROVE TypeOK'
  BY <1>10 DEF Abort
<1>11. CASE OtherOpens \/ OtherCloses
  BY <1>11 DEF OtherOpens, OtherCloses
<1> QED BY <1>1, <1>2, <1>3, <1>4, <1>5, <1>6, <1>7, <1>8, <1>9, <1>10, <1>11 DEF TestNext, Thread

(* Every step keeps the invariant. *)
LEMMA InvStep == TestInv /\ [TestNext]_testVars => TestInv'
<1> SUFFICES ASSUME TestInv, [TestNext]_testVars PROVE TestInv'
  OBVIOUS
<1>0. TypeOK /\ TypeOK'
  BY TypeStep DEF TestInv
<1>a. Nobody \notin Threads /\ Other \notin Threads /\ Nobody # Other
  BY DEF Threads, Nobody, Other
<1> DEFINE Rest == MutexHeld /\ FileUnderMutex /\ FailsOnlyByOthers /\ \A t \in Threads : Outcome(t)
<1> USE <1>0, <1>a DEF TestInv, MutexHeld, FileUnderMutex, FailsOnlyByOthers, Outcome, Locked,
        TypeOK, At, GoTo
<1>1. CASE CreateThread \/ JoinThread \/ UNCHANGED testVars
  BY <1>1 DEF CreateThread, JoinThread, testVars
<1>2. ASSUME NEW t \in Threads, rtc_lock(t) PROVE Rest'
  BY <1>2 DEF rtc_lock, MutexFree
<1>3. ASSUME NEW t \in Threads, OpenRtc(t) PROVE Rest'
  BY <1>3 DEF OpenRtc
<1>4. ASSUME NEW t \in Threads, OpenBusy(t) PROVE Rest'
  <2>1. opened = Other
    BY <1>4 DEF OpenBusy
  <2>2. met'
    BY <1>4, <2>1 DEF OpenBusy
  <2> QED BY <1>4, <2>2 DEF OpenBusy
<1>5. ASSUME NEW t \in Threads, Ioctl(t) PROVE Rest'
  BY <1>5 DEF Ioctl
<1>6. ASSUME NEW t \in Threads, Close(t) PROVE Rest'
  BY <1>6 DEF Close
<1>7. ASSUME NEW t \in Threads, rtc_unlock(t) PROVE Rest'
  BY <1>7 DEF rtc_unlock
<1>8. ASSUME NEW t \in Threads, Assert(t) PROVE Rest'
  BY <1>8 DEF Assert
<1>9. ASSUME NEW t \in Threads, Abort(t) PROVE Rest'
  <2>1. met
    BY <1>9, ExpectedIsAnswer DEF Abort
  <2> QED BY <1>9, <2>1 DEF Abort
<1>10. CASE OtherOpens \/ OtherCloses
  BY <1>10 DEF OtherOpens, OtherCloses
<1> QED BY <1>1, <1>2, <1>3, <1>4, <1>5, <1>6, <1>7, <1>8, <1>9, <1>10 DEF TestNext, Thread

(* Every reachable state satisfies the inductive invariant: one thread at a *)
(* time is inside a test, with the mutex and the file.                      *)
THEOREM Invariance == TestSpec => []TestInv
<1>1. TestInit => TestInv
  <2> SUFFICES ASSUME TestInit PROVE TestInv
    OBVIOUS
  <2>1. met \in BOOLEAN /\ aborted \in BOOLEAN
    BY Zenon DEF TestInit
  <2>2. TypeOK
    BY <2>1, ThreadAssumption, EntryType DEF TestInit, TypeOK, Steps
  <2> QED BY <2>2 DEF TestInit, TestInv, MutexHeld, FileUnderMutex, FailsOnlyByOthers, Outcome,
          Locked, Threads, Nobody
<1> QED BY <1>1, InvStep, PTL DEF TestSpec

(* However many threads run the tests, an assertion fails only after a test *)
(* met a file that another program had open: the threads never disturb one  *)
(* another, because rtc_mutex is held from before open to after close.      *)
THEOREM ThreadsDoNotDisturb == TestSpec => []FailsOnlyByOthers
<1>1. TestInv => FailsOnlyByOthers
  BY DEF TestInv
<1> QED BY <1>1, Invariance, PTL
=============================================================================
