------------------------------ MODULE RtcTest -------------------------------
(***************************************************************************)
(* The unit test of the real-time clock, rtc/app/rtc_unit_test.c: main     *)
(* starts threads that each run every test, and joins them.  A test takes  *)
(* rtc_mutex, opens /dev/rtc, makes one ioctl, closes the file and gives   *)
(* the mutex back; its caller asserts the result, and a failed assertion   *)
(* ends the whole process.  The RTC core lets one file of the device be    *)
(* open at a time: the mutex is what keeps the threads from meeting EBUSY. *)
(***************************************************************************)
EXTENDS Integers, Sequences

CONSTANT
  ThreadNum,    \* RTC_THREAD_NUM
  OtherProgram  \* may another program open /dev/rtc while the test runs?

ASSUME ThreadAssumption == ThreadNum \in Nat \ {0}
ASSUME OtherAssumption  == OtherProgram \in BOOLEAN

VARIABLES
  created,    \* the threads main has started are 1..created
  joined,     \* and those it has joined are 1..joined
  rtc_mutex,  \* the thread that holds it, or Nobody
  opened,     \* who has /dev/rtc open: a thread, Other, or Nobody
  step,       \* where each thread is
  test,       \* the position of its test in unit_test_entry
  err,        \* what its test returns
  met,        \* has some thread found another program's file open?
  aborted     \* has an assertion failed?

testVars == <<created, joined, rtc_mutex, opened, step, test, err, met, aborted>>

Threads == 1..ThreadNum
Nobody  == 0
Other   == -1

-----------------------------------------------------------------------------
(* The tests.  Every body makes the same calls, which the actions below    *)
(* take: rtc_lock, open, one ioctl, close whether it failed or not, and    *)
(* rtc_unlock.  A test is what is its own: the ioctl, and the number or    *)
(* the tm_year of the time that it passes, 0 for an ioctl that takes none. *)
Test(io, arg) == [ioctl |-> io, arg |-> arg]

RTC_AIE_ON_test     == Test("AIE_ON", 0)
RTC_AIE_OFF_test    == Test("AIE_OFF", 0)
RTC_UIE_ON_test     == Test("UIE_ON", 0)
RTC_UIE_OFF_test    == Test("UIE_OFF", 0)
RTC_PIE_ON_test     == Test("PIE_ON", 0)
RTC_PIE_OFF_test    == Test("PIE_OFF", 0)
RTC_WIE_ON_test     == Test("WIE_ON", 0)
RTC_WIE_OFF_test    == Test("WIE_OFF", 0)
RTC_ALM_SET_test    == Test("ALM_SET", 1900)
RTC_ALM_READ_test   == Test("ALM_READ", 0)
RTC_RD_TIME_test    == Test("RD_TIME", 0)
RTC_SET_TIME_test   == Test("SET_TIME", 2017 - 1900)
RTC_IRQP_READ_test  == Test("IRQP_READ", 0)
RTC_IRQP_SET_test   == Test("IRQP_SET", 512)
RTC_EPOCH_READ_test == Test("EPOCH_READ", 0)
RTC_EPOCH_SET_test  == Test("EPOCH_SET", 986)
RTC_WKALM_SET_test  == Test("WKALM_SET", 2017 - 1900)
RTC_WKALM_RD_test   == Test("WKALM_RD", 0)
RTC_PLL_GET_test    == Test("PLL_GET", 0)
RTC_PLL_SET_test    == Test("PLL_SET", 1)   \* pll_clock
RTC_VL_READ_test    == Test("VL_READ", 0)
RTC_VL_CLR_test     == Test("VL_CLR", 0)

unit_test_entry ==
  <<RTC_AIE_ON_test, RTC_AIE_OFF_test, RTC_UIE_ON_test, RTC_UIE_OFF_test,
    RTC_PIE_ON_test, RTC_PIE_OFF_test, RTC_WIE_ON_test, RTC_WIE_OFF_test,
    RTC_ALM_SET_test, RTC_ALM_READ_test, RTC_RD_TIME_test, RTC_SET_TIME_test,
    RTC_IRQP_READ_test, RTC_IRQP_SET_test, RTC_EPOCH_READ_test, RTC_EPOCH_SET_test,
    RTC_WKALM_SET_test, RTC_WKALM_RD_test, RTC_PLL_GET_test, RTC_PLL_SET_test,
    RTC_VL_READ_test, RTC_VL_CLR_test>>

(* What unit_test_entry asserts that a test returns.                       *)
Expected(tst) ==
  IF tst.ioctl \in {"WIE_ON", "WIE_OFF", "EPOCH_READ", "EPOCH_SET",
                    "PLL_GET", "PLL_SET", "VL_READ", "VL_CLR"}
    THEN "ENOTTY" ELSE "0"

(* What the driver refuses: a rate that is no power of two, of the rates   *)
(* of an RTC, and a year that is not one of the hundred from 2000.         *)
RefusesRate(f) == f \notin {1, 2, 4, 8, 16, 32, 64, 128, 256, 512, 1024, 2048, 4096, 8192}
RefusesYear(y) == y - 100 < 0 \/ y - 100 >= 100

(* The ioctls that the RTC core carries out, with the operations of        *)
(* rtc_fops, none of which is an ioctl of the driver's own for the others. *)
CoreIoctls == {"AIE_ON", "AIE_OFF", "UIE_ON", "UIE_OFF", "PIE_ON", "PIE_OFF",
               "ALM_SET", "ALM_READ", "RD_TIME", "SET_TIME", "IRQP_READ",
               "IRQP_SET", "WKALM_SET", "WKALM_RD"}

(* What the ioctl returns to a test that root runs; to another user the    *)
(* core refuses SET_TIME, and IRQP_SET above max_user_freq, which is 128.  *)
Answer(tst) ==
  CASE tst.ioctl \notin CoreIoctls                          -> "ENOTTY"
    [] tst.ioctl = "IRQP_SET" /\ RefusesRate(tst.arg)       -> "EINVAL"
    [] tst.ioctl = "SET_TIME" /\ RefusesYear(tst.arg)       -> "EINVAL"
    [] OTHER                                                -> "0"

TestInit ==
  /\ created = 0 /\ joined = 0
  /\ rtc_mutex = Nobody /\ opened = Nobody
  /\ step = [t \in Threads |-> "lock"]
  /\ test = [t \in Threads |-> 1]
  /\ err = [t \in Threads |-> "0"]
  /\ met = FALSE /\ aborted = FALSE

At(t, s)   == ~aborted /\ t <= created /\ step[t] = s
GoTo(t, s) == step' = [step EXCEPT ![t] = s]

-----------------------------------------------------------------------------
(* main: pthread_create for every thread, then pthread_join for every one. *)
CreateThread ==
  /\ ~aborted /\ created < ThreadNum
  /\ created' = created + 1
  /\ UNCHANGED <<joined, rtc_mutex, opened, step, test, err, met, aborted>>

JoinThread ==
  /\ ~aborted /\ created = ThreadNum /\ joined < ThreadNum
  /\ step[joined + 1] = "exit"
  /\ joined' = joined + 1
  /\ UNCHANGED <<created, rtc_mutex, opened, step, test, err, met, aborted>>

(* A test, step by step; err is 0 until something fails.                   *)
MutexIgnored == TRUE
MutexFree == rtc_mutex = Nobody

rtc_lock(t) ==
  /\ At(t, "lock") /\ MutexFree
  /\ rtc_mutex' = t
  /\ err' = [err EXCEPT ![t] = "0"]
  /\ GoTo(t, "open")
  /\ UNCHANGED <<created, joined, opened, test, met, aborted>>

OpenRtc(t) ==
  /\ At(t, "open") /\ opened = Nobody
  /\ opened' = t
  /\ GoTo(t, "ioctl")
  /\ UNCHANGED <<created, joined, rtc_mutex, test, err, met, aborted>>

OpenBusy(t) ==
  /\ At(t, "open") /\ opened # Nobody
  /\ err' = [err EXCEPT ![t] = "EBUSY"]
  /\ met' = (met \/ opened = Other)
  /\ GoTo(t, "unlock")
  /\ UNCHANGED <<created, joined, rtc_mutex, opened, test, aborted>>

Ioctl(t) ==
  /\ At(t, "ioctl")
  /\ err' = [err EXCEPT ![t] = Answer(unit_test_entry[test[t]])]
  /\ GoTo(t, "close")
  /\ UNCHANGED <<created, joined, rtc_mutex, opened, test, met, aborted>>

(* close(fd), on the path that failed and on the one that did not.         *)
Close(t) ==
  /\ At(t, "close")
  /\ opened' = Nobody
  /\ GoTo(t, "unlock")
  /\ UNCHANGED <<created, joined, rtc_mutex, test, err, met, aborted>>

StaysLocked(t) ==
  /\ At(t, "unlock") /\ GoTo(t, "assert")
  /\ UNCHANGED <<created, joined, rtc_mutex, opened, test, err, met, aborted>>

rtc_unlock(t) ==
  /\ At(t, "unlock")
  /\ rtc_mutex' = Nobody
  /\ GoTo(t, "assert")
  /\ UNCHANGED <<created, joined, opened, test, err, met, aborted>>

(* unit_test_entry's assertion, and its next test or its return.           *)
HasNext(t) == test[t] < Len(unit_test_entry)

Assert(t) ==
  /\ At(t, "assert") /\ err[t] = Expected(unit_test_entry[test[t]])
  /\ IF HasNext(t)
       THEN GoTo(t, "lock") /\ test' = [test EXCEPT ![t] = @ + 1]
       ELSE GoTo(t, "exit") /\ test' = test
  /\ UNCHANGED <<created, joined, rtc_mutex, opened, err, met, aborted>>

(* A failed one aborts: the kernel closes what the process had open.       *)
Abort(t) ==
  /\ At(t, "assert") /\ err[t] # Expected(unit_test_entry[test[t]])
  /\ aborted' = TRUE
  /\ opened' = IF opened \in Threads THEN Nobody ELSE opened
  /\ UNCHANGED <<created, joined, rtc_mutex, step, test, err, met>>

(* Another program opens the device and closes it.                         *)
OtherOpens ==
  /\ OtherProgram /\ opened = Nobody
  /\ opened' = Other
  /\ UNCHANGED <<created, joined, rtc_mutex, step, test, err, met, aborted>>

OtherCloses ==
  /\ opened = Other
  /\ opened' = Nobody
  /\ UNCHANGED <<created, joined, rtc_mutex, step, test, err, met, aborted>>

Thread(t) ==
  \/ rtc_lock(t) \/ OpenRtc(t) \/ OpenBusy(t) \/ Ioctl(t) \/ Close(t)
  \/ rtc_unlock(t) \/ Assert(t) \/ Abort(t)

TestNext ==
  \/ CreateThread \/ JoinThread
  \/ \E t \in Threads : Thread(t)
  \/ OtherOpens \/ OtherCloses

(* Every thread gets the processor; the mutex need not be fair, because    *)
(* each of its users takes it a bounded number of times.                   *)
TestSpec ==
  /\ TestInit /\ [][TestNext]_testVars
  /\ WF_testVars(CreateThread) /\ WF_testVars(JoinThread)
  /\ \A t \in Threads : WF_testVars(Thread(t))

-----------------------------------------------------------------------------
(* The threads never disturb one another: a test fails only when it met a  *)
(* file that a program other than this one had open.                       *)
FailsOnlyByOthers == aborted => met

(* Once main has started a thread the test ends: main joins every thread,  *)
(* or an assertion ends the process.                                       *)
Ends == created > 0 ~> (joined = ThreadNum \/ aborted)

=============================================================================
