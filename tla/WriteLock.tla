------------------------------- MODULE WriteLock -------------------------------
(***************************************************************************)
(* ScopedLock: the lock file state/.lock by which the windows running      *)
(* `sched` on one data folder notice each other (D-007).                   *)
(*                                                                         *)
(* Taking the lock is a read of the file and, later, a write of it.  Time  *)
(* is counted in whole minutes as ages: how long ago a time stamp was      *)
(* taken, cut off at StaleMinutes + 1, and -1 for a stamp in the future.   *)
(*                                                                         *)
(* What other windows and the clock may do meanwhile is a parameter:       *)
(* mutual exclusion holds only in the careful environment, with all three  *)
(* FALSE.                                                                  *)
(***************************************************************************)
EXTENDS Integers

CONSTANTS
    Window,         \* processes that run commands; each has a pid of its own
    StaleMinutes,   \* kStaleLockMinutes
    Overlap,        \* may a window look at the lock while another, having
                    \* looked, has not written it yet?
    Dawdle,         \* may a command run for more than StaleMinutes?
    SetBack         \* may the clock be set back?

\* What stands for the pid in the file: a window's, or one of these.
NoLock   == "no lock"       \* no file, or one that is not JSON
Gone     == "gone"          \* the pid of no process
Stranger == "stranger"      \* the pid of an unrelated process

ASSUME LockAssumption ==
    /\ StaleMinutes \in Nat
    /\ {NoLock, Gone, Stranger} \cap Window = {}
    /\ Overlap \in BOOLEAN
    /\ Dawdle \in BOOLEAN
    /\ SetBack \in BOOLEAN

VARIABLES
    lockPid,    \* LockInfo::pid
    lockAge,    \* minutesSince(acquiredAt)
    phase,      \* of each window: "out", "refused", "clear" or "held"
    age         \* minutes since each window asked the clock, to take the lock

lockVars == <<lockPid, lockAge, phase, age>>

Old == StaleMinutes + 1

Ages == -1 .. Old

LockInit ==
    /\ lockPid \in {NoLock, Gone, Stranger}
    /\ lockAge \in Ages
    /\ phase = [w \in Window |-> "out"]
    /\ age = [w \in Window |-> 0]

\* A slip: a lock is taken over a minute early.
StaleTooSoon == lockAge >= StaleMinutes \/ lockAge < 0

\* A slip: the age of the lock is not looked at.
StaleByClockOnly == lockAge < 0

\* A negative age comes from a clock that was set back, or from a file with
\* no readable time stamp, which counts as old.
Stale == lockAge > StaleMinutes \/ lockAge < 0

\* processAlive: a process that may not be opened counts as alive.
Alive(pid) == pid \in Window \cup {Stranger}

Blocked(w) == lockPid \notin {NoLock, w} /\ Alive(lockPid) /\ ~Stale

Outside(w) == phase[w] \in {"out", "refused"}

\* The window samples the clock and finds no lock to respect.
ReadLock(w) ==
    /\ Outside(w)
    /\ ~Blocked(w)
    /\ Overlap \/ \A v \in Window : phase[v] # "clear"
    /\ phase' = [phase EXCEPT ![w] = "clear"]
    /\ age' = [age EXCEPT ![w] = 0]
    /\ UNCHANGED <<lockPid, lockAge>>

Refuse(w) ==
    /\ phase[w] = "out"
    /\ Blocked(w)
    /\ phase' = [phase EXCEPT ![w] = "refused"]
    /\ UNCHANGED <<lockPid, lockAge, age>>

\* A slip: the time stamp of the lock that is taken over is kept.
TakeLockOldStamp(w) ==
    /\ phase[w] = "clear"
    /\ phase' = [phase EXCEPT ![w] = "held"]
    /\ lockPid' = w
    /\ UNCHANGED <<lockAge, age>>

\* atomicWrite of the lock file, with the time sampled before the read.
TakeLock(w) ==
    /\ phase[w] = "clear"
    /\ phase' = [phase EXCEPT ![w] = "held"]
    /\ lockPid' = w
    /\ lockAge' = age[w]
    /\ UNCHANGED age

\* The file cannot be written: the command ends and the file is as it was.
TakeFails(w) ==
    /\ phase[w] = "clear"
    /\ phase' = [phase EXCEPT ![w] = "out"]
    /\ UNCHANGED <<lockPid, lockAge, age>>

\* release removes the file, whoever wrote it.
Release(w) ==
    /\ phase[w] = "held"
    /\ phase' = [phase EXCEPT ![w] = "out"]
    /\ lockPid' = NoLock
    /\ UNCHANGED <<lockAge, age>>

\* The window's process ends and a lock of its own stays behind; its pid may
\* be given to another process.
LeaveBehind(w) ==
    /\ phase' = [phase EXCEPT ![w] = "out"]
    /\ lockPid' \in IF lockPid = w THEN {Gone, Stranger} ELSE {lockPid}
    /\ UNCHANGED <<lockAge, age>>

\* The file cannot be removed: passed over in silence.
ReleaseFails(w) == phase[w] = "held" /\ LeaveBehind(w)

Die(w) == phase[w] \in {"clear", "held"} /\ LeaveBehind(w)

\* May time pass for this window?
Unhurried(w) == Dawdle \/ Outside(w) \/ age[w] < StaleMinutes

Older(a) == IF a < Old THEN a + 1 ELSE Old

Tick ==
    /\ \A w \in Window : Unhurried(w)
    /\ lockAge' = Older(lockAge)
    /\ age' = [w \in Window |-> Older(age[w])]
    /\ UNCHANGED <<lockPid, phase>>

\* The clock is set back: stamps become younger, down to lying ahead.
Younger(a, minutes) == IF a - minutes < 0 THEN -1 ELSE a - minutes

ClockBack ==
    /\ SetBack
    /\ \E minutes \in 1 .. Old + 1 :
          /\ lockAge' = Younger(lockAge, minutes)
          /\ age' = [w \in Window |-> Younger(age[w], minutes)]
    /\ UNCHANGED <<lockPid, phase>>

LockNext ==
    \/ \E w \in Window :
          \/ ReadLock(w) \/ Refuse(w)
          \/ TakeLock(w) \/ TakeFails(w)
          \/ Release(w) \/ ReleaseFails(w)
          \/ Die(w)
    \/ Tick
    \/ ClockBack

LockSpec == LockInit /\ [][LockNext]_lockVars

\* Time passes, and a command that has begun goes on.
FairLockSpec ==
    /\ LockSpec
    /\ WF_lockVars(Tick)
    /\ \A w \in Window :
          WF_lockVars(TakeLock(w) \/ TakeFails(w) \/ Release(w) \/ ReleaseFails(w))

-----------------------------------------------------------------------------
(* Properties *)

LockTypeOK ==
    /\ lockPid \in Window \cup {NoLock, Gone, Stranger}
    /\ lockAge \in Ages
    /\ phase \in [Window -> {"out", "refused", "clear", "held"}]
    /\ age \in [Window -> Ages]

\* Two windows never both have the right to write data files.
MutualExclusion ==
    \A v, w \in Window : phase[v] = "held" /\ phase[w] = "held" => v = w

\* A window that may write is named in the lock file, so that others can tell:
\* nobody overwrites or removes the lock of a window at work.
HolderIsNamed ==
    \A w \in Window : phase[w] = "held" => lockPid = w

\* A lock that nobody holds any more stops nobody for ever (lock.h:16), be
\* its pid free or given to another process, unless the clock is set back
\* again and again.
LeftoverExpires ==
    <>[][~ClockBack]_lockVars
        => (lockPid = Stranger ~> \A w \in Window : ~Blocked(w))

=============================================================================
