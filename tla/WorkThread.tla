----------------------------- MODULE WorkThread -----------------------------
(***************************************************************************)
(* The thread that runs the window's work (src/gui/gui/WorkThread.cpp) and *)
(* the queue it takes it from (src/include/utility/ConcurrentQueue.hpp).   *)
(* One thread, the window's, pushes and destroys; one, the worker, pops.   *)
(* The members of ConcurrentQueue lock the_mutex: each is one step up to   *)
(* the unlock, and notify_one is the next.                                 *)
(***************************************************************************)
EXTENDS Naturals, Sequences, SequencesExt

CONSTANTS
    MaxQueue, \* bound: functions waiting in the queue
    MaxPosted \* bound: signals waiting for the window

ASSUME QueueAssumption == MaxQueue \in Nat \ {0} /\ MaxPosted \in Nat \ {0}

VARIABLES
    the_queue,
    m_wait,
    m_stop,
    worker,  \* where run() is
    f,       \* the function taken from the queue
    caller,  \* where the window's thread is, in WorkThread's members
    posted,  \* the signals the window has not handled yet
    synced,  \* history: the worker has locked the_mutex after stopWaiting
    extra    \* history: the functions taken after stopWaiting

threadVars == <<the_queue, m_wait, m_stop, worker, f, caller, posted, synced, extra>>

KillWork == [kind |-> "kill"] \* the function kill(), which does nothing

WorkerPlaces == {"test", "pop", "wait", "run", "ended", "terminated"}
Closing == {"stopping", "killPushed", "waiting", "gone"}
CallerPlaces == {"free", "pushed"} \union Closing

ThreadInit ==
    /\ the_queue = << >> /\ m_wait = TRUE /\ m_stop = FALSE
    /\ worker = "test" /\ f = KillWork /\ caller = "free" /\ posted = << >>
    /\ synced = FALSE /\ extra = 0

(* A signal is posted to the thread of the window, which no longer handles *)
(* any when it is being destroyed.                                         *)
Posted(signal) == IF caller \in Closing THEN posted ELSE Append(posted, signal)

-----------------------------------------------------------------------------
(* The thread of the window. *)

(* addWorkFunction, up to the unlock in push. *)
addWorkFunction(wf) ==
    /\ caller = "free"
    /\ Len(the_queue) < MaxQueue
    /\ the_queue' = Append(the_queue, wf)
    /\ caller' = "pushed"
    /\ UNCHANGED <<m_wait, m_stop, worker, f, posted, synced, extra>>

(* Fault of the next definition: nobody is notified of the kill function. *)
notify_one_NotOfKill ==
    /\ caller \in {"pushed", "killPushed"}
    /\ worker' = IF worker = "wait" /\ caller = "pushed" THEN "pop" ELSE worker
    /\ caller' = IF caller = "pushed" THEN "free" ELSE "waiting"
    /\ UNCHANGED <<the_queue, m_wait, m_stop, f, posted, synced, extra>>

(* the_condition_variable.notify_one(), of push and of stopWaiting. *)
notify_one ==
    /\ caller \in {"pushed", "killPushed"}
    /\ worker' = IF worker = "wait" THEN "pop" ELSE worker
    /\ caller' = IF caller = "pushed" THEN "free" ELSE "waiting"
    /\ UNCHANGED <<the_queue, m_wait, m_stop, f, posted, synced, extra>>

(* ~WorkThread, the first statement.  m_stop is not protected. *)
Destroy ==
    /\ caller = "free"
    /\ m_stop' = TRUE
    /\ caller' = "stopping"
    /\ posted' = << >>
    /\ UNCHANGED <<the_queue, m_wait, worker, f, synced, extra>>

(* Fault of the next definition: no function is pushed. *)
stopWaiting_NothingPushed ==
    /\ caller = "stopping"
    /\ m_wait' = FALSE
    /\ caller' = "killPushed"
    /\ UNCHANGED <<the_queue, m_stop, worker, f, posted, synced, extra>>

(* stopWaiting(kill), up to the unlock. *)
stopWaiting ==
    /\ caller = "stopping"
    /\ the_queue' = Append(the_queue, KillWork)
    /\ m_wait' = FALSE
    /\ caller' = "killPushed"
    /\ UNCHANGED <<m_stop, worker, f, posted, synced, extra>>

(* wait(5000) returns true. *)
waitEnds ==
    /\ caller = "waiting" /\ worker = "ended"
    /\ caller' = "gone"
    /\ UNCHANGED <<the_queue, m_wait, m_stop, worker, f, posted, synced, extra>>

(* wait(5000) returns false: terminate().  Five seconds pass in a function *)
(* or in waiting only: kill() and the worker's other steps are short.      *)
waitTimesOut ==
    /\ caller = "waiting"
    /\ worker \in {"wait", "run"} /\ (worker = "run" => f # KillWork)
    /\ worker' = "terminated"
    /\ caller' = "gone"
    /\ UNCHANGED <<the_queue, m_wait, m_stop, f, posted, synced, extra>>

-----------------------------------------------------------------------------
(* The worker: run(). *)

(* while(!m_stop).  The read is a race with Destroy: the worker need not   *)
(* see the write before it has locked the_mutex after stopWaiting.         *)
testStop ==
    /\ worker = "test"
    /\ \/ ~(m_stop /\ synced) /\ worker' = "pop"
       \/ m_stop /\ worker' = "ended"
    /\ UNCHANGED <<the_queue, m_wait, m_stop, f, caller, posted, synced, extra>>

(* wait_and_pop finds nothing and waits, with the_mutex released. *)
waitForWork ==
    /\ worker = "pop"
    /\ the_queue = << >> /\ m_wait
    /\ worker' = "wait"
    /\ UNCHANGED <<the_queue, m_wait, m_stop, f, caller, posted, synced, extra>>

spuriousWakeup ==
    /\ worker = "wait"
    /\ worker' = "pop"
    /\ UNCHANGED <<the_queue, m_wait, m_stop, f, caller, posted, synced, extra>>

(* Fault of the next definition: no startedSignal. *)
popWork_Silent ==
    /\ worker = "pop"
    /\ the_queue # << >>
    /\ Len(posted) < MaxPosted
    /\ f' = Head(the_queue)
    /\ the_queue' = Tail(the_queue)
    /\ worker' = "run"
    /\ synced' = ~m_wait
    /\ extra' = IF m_wait THEN extra ELSE extra + 1
    /\ UNCHANGED <<m_wait, m_stop, caller, posted>>

(* Fault of the next definition: the newest function is taken. *)
popWork_Newest ==
    /\ worker = "pop"
    /\ the_queue # << >>
    /\ Len(posted) < MaxPosted
    /\ f' = Last(the_queue)
    /\ the_queue' = Front(the_queue)
    /\ worker' = "run"
    /\ posted' = Posted("started")
    /\ synced' = ~m_wait
    /\ extra' = IF m_wait THEN extra ELSE extra + 1
    /\ UNCHANGED <<m_wait, m_stop, caller>>

(* wait_and_pop takes the oldest function, and startedSignal is emitted.   *)
(* Taking one from an empty queue is undefined.                            *)
popWork ==
    /\ worker = "pop"
    /\ the_queue # << >>
    /\ Len(posted) < MaxPosted
    /\ f' = Head(the_queue)
    /\ the_queue' = Tail(the_queue)
    /\ worker' = "run"
    /\ posted' = Posted("started")
    /\ synced' = ~m_wait
    /\ extra' = IF m_wait THEN extra ELSE extra + 1
    /\ UNCHANGED <<m_wait, m_stop, caller>>

(* f() returns, and finishedSignal is emitted. *)
workReturns ==
    /\ worker = "run"
    /\ Len(posted) < MaxPosted
    /\ worker' = "test"
    /\ posted' = Posted("finished")
    /\ UNCHANGED <<the_queue, m_wait, m_stop, f, caller, synced, extra>>

run == testStop \/ waitForWork \/ spuriousWakeup \/ popWork \/ workReturns
=============================================================================
