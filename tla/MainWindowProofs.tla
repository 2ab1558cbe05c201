-------------------------- MODULE MainWindowProofs --------------------------
(***************************************************************************)
(* Proofs about MainWindow, for queues of every length and every number of *)
(* images: nothing is assumed of the user.                                 *)
(***************************************************************************)
EXTENDS MainWindow, TLAPS

(* After stopWaiting the queue has a function, until the worker takes one; *)
(* it has locked the_mutex then, sees m_stop, and takes no other.  Nobody  *)
(* sleeps once stopWaiting has notified.                                   *)
StopWaitingDone == {"killPushed", "waiting", "gone"}

CloseInv ==
    /\ m_wait <=> caller \notin StopWaitingDone
    /\ m_stop <=> caller \in Closing
    /\ synced => ~m_wait /\ worker \in {"run", "test", "ended", "terminated"}
    /\ synced => extra = 1
    /\ ~synced => extra = 0
    /\ ~m_wait /\ ~synced => the_queue # << >>
    /\ caller \in {"waiting", "gone"} => worker # "wait"

(* The images are loaded in the order of their numbers.  The window has    *)
(* none, or the last one loaded, unless the news of that is still posted;  *)
(* what waits and what runs is bound to one that has been loaded.          *)
LoadInv ==
    /\ loaded <= m_io
    /\ m_knoxcrypt <= loaded
    /\ m_knoxcrypt # 0 /\ "loaded" \notin ToSet(posted) /\ caller \notin Closing => m_knoxcrypt = loaded
    /\ \A w \in Pending : w # KillWork => w.on <= loaded

(* The spinner is there when n of the signals have been handled: the last  *)
(* of them but for loaded was started, or it was there before.             *)
Busy(s, spinner, n) ==
    \/ \E j \in 1 .. n : s[j] = "started" /\ \A k \in j + 1 .. n : s[k] = "loaded"
    \/ spinner /\ \A k \in 1 .. n : s[k] = "loaded"

Spins(s, spinner) == \A i \in 1 .. Len(s) : s[i] = "finished" => Busy(s, spinner, i - 1)

SpinInv ==
    /\ Spins(posted, m_spinner)
    /\ worker = "run" /\ caller \notin Closing => Busy(posted, m_spinner, Len(posted))

-----------------------------------------------------------------------------
(* Sequences. *)

(* Append adds one element at the end. *)
LEMMA AppendFacts ==
    ASSUME NEW S, NEW s \in Seq(S), NEW e \in S
    PROVE  /\ Append(s, e) \in Seq(S) /\ Append(s, e) # << >>
           /\ Len(Append(s, e)) = Len(s) + 1
           /\ \A i \in 1 .. Len(s) : Append(s, e)[i] = s[i]
           /\ Append(s, e)[Len(s) + 1] = e
           /\ ToSet(Append(s, e)) = ToSet(s) \union {e}
    BY DEF ToSet

(* Tail takes the first element away, and moves the others up. *)
LEMMA TailFacts ==
    ASSUME NEW S, NEW s \in Seq(S), s # << >>
    PROVE  /\ Tail(s) \in Seq(S) /\ Head(s) \in S /\ Head(s) = s[1]
           /\ Len(s) \in Nat \ {0} /\ Len(Tail(s)) = Len(s) - 1
           /\ \A i \in 1 .. Len(s) - 1 : Tail(s)[i] = s[i + 1]
           /\ ToSet(s) = {Head(s)} \union ToSet(Tail(s))
<1>1. /\ Tail(s) \in Seq(S) /\ Head(s) \in S /\ Head(s) = s[1]
      /\ Len(s) \in Nat \ {0} /\ Len(Tail(s)) = Len(s) - 1
      /\ \A i \in 1 .. Len(s) - 1 : Tail(s)[i] = s[i + 1]
    OBVIOUS
<1>2. ASSUME NEW x \in ToSet(s) PROVE x \in {Head(s)} \union ToSet(Tail(s))
  <2>1. PICK i \in 1 .. Len(s) : x = s[i]
      BY <1>2 DEF ToSet
  <2>2. CASE i = 1
      BY <1>1, <2>1, <2>2
  <2>3. CASE i # 1
    <3>1. i - 1 \in 1 .. Len(Tail(s)) /\ Tail(s)[i - 1] = x
        BY <1>1, <2>1, <2>3
    <3>2. i - 1 \in DOMAIN Tail(s)
        BY <1>1, <3>1
    <3> QED
        BY <3>1, <3>2 DEF ToSet
  <2> QED
      BY <2>2, <2>3
<1>3. {Head(s)} \union ToSet(Tail(s)) \subseteq ToSet(s)
    BY <1>1 DEF ToSet
<1> QED
    BY <1>1, <1>2, <1>3

-----------------------------------------------------------------------------
(* Types. *)

(* A signal that is posted is a new one in the sequence, before closing.   *)
LEMMA PostedFacts ==
    ASSUME posted \in Seq(Signals), NEW signal \in Signals
    PROVE  /\ Posted(signal) \in Seq(Signals)
           /\ caller \in Closing => Posted(signal) = posted
           /\ caller \notin Closing => ToSet(Posted(signal)) = ToSet(posted) \union {signal}
    BY AppendFacts DEF Posted

(* Images are numbered from one on, and stopWaiting finds room. *)
Numbered ==
    /\ tree > 0 => m_knoxcrypt # 0
    /\ "loaded" \in ToSet(posted) => loaded # 0
    /\ loader # "idle" => m_io # 0
    /\ caller \notin StopWaitingDone => Len(the_queue) <= MaxQueue

TypeInv == TypeOK /\ Numbered

(* The variables start within their types. *)
LEMMA TypeInit == Init => TypeInv
<1> SUFFICES ASSUME Init PROVE TypeInv
    OBVIOUS
<1>1. f \in Work \union {KillWork} /\ the_queue \in Seq(Work \union {KillWork}) /\ Len(the_queue) = 0
    BY DEF Init, ThreadInit
<1>2. posted \in Seq(Signals) /\ Len(posted) = 0 /\ "loaded" \notin ToSet(posted)
    BY DEF Init, ThreadInit, ToSet
<1>3. worker \in WorkerPlaces /\ caller \in CallerPlaces /\ loader \in LoaderPlaces
    BY DEF Init, ThreadInit, WorkerPlaces, CallerPlaces, LoaderPlaces
<1>4. /\ m_wait \in BOOLEAN /\ m_stop \in BOOLEAN /\ synced \in BOOLEAN
      /\ m_spinner \in BOOLEAN /\ asking \in BOOLEAN
    BY Zenon DEF Init, ThreadInit
<1>5. Len(the_queue) <= MaxQueue + 1
    BY <1>1, <1>2, QueueAssumption
<1>6. /\ m_knoxcrypt \in 0 .. MaxLoads /\ m_io \in 0 .. MaxLoads
      /\ loaded \in 0 .. MaxLoads /\ requested \in 0 .. MaxLoads
      /\ tree \in Nat /\ extra \in Nat
    BY WindowAssumption DEF Init, ThreadInit
<1>7. TypeOK
    BY <1>1, <1>2, <1>3, <1>4, <1>5, <1>6 DEF TypeOK
<1>8. Numbered
    BY <1>1, <1>2, QueueAssumption DEF Init, Numbered
<1> QED
    BY <1>7, <1>8 DEF TypeInv

(* A step of notify_one, of the destructor or of the worker. *)
LEMMA TypeThread ==
    ASSUME TypeInv, UNCHANGED windowVars,
           notify_one \/ stopWaiting \/ waitEnds \/ waitTimesOut \/ run
    PROVE  TypeInv'
<1> USE DEF TypeInv, TypeOK, Numbered, windowVars, WorkerPlaces, CallerPlaces, StopWaitingDone, Closing
<1>1. CASE notify_one
    BY <1>1 DEF notify_one
<1>2. CASE stopWaiting
  <2>1. the_queue' \in Seq(Work \union {KillWork}) /\ Len(the_queue') = Len(the_queue) + 1 /\ Len(the_queue) \in Nat
      BY <1>2, AppendFacts DEF stopWaiting
  <2>2. m_wait' \in BOOLEAN
      BY <1>2 DEF stopWaiting
  <2>3. Len(the_queue') <= MaxQueue + 1
      BY <1>2, <2>1, QueueAssumption DEF stopWaiting
  <2>4. caller' \in CallerPlaces
      BY <1>2 DEF stopWaiting
  <2> QED
      BY <1>2, <2>1, <2>2, <2>3, <2>4 DEF stopWaiting
<1>3. CASE waitEnds \/ waitTimesOut
    BY <1>3 DEF waitEnds, waitTimesOut
<1>4. CASE testStop \/ waitForWork \/ spuriousWakeup
    BY <1>4 DEF testStop, waitForWork, spuriousWakeup
<1>5. CASE popWork
  <2>1. /\ Tail(the_queue) \in Seq(Work \union {KillWork}) /\ Head(the_queue) \in Work \union {KillWork}
        /\ Len(Tail(the_queue)) = Len(the_queue) - 1 /\ Len(the_queue) \in Nat
      BY <1>5, TailFacts DEF popWork
  <2>2. posted' \in Seq(Signals)
      BY <1>5, PostedFacts DEF popWork, Signals
  <2>3. "loaded" \in ToSet(posted') => "loaded" \in ToSet(posted)
      BY <1>5, AppendFacts DEF popWork, Posted, Signals
  <2> QED
      BY <1>5, <2>1, <2>2, <2>3, QueueAssumption DEF popWork
<1>6. CASE workReturns
  <2>1. posted' \in Seq(Signals)
      BY <1>6, PostedFacts DEF workReturns, Signals
  <2>2. "loaded" \in ToSet(posted') => "loaded" \in ToSet(posted)
      BY <1>6, AppendFacts DEF workReturns, Posted, Signals
  <2> QED
      BY <1>6, <2>1, <2>2 DEF workReturns
<1> QED
    BY <1>1, <1>2, <1>3, <1>4, <1>5, <1>6 DEF run

(* A step of the loader. *)
LEMMA TypeLoader ==
    ASSUME TypeInv, loaderRuns PROVE TypeInv'
<1> USE DEF TypeInv, TypeOK, Numbered, threadVars, LoaderPlaces
<1>1. CASE loadTSImage
    BY <1>1 DEF loadTSImage
<1>2. CASE finishedLoading
  <2>1. posted' \in Seq(Signals)
      BY <1>2, PostedFacts DEF finishedLoading, Signals
  <2> QED
      BY <1>2, <2>1 DEF finishedLoading
<1>3. CASE loaderEnds
    BY <1>3 DEF loaderEnds
<1> QED
    BY <1>1, <1>2, <1>3 DEF loaderRuns

(* A signal that is handled is one less. *)
LEMMA HandledFacts ==
    ASSUME TypeInv, NEW signal \in Signals, handles(signal)
    PROVE  /\ posted' = Tail(posted) /\ posted' \in Seq(Signals)
           /\ Len(posted') = Len(posted) - 1 /\ Len(posted) \in Nat \ {0}
           /\ posted[1] = signal /\ ToSet(posted) = {signal} \union ToSet(posted')
           /\ \A i \in 1 .. Len(posted') : posted'[i] = posted[i + 1]
    BY TailFacts DEF handles, TypeInv, TypeOK

(* A slot of the window's that a signal calls. *)
LEMMA TypeHandles ==
    ASSUME TypeInv, handlesSignal PROVE TypeInv'
<1> USE DEF TypeInv, TypeOK, Numbered
<1>1. ASSUME NEW signal \in Signals, handles(signal)
      PROVE  /\ posted' \in Seq(Signals)
             /\ "loaded" \in ToSet(posted') => loaded # 0
             /\ signal = "loaded" => loaded # 0
  <2> HIDE DEF TypeInv
  <2>1. /\ posted' \in Seq(Signals) /\ Len(posted') = Len(posted) - 1 /\ Len(posted) \in Nat
        /\ ToSet(posted) = {signal} \union ToSet(posted')
      BY <1>1, HandledFacts
  <2> QED
      BY <2>1, QueueAssumption DEF TypeInv
<1>2. CASE setBusyIndicator
  <2>1. handles("started") /\ "started" \in Signals
      BY <1>2 DEF setBusyIndicator, Signals
  <2> QED
      BY <1>1, <1>2, <2>1 DEF setBusyIndicator, handles
<1>3. CASE setReadyIndicator
  <2>1. handles("finished") /\ "finished" \in Signals
      BY <1>3 DEF setReadyIndicator, Signals
  <2> QED
      BY <1>1, <1>3, <2>1 DEF setReadyIndicator, handles
<1>4. CASE getknoxcryptFromLoader
  <2>1. handles("loaded") /\ "loaded" \in Signals
      BY <1>4 DEF getknoxcryptFromLoader, Signals
  <2> QED
      BY <1>1, <1>4, <2>1 DEF getknoxcryptFromLoader, handles
<1> QED
    BY <1>2, <1>3, <1>4 DEF handlesSignal

(* A step that the user takes. *)
LEMMA TypeUser ==
    ASSUME TypeInv, userActs PROVE TypeInv'
<1> USE DEF TypeInv, TypeOK, Numbered, threadVars, windowVars, CallerPlaces, Closing, StopWaitingDone, LoaderPlaces
<1>1. ASSUME NEW kind \in WorkKinds, doWork(kind) PROVE TypeInv'
  <2>1. [kind |-> kind, on |-> m_knoxcrypt] \in Work \union {KillWork}
      BY <1>1 DEF doWork, Work
  <2>2. the_queue' \in Seq(Work \union {KillWork}) /\ Len(the_queue') = Len(the_queue) + 1 /\ Len(the_queue) \in Nat
      BY <1>1, <2>1, AppendFacts DEF doWork, addWorkFunction
  <2> QED
      BY <1>1, <2>2, QueueAssumption DEF doWork, addWorkFunction
<1>2. CASE loadFileButtonHandler
  <2>1. asking' \in BOOLEAN
      BY <1>2 DEF loadFileButtonHandler
  <2> QED
      BY <1>2, <2>1, WindowAssumption DEF loadFileButtonHandler
<1>3. CASE givenUp
    BY <1>3 DEF givenUp
<1>4. CASE startLoading
  <2>1. asking' \in BOOLEAN
      BY <1>4 DEF startLoading
  <2>2. m_io' \in 0 .. MaxLoads /\ requested' \in 0 .. MaxLoads /\ m_io' # 0
      BY <1>4, WindowAssumption DEF startLoading
  <2> QED
      BY <1>4, <2>1, <2>2 DEF startLoading
<1>5. CASE closeWindow
  <2>1. posted' \in Seq(Signals) /\ Len(posted') = 0 /\ ToSet(posted') = {}
      BY <1>5 DEF closeWindow, Destroy, ToSet
  <2> QED
      BY <1>5, <2>1, QueueAssumption DEF closeWindow, Destroy
<1>6. CASE removedClickedSlot
  <2>1. [kind |-> "byReference", on |-> m_knoxcrypt] \in Work \union {KillWork}
      BY <1>6 DEF removedClickedSlot, Work, WorkKinds
  <2>2. the_queue' \in Seq(Work \union {KillWork}) /\ Len(the_queue') = Len(the_queue) + 1 /\ Len(the_queue) \in Nat
      BY <1>6, <2>1, AppendFacts DEF removedClickedSlot, addWorkFunction
  <2>3. tree' \in Nat /\ (tree' > 0 => tree > 0)
      BY <1>6 DEF removedClickedSlot
  <2> QED
      BY <1>6, <2>2, <2>3, QueueAssumption DEF removedClickedSlot, addWorkFunction
<1> QED
    BY <1>1, <1>2, <1>3, <1>4, <1>5, <1>6 DEF userActs

(* No step of any thread takes a variable out of its type, or a sequence   *)
(* over its bound.                                                         *)
LEMMA TypeNext == TypeInv /\ [Next]_vars => TypeInv'
<1> SUFFICES ASSUME TypeInv, [Next]_vars PROVE TypeInv'
    OBVIOUS
<1>1. CASE UNCHANGED vars
    BY <1>1 DEF vars, threadVars, windowVars, TypeInv, TypeOK, Numbered
<1> QED
    BY <1>1, TypeThread, TypeLoader, TypeHandles, TypeUser DEF Next

-----------------------------------------------------------------------------
(* Closing. *)

(* Before the window is closed nothing is to be shown of closing. *)
LEMMA CloseInit == Init => CloseInv
    BY DEF Init, ThreadInit, CloseInv, StopWaitingDone, Closing

(* Every step keeps CloseInv: the kill function stays in the queue until   *)
(* the worker takes a function, which then is the last one it takes.       *)
LEMMA CloseNext == TypeInv /\ CloseInv /\ [Next]_vars => CloseInv'
<1> SUFFICES ASSUME TypeInv, CloseInv, [Next]_vars PROVE CloseInv'
    OBVIOUS
<1> USE DEF CloseInv, StopWaitingDone, Closing
<1>1. CASE UNCHANGED <<the_queue, m_wait, m_stop, worker, caller, synced, extra>>
    BY <1>1
<1>2. CASE notify_one
    BY <1>2 DEF notify_one
<1>3. CASE stopWaiting
    BY <1>3, AppendFacts DEF stopWaiting, TypeInv, TypeOK
<1>4. CASE waitEnds \/ waitTimesOut
    BY <1>4 DEF waitEnds, waitTimesOut
<1>5. CASE testStop \/ waitForWork \/ spuriousWakeup \/ workReturns
    BY <1>5 DEF testStop, waitForWork, spuriousWakeup, workReturns
<1>6. CASE popWork
  <2>1. ~synced /\ extra = 0
      BY <1>6 DEF popWork
  <2>2. CASE m_wait
    <3>1. ~synced' /\ extra' = 0
        BY <1>6, <2>1, <2>2, Zenon DEF popWork
    <3> QED
        BY <1>6, <2>2, <3>1 DEF popWork
  <2>3. CASE ~m_wait
    <3>1. synced'
        BY <1>6, <2>3, Zenon DEF popWork
    <3>2. extra' = 1
        BY <1>6, <2>1, <2>3 DEF popWork
    <3> QED
        BY <1>6, <2>3, <3>1, <3>2 DEF popWork
  <2> QED
      BY <2>2, <2>3
<1>7. ASSUME NEW kind \in WorkKinds, doWork(kind) PROVE CloseInv'
    BY <1>7 DEF doWork, addWorkFunction
<1>8. CASE removedClickedSlot
    BY <1>8 DEF removedClickedSlot, addWorkFunction
<1>9. CASE closeWindow
    BY <1>9 DEF closeWindow, Destroy
<1>10. loadFileButtonHandler \/ givenUp \/ startLoading \/ handlesSignal \/ loaderRuns \/ UNCHANGED vars
        => UNCHANGED <<the_queue, m_wait, m_stop, worker, caller, synced, extra>>
    BY DEF loadFileButtonHandler, givenUp, startLoading, handlesSignal, setBusyIndicator, setReadyIndicator,
        getknoxcryptFromLoader, handles, loaderRuns, loadTSImage, finishedLoading, loaderEnds, vars, threadVars
<1> QED
    BY <1>1, <1>2, <1>3, <1>4, <1>5, <1>6, <1>7, <1>8, <1>9, <1>10 DEF Next, userActs, run

-----------------------------------------------------------------------------
(* Loading. *)

(* The window starts without an image, a tree and work. *)
LEMMA LoadInit == Init => LoadInv
<1> SUFFICES ASSUME Init PROVE LoadInv
    OBVIOUS
<1>1. Pending = {}
    BY DEF Init, ThreadInit, Pending, ToSet
<1> QED
    BY <1>1 DEF Init, LoadInv

(* A step of notify_one, of the destructor or of the worker adds no work,  *)
(* and posts no image.                                                     *)
LEMMA LoadThread ==
    ASSUME TypeInv, LoadInv, UNCHANGED windowVars,
           notify_one \/ stopWaiting \/ waitEnds \/ waitTimesOut \/ run
    PROVE  LoadInv'
<1> SUFFICES /\ Pending' \subseteq Pending \union {KillWork}
             /\ caller' \in Closing <=> caller \in Closing
             /\ caller \notin Closing => ("loaded" \in ToSet(posted') <=> "loaded" \in ToSet(posted))
    BY DEF LoadInv, windowVars
<1> USE DEF Pending, Closing
<1>1. CASE notify_one \/ waitEnds \/ waitTimesOut
    BY <1>1 DEF notify_one, waitEnds, waitTimesOut
<1>2. CASE stopWaiting
  <2>1. ToSet(the_queue') = ToSet(the_queue) \union {KillWork}
      BY <1>2, AppendFacts DEF stopWaiting, TypeInv, TypeOK
  <2> QED
      BY <1>2, <2>1 DEF stopWaiting
<1>3. CASE testStop \/ waitForWork \/ spuriousWakeup
    BY <1>3 DEF testStop, waitForWork, spuriousWakeup
<1>4. CASE popWork
  <2>1. ToSet(the_queue) = {f'} \union ToSet(the_queue')
      BY <1>4, TailFacts DEF popWork, TypeInv, TypeOK
  <2>2. caller \notin Closing => ToSet(posted') = ToSet(posted) \union {"started"}
      BY <1>4, PostedFacts DEF popWork, TypeInv, TypeOK, Signals
  <2> QED
      BY <1>4, <2>1, <2>2 DEF popWork
<1>5. CASE workReturns
  <2>1. caller \notin Closing => ToSet(posted') = ToSet(posted) \union {"finished"}
      BY <1>5, PostedFacts DEF workReturns, TypeInv, TypeOK, Signals
  <2> QED
      BY <1>5, <2>1 DEF workReturns
<1> QED
    BY <1>1, <1>2, <1>3, <1>4, <1>5 DEF run

(* The loader makes the file system of the image that was opened last, and *)
(* announces it.                                                           *)
LEMMA LoadLoader ==
    ASSUME TypeInv, LoadInv, loaderRuns
    PROVE  LoadInv'
<1>1. CASE loadTSImage \/ loaderEnds
    BY <1>1 DEF loadTSImage, loaderEnds, threadVars, LoadInv, Pending
<1>2. CASE finishedLoading
  <2>1. caller \notin Closing => "loaded" \in ToSet(posted')
      BY <1>2, PostedFacts DEF finishedLoading, TypeInv, TypeOK, Signals
  <2>2. Pending' = Pending /\ caller' = caller
      BY <1>2 DEF finishedLoading, Pending
  <2>3. /\ loaded' = m_io /\ m_io' = m_io /\ m_knoxcrypt' = m_knoxcrypt
        /\ loaded \in Nat /\ m_io \in Nat /\ m_knoxcrypt \in Nat
      BY <1>2, WindowAssumption DEF finishedLoading, TypeInv, TypeOK
  <2>4. ASSUME NEW w \in Pending, w # KillWork PROVE w.on \in Nat /\ w.on <= loaded
      BY <2>4, WindowAssumption DEF Pending, LoadInv, TypeInv, TypeOK, Work, ToSet
  <2> QED
      BY <2>1, <2>2, <2>3, <2>4 DEF LoadInv
<1> QED
    BY <1>1, <1>2 DEF loaderRuns

(* A signal that is handled is gone; that of the loader brings the file    *)
(* system.                                                                 *)
LEMMA LoadHandles ==
    ASSUME TypeInv, LoadInv, handlesSignal
    PROVE  LoadInv'
<1>1. ASSUME NEW signal \in Signals, handles(signal)
      PROVE  /\ Pending' = Pending /\ caller' = caller
             /\ signal # "loaded" => ("loaded" \in ToSet(posted') <=> "loaded" \in ToSet(posted))
  <2>1. ToSet(posted) = {signal} \union ToSet(posted')
      BY <1>1, HandledFacts
  <2> QED
      BY <1>1, <2>1 DEF handles, Pending
<1> USE DEF LoadInv
<1>2. CASE setBusyIndicator
  <2>1. handles("started") /\ "started" \in Signals
      BY <1>2 DEF setBusyIndicator, Signals
  <2> QED
      BY <1>1, <1>2, <2>1 DEF setBusyIndicator
<1>3. CASE setReadyIndicator
  <2>1. handles("finished") /\ "finished" \in Signals
      BY <1>3 DEF setReadyIndicator, Signals
  <2> QED
      BY <1>1, <1>3, <2>1 DEF setReadyIndicator
<1>4. CASE getknoxcryptFromLoader
  <2>1. handles("loaded") /\ "loaded" \in Signals
      BY <1>4 DEF getknoxcryptFromLoader, Signals
  <2>2. loaded \in Nat
      BY WindowAssumption DEF TypeInv, TypeOK
  <2> QED
      BY <1>1, <1>4, <2>1, <2>2 DEF getknoxcryptFromLoader
<1> QED
    BY <1>2, <1>3, <1>4 DEF handlesSignal

(* Work that the user asks for is bound to the file system of the window.  *)
LEMMA LoadUser ==
    ASSUME TypeInv, LoadInv, userActs
    PROVE  LoadInv'
<1> USE DEF LoadInv
<1>1. ASSUME NEW w \in Work \union {KillWork}, w.on = m_knoxcrypt, addWorkFunction(w),
             UNCHANGED <<m_knoxcrypt, m_io, loaded>>
      PROVE  LoadInv'
  <2>1. ToSet(the_queue') = ToSet(the_queue) \union {w}
      BY <1>1, AppendFacts DEF addWorkFunction, TypeInv, TypeOK
  <2>2. Pending' = Pending \union {w}
      BY <1>1, <2>1 DEF addWorkFunction, Pending
  <2> QED
      BY <1>1, <2>2 DEF addWorkFunction, Closing
<1>2. ASSUME NEW kind \in WorkKinds, doWork(kind) PROVE LoadInv'
  <2>1. [kind |-> kind, on |-> m_knoxcrypt] \in Work \union {KillWork}
      BY <1>2 DEF doWork, Work, TypeInv, TypeOK, Numbered
  <2> QED
      BY <1>1, <1>2, <2>1 DEF doWork, windowVars
<1>3. CASE removedClickedSlot
  <2>1. [kind |-> "byReference", on |-> m_knoxcrypt] \in Work \union {KillWork}
      BY <1>3 DEF removedClickedSlot, Work, WorkKinds, TypeInv, TypeOK, Numbered
  <2> QED
      BY <1>1, <1>3, <2>1 DEF removedClickedSlot
<1>4. CASE loadFileButtonHandler
    BY <1>4, WindowAssumption DEF loadFileButtonHandler, threadVars, Pending, TypeInv, TypeOK
<1>5. CASE givenUp
    BY <1>5 DEF givenUp, threadVars, Pending
<1>6. CASE startLoading
    BY <1>6, WindowAssumption DEF startLoading, threadVars, Pending, TypeInv, TypeOK
<1>7. CASE closeWindow
    BY <1>7 DEF closeWindow, Destroy, Pending, Closing
<1> QED
    BY <1>2, <1>3, <1>4, <1>5, <1>6, <1>7 DEF userActs

(* Every step keeps LoadInv. *)
LEMMA LoadNext == TypeInv /\ LoadInv /\ [Next]_vars => LoadInv'
<1> SUFFICES ASSUME TypeInv, LoadInv, [Next]_vars PROVE LoadInv'
    OBVIOUS
<1>1. CASE UNCHANGED vars
    BY <1>1 DEF vars, threadVars, windowVars, LoadInv, Pending
<1> QED
    BY <1>1, LoadThread, LoadLoader, LoadHandles, LoadUser DEF Next

-----------------------------------------------------------------------------
(* The spinner. *)

(* Of a longer sequence the first signals are as they were. *)
LEMMA BusyAppend ==
    ASSUME NEW s \in Seq(Signals), NEW e \in Signals, NEW spinner \in BOOLEAN, NEW n \in 0 .. Len(s)
    PROVE  Busy(Append(s, e), spinner, n) <=> Busy(s, spinner, n)
<1>1. Len(s) \in Nat /\ \A k \in 1 .. n : Append(s, e)[k] = s[k]
    BY AppendFacts
<1>2. ASSUME NEW j \in 1 .. n PROVE \A k \in j + 1 .. n : Append(s, e)[k] = s[k]
    BY <1>1
<1> QED
    BY <1>1, <1>2 DEF Busy

(* started makes busy, loaded leaves it so, and finished comes when it is. *)
LEMMA SpinsAppend ==
    ASSUME NEW s \in Seq(Signals), NEW e \in Signals, NEW spinner \in BOOLEAN, Spins(s, spinner),
           e = "finished" => Busy(s, spinner, Len(s))
    PROVE  /\ Spins(Append(s, e), spinner)
           /\ e = "started" => Busy(Append(s, e), spinner, Len(Append(s, e)))
           /\ e = "loaded" /\ Busy(s, spinner, Len(s)) => Busy(Append(s, e), spinner, Len(Append(s, e)))
<1> DEFINE t == Append(s, e)
<1>1. /\ Len(t) = Len(s) + 1 /\ Len(s) \in Nat /\ t[Len(s) + 1] = e
      /\ \A i \in 1 .. Len(s) : t[i] = s[i]
    BY AppendFacts
<1>2. \A n \in 0 .. Len(s) : Busy(t, spinner, n) <=> Busy(s, spinner, n)
    BY BusyAppend
<1> HIDE DEF t
<1>3. ASSUME NEW i \in 1 .. Len(t), t[i] = "finished" PROVE Busy(t, spinner, i - 1)
  <2>1. CASE i \in 1 .. Len(s)
    <3>1. Busy(s, spinner, i - 1) /\ i - 1 \in 0 .. Len(s)
        BY <1>1, <1>3, <2>1 DEF Spins
    <3> QED
        BY <1>2, <3>1
  <2>2. CASE i = Len(s) + 1
    <3>1. e = "finished" /\ i - 1 = Len(s) /\ Len(s) \in 0 .. Len(s)
        BY <1>1, <1>3, <2>2
    <3> QED
        BY <1>2, <3>1
  <2> QED
      BY <1>1, <2>1, <2>2
<1>4. ASSUME e = "started" PROVE Busy(t, spinner, Len(t))
  <2>1. Len(t) \in 1 .. Len(t) /\ t[Len(t)] = "started" /\ Len(t) + 1 .. Len(t) = {}
      BY <1>1, <1>4
  <2> QED
      BY <2>1 DEF Busy
<1>5. ASSUME e = "loaded", Busy(s, spinner, Len(s)) PROVE Busy(t, spinner, Len(t))
  <2>1. Busy(t, spinner, Len(s))
      BY <1>1, <1>2, <1>5
  <2>2. \A k \in 1 .. Len(t) : k \in 1 .. Len(s) \/ t[k] = "loaded"
      BY <1>1, <1>5
  <2>3. CASE \E j \in 1 .. Len(s) : t[j] = "started" /\ \A k \in j + 1 .. Len(s) : t[k] = "loaded"
    <3>1. PICK j \in 1 .. Len(s) : t[j] = "started" /\ \A k \in j + 1 .. Len(s) : t[k] = "loaded"
        BY <2>3
    <3>2. j \in 1 .. Len(t) /\ \A k \in j + 1 .. Len(t) : t[k] = "loaded"
        BY <1>1, <2>2, <3>1
    <3> QED
        BY <3>1, <3>2 DEF Busy
  <2>4. CASE spinner /\ \A k \in 1 .. Len(s) : t[k] = "loaded"
      BY <2>2, <2>4 DEF Busy
  <2> QED
      BY <2>1, <2>3, <2>4 DEF Busy
<1> QED
    BY <1>3, <1>4, <1>5 DEF Spins, t

(* Handling the head and setting the spinner keeps both. *)
LEMMA SpinsTail ==
    ASSUME NEW s \in Seq(Signals), s # << >>, NEW spinner \in BOOLEAN, NEW after \in BOOLEAN,
           Spins(s, spinner), s[1] = "started" => after, s[1] = "loaded" => after = spinner
    PROVE  /\ Spins(Tail(s), after)
           /\ Busy(s, spinner, Len(s)) => Busy(Tail(s), after, Len(Tail(s)))
<1> DEFINE t == Tail(s)
<1>1. /\ Len(s) \in Nat \ {0} /\ Len(t) = Len(s) - 1
      /\ \A i \in 1 .. Len(s) - 1 : t[i] = s[i + 1]
    BY TailFacts
<1> HIDE DEF t
<1>2. ASSUME NEW n \in 1 .. Len(s), Busy(s, spinner, n) PROVE Busy(t, after, n - 1)
  <2>1. CASE \E j \in 1 .. n : s[j] = "started" /\ \A k \in j + 1 .. n : s[k] = "loaded"
    <3>1. PICK j \in 1 .. n : s[j] = "started" /\ \A k \in j + 1 .. n : s[k] = "loaded"
        BY <2>1
    <3>2. \A k \in j .. n - 1 : k \in 1 .. Len(s) - 1 /\ k + 1 \in j + 1 .. n
        BY <1>1, <3>1
    <3>3. \A k \in j .. n - 1 : t[k] = "loaded"
        BY <1>1, <3>1, <3>2
    <3>4. CASE j = 1
      <4>1. after /\ \A k \in 1 .. n - 1 : t[k] = "loaded"
          BY <3>1, <3>3, <3>4
      <4> QED
          BY <4>1 DEF Busy
    <3>5. CASE j # 1
      <4>1. j - 1 \in 1 .. n - 1 /\ t[j - 1] = "started" /\ (j - 1) + 1 .. n - 1 = j .. n - 1
          BY <1>1, <3>1, <3>5
      <4> QED
          BY <3>3, <4>1 DEF Busy
    <3> QED
        BY <3>4, <3>5
  <2>2. CASE spinner /\ \A k \in 1 .. n : s[k] = "loaded"
    <3>1. s[1] = "loaded"
        BY <1>1, <2>2
    <3>2. \A k \in 1 .. n - 1 : k \in 1 .. Len(s) - 1 /\ k + 1 \in 1 .. n
        BY <1>1
    <3>3. \A k \in 1 .. n - 1 : t[k] = "loaded"
        BY <1>1, <2>2, <3>2
    <3> QED
        BY <2>2, <3>1, <3>3 DEF Busy
  <2> QED
      BY <1>2, <2>1, <2>2 DEF Busy
<1>3. ASSUME NEW i \in 1 .. Len(t), t[i] = "finished" PROVE Busy(t, after, i - 1)
  <2>1. i + 1 \in 1 .. Len(s) /\ s[i + 1] = "finished" /\ (i + 1) - 1 = i /\ i \in 1 .. Len(s)
      BY <1>1, <1>3
  <2>2. Busy(s, spinner, i)
      BY <2>1 DEF Spins
  <2> QED
      BY <1>2, <2>1, <2>2
<1>4. Busy(s, spinner, Len(s)) => Busy(t, after, Len(t))
    BY <1>1, <1>2
<1> QED
    BY <1>3, <1>4 DEF Spins, t

(* No signal is posted at the start. *)
LEMMA SpinInit == Init => SpinInv
<1> SUFFICES ASSUME Init PROVE SpinInv
    OBVIOUS
<1>1. Len(posted) = 0 /\ worker = "test"
    BY DEF Init, ThreadInit
<1> QED
    BY <1>1 DEF SpinInv, Spins

(* Every step keeps SpinInv: each finished signal comes after the started  *)
(* signal of the same function.                                            *)
LEMMA SpinNext == TypeInv /\ SpinInv /\ [Next]_vars => SpinInv'
<1> SUFFICES ASSUME TypeInv, SpinInv, [Next]_vars PROVE SpinInv'
    OBVIOUS
<1>1. posted \in Seq(Signals) /\ m_spinner \in BOOLEAN
    BY DEF TypeInv, TypeOK
<1>2. CASE /\ UNCHANGED <<posted, m_spinner>> /\ (caller \in Closing => caller' \in Closing)
           /\ worker' = "run" => worker = "run" \/ caller \in Closing
    BY <1>2 DEF SpinInv
<1>3. CASE popWork /\ UNCHANGED windowVars
  <2>1. CASE caller \in Closing
      BY <1>3, <2>1 DEF popWork, Posted, SpinInv, windowVars
  <2>2. CASE caller \notin Closing
    <3>1. posted' = Append(posted, "started") /\ m_spinner' = m_spinner
        BY <1>3, <2>2 DEF popWork, Posted, windowVars
    <3>2. "started" \in Signals /\ Spins(posted, m_spinner)
        BY DEF Signals, SpinInv
    <3>3. Spins(posted', m_spinner') /\ Busy(posted', m_spinner', Len(posted'))
        BY <1>1, <3>1, <3>2, SpinsAppend
    <3> QED
        BY <3>3 DEF SpinInv
  <2> QED
      BY <2>1, <2>2
<1>4. CASE workReturns /\ UNCHANGED windowVars
  <2>1. CASE caller \in Closing
      BY <1>4, <2>1 DEF workReturns, Posted, SpinInv, windowVars
  <2>2. CASE caller \notin Closing
    <3>1. posted' = Append(posted, "finished") /\ m_spinner' = m_spinner /\ worker' = "test"
        BY <1>4, <2>2 DEF workReturns, Posted, windowVars
    <3>2. "finished" \in Signals /\ Spins(posted, m_spinner) /\ Busy(posted, m_spinner, Len(posted))
        BY <1>4, <2>2 DEF Signals, SpinInv, workReturns
    <3>3. Spins(posted', m_spinner')
        BY <1>1, <3>1, <3>2, SpinsAppend
    <3> QED
        BY <3>1, <3>3 DEF SpinInv
  <2> QED
      BY <2>1, <2>2
<1>5. CASE finishedLoading
  <2>1. CASE caller \in Closing
      BY <1>5, <2>1 DEF finishedLoading, Posted, SpinInv
  <2>2. CASE caller \notin Closing
    <3>1. /\ posted' = Append(posted, "loaded") /\ m_spinner' = m_spinner
          /\ worker' = worker /\ caller' = caller
        BY <1>5, <2>2 DEF finishedLoading, Posted
    <3>2. "loaded" \in Signals /\ Spins(posted, m_spinner)
        BY DEF Signals, SpinInv
    <3>3. /\ Spins(posted', m_spinner')
          /\ Busy(posted, m_spinner, Len(posted)) => Busy(posted', m_spinner', Len(posted'))
        BY <1>1, <3>1, <3>2, SpinsAppend
    <3> QED
        BY <3>1, <3>3 DEF SpinInv
  <2> QED
      BY <2>1, <2>2
<1>6. CASE handlesSignal
  <2>1. PICK signal \in Signals : handles(signal) /\ m_spinner' \in BOOLEAN
            /\ (signal = "started" => m_spinner') /\ (signal = "loaded" => m_spinner' = m_spinner)
    <3>1. CASE setBusyIndicator
        BY <3>1 DEF setBusyIndicator, Signals
    <3>2. CASE setReadyIndicator
        BY <3>2 DEF setReadyIndicator, Signals
    <3>3. CASE getknoxcryptFromLoader
        BY <1>1, <3>3 DEF getknoxcryptFromLoader, Signals
    <3> QED
        BY <1>6, <3>1, <3>2, <3>3 DEF handlesSignal
  <2>2. /\ posted # << >> /\ posted[1] = signal /\ posted' = Tail(posted)
        /\ worker' = worker /\ caller' = caller
      BY <1>1, <2>1 DEF handles
  <2>3. /\ Spins(posted', m_spinner')
        /\ Busy(posted, m_spinner, Len(posted)) => Busy(posted', m_spinner', Len(posted'))
      BY <1>1, <2>1, <2>2, SpinsTail DEF SpinInv
  <2> QED
      BY <2>2, <2>3 DEF SpinInv
<1>7. CASE closeWindow
  <2>1. Len(posted') = 0 /\ caller' \in Closing
      BY <1>7 DEF closeWindow, Destroy, Closing
  <2> QED
      BY <2>1 DEF SpinInv, Spins
<1>8. CASE notify_one /\ UNCHANGED windowVars
    BY <1>2, <1>8 DEF notify_one, windowVars, Closing
<1>9. CASE (stopWaiting \/ waitEnds \/ waitTimesOut) /\ UNCHANGED windowVars
    BY <1>2, <1>9 DEF stopWaiting, waitEnds, waitTimesOut, windowVars, Closing
<1>10. CASE (testStop \/ waitForWork \/ spuriousWakeup) /\ UNCHANGED windowVars
    BY <1>2, <1>10 DEF testStop, waitForWork, spuriousWakeup, windowVars
<1>11. ASSUME NEW kind \in WorkKinds, doWork(kind) PROVE SpinInv'
    BY <1>2, <1>11 DEF doWork, addWorkFunction, windowVars, Closing
<1>12. CASE removedClickedSlot
    BY <1>2, <1>12 DEF removedClickedSlot, addWorkFunction, Closing
<1>13. CASE loadFileButtonHandler \/ givenUp \/ startLoading \/ loadTSImage \/ loaderEnds \/ UNCHANGED vars
    BY <1>2, <1>13
    DEF loadFileButtonHandler, givenUp, startLoading, loadTSImage, loaderEnds, vars, threadVars, windowVars
<1> QED
    BY <1>3, <1>4, <1>5, <1>6, <1>7, <1>8, <1>9, <1>10, <1>11, <1>12, <1>13 DEF Next, userActs, loaderRuns, run

-----------------------------------------------------------------------------
(* The theorems. *)

IInv == TypeInv /\ CloseInv /\ LoadInv /\ SpinInv

(* The inductive invariant: types, closing, loading and the spinner        *)
(* (WorkThread.cpp:44-68, LoaderThread.cpp:45-76, MainWindow.cpp:356-385). *)
THEOREM WindowInvariant == Spec => []IInv
<1>1. Init => IInv
    BY TypeInit, CloseInit, LoadInit, SpinInit DEF IInv
<1>2. IInv /\ [Next]_vars => IInv'
    BY TypeNext, CloseNext, LoadNext, SpinNext DEF IInv
<1> QED
    BY <1>1, <1>2, PTL DEF Spec

(* The variables stay within their types and bounds.                       *)
THEOREM WindowTypeCorrect == Spec => []TypeOK
<1>1. IInv => TypeOK
    BY DEF IInv, TypeInv
<1> QED
    BY <1>1, WindowInvariant, PTL

(* wait_and_pop never pops an empty queue, however the window's thread and *)
(* the worker interleave (WorkThread.cpp:44-52, ConcurrentQueue.hpp:55-75).*)
THEOREM PopIsSafe == Spec => []PopFindsWork
<1>1. IInv => PopFindsWork
    BY DEF IInv, CloseInv, PopFindsWork
<1> QED
    BY <1>1, WindowInvariant, PTL

(* The worker starts at most one function after stopWaiting, for queues of *)
(* every length, and is not asleep when the destructor waits for it.       *)
THEOREM ClosesPromptly == Spec => []ClosingIsPrompt
<1>1. IInv => ClosingIsPrompt
    BY DEF IInv, CloseInv, ClosingIsPrompt
<1> QED
    BY <1>1, WindowInvariant, PTL

(* setReadyIndicator never works on a spinner that is not there.           *)
THEOREM SpinnerIsThere == Spec => []ReadyFindsSpinner
<1>1. IInv => ReadyFindsSpinner
  <2> SUFFICES ASSUME IInv, posted # << >>, Head(posted) = "finished" PROVE m_spinner
      BY DEF ReadyFindsSpinner
  <2>1. posted \in Seq(Signals) /\ Spins(posted, m_spinner)
      BY DEF IInv, TypeInv, TypeOK, SpinInv
  <2>2. 1 \in 1 .. Len(posted) /\ posted[1] = "finished"
      BY <2>1
  <2>3. Busy(posted, m_spinner, 1 - 1)
      BY <2>1, <2>2 DEF Spins
  <2> QED
      BY <2>3 DEF Busy
<1> QED
    BY <1>1, WindowInvariant, PTL

(* Whatever the user opens, removes or closes, a file system that work was *)
(* asked of is the window's or the loader's until a later image has been   *)
(* loaded.                                                                 *)
THEOREM WorkStaysHeld == Spec => []WorkIsHeld
<1>1. IInv => WorkIsHeld
  <2> SUFFICES ASSUME IInv, NEW w \in Pending, w # KillWork
               PROVE  w.on # 0 /\ (w.on = loaded \/ w.on < loaded)
      BY DEF WorkIsHeld
  <2>1. w.on \in 1 .. MaxLoads /\ loaded \in Nat
      BY WindowAssumption DEF IInv, TypeInv, TypeOK, Pending, Work, ToSet
  <2>2. w.on <= loaded
      BY DEF IInv, LoadInv
  <2> QED
      BY <2>1, <2>2
<1> QED
    BY <1>1, WindowInvariant, PTL

(* A tree stands for the file system that was loaded last, or the news of  *)
(* a later one is posted: however often images are opened on top of each   *)
(* other, dialogs left open and roots removed.                             *)
THEOREM TreeStandsForImage == Spec => []TreeHasFileSystem
<1>1. IInv => TreeHasFileSystem
    BY DEF IInv, TypeInv, Numbered, LoadInv, TreeHasFileSystem
<1> QED
    BY <1>1, WindowInvariant, PTL
=============================================================================
