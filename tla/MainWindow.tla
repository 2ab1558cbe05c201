----------------------------- MODULE MainWindow -----------------------------
(***************************************************************************)
(* The window of the graphical program (src/gui/gui/MainWindow.cpp) with   *)
(* its threads: the thread of the window, which runs a slot at a time, the *)
(* WorkThread, and the LoaderThread, which makes a CoreFS of an image.     *)
(*                                                                         *)
(* The user does what the window lets him, at any time: opens another      *)
(* image while there is work or one is being loaded, removes items while   *)
(* one is being expanded, closes the window.  Work is bound to the file    *)
(* system it was asked of and, to fill a folder of the tree, to an item of *)
(* the tree; what this is worth when the work is done is the subject of    *)
(* WorkIsHeld.  A program that has crashed takes no more steps.            *)
(***************************************************************************)
EXTENDS WorkThread

CONSTANT MaxLoads \* bound: images opened

ASSUME WindowAssumption == MaxLoads \in Nat \ {0}

VARIABLES
    m_knoxcrypt, \* the file system of the window: 0 for none, or the number of its loading
    tree,        \* the number of root items in fileTree
    m_spinner,   \* there is a spinner
    asking,      \* loadFileButtonHandler is in its dialogs
    loader,      \* where LoaderThread::run is
    m_io,        \* the image the loader is to load
    loaded,      \* LoaderThread::m_knoxcrypt
    requested    \* history: the last image opened, 0 if given up

windowVars == <<m_knoxcrypt, tree, m_spinner, asking, loader, m_io, loaded, requested>>
vars == <<threadVars, windowVars>>

(* startedUp: running, not at the lock yet; loading: m_teaMutex is locked; *)
(* leaving: it is not any more, but the thread is still running.           *)
LoaderPlaces == {"idle", "startedUp", "loading", "leaving"}

(* What work is bound to: itemExpanded binds the shared pointer and an     *)
(* item, CreateFolder the shared pointer, all else a reference.            *)
WorkKinds == {"expand", "createFolder", "byReference"}
Work == [kind : WorkKinds, on : 1 .. MaxLoads]

Signals == {"started", "finished", "loaded"}

Init ==
    /\ ThreadInit
    /\ m_knoxcrypt = 0 /\ tree = 0 /\ m_spinner = FALSE /\ asking = FALSE
    /\ loader = "idle" /\ m_io = 0 /\ loaded = 0 /\ requested = 0

Pending == ToSet(the_queue) \union IF worker = "run" THEN {f} ELSE {}

-----------------------------------------------------------------------------
(* doWork, fileDroppedSlot and itemExpanded, of an item of the tree ... *)
doWork(kind) ==
    /\ ~asking /\ tree > 0
    /\ addWorkFunction([kind |-> kind, on |-> m_knoxcrypt])
    /\ UNCHANGED windowVars

(* ... of which removing deletes the item, before its entry: one in a tree *)
(* or the root of one, which is selected like any other.                   *)
removedClickedSlot ==
    /\ ~asking /\ tree > 0
    /\ addWorkFunction([kind |-> "byReference", on |-> m_knoxcrypt])
    /\ tree' \in {tree, tree - 1}
    /\ UNCHANGED <<m_knoxcrypt, m_spinner, asking, loader, m_io, loaded, requested>>

(* Fault of the next definition: the tree is not cleared. *)
loadFileButtonHandler_KeepsTree ==
    /\ caller = "free" /\ ~asking
    /\ m_knoxcrypt' = 0 /\ requested' = 0
    /\ asking' = TRUE
    /\ UNCHANGED <<threadVars, tree, m_spinner, loader, m_io, loaded>>

(* loadFileButtonHandler: "reset state" ... *)
loadFileButtonHandler ==
    /\ caller = "free" /\ ~asking
    /\ tree' = 0 /\ m_knoxcrypt' = 0 /\ requested' = 0
    /\ asking' = TRUE
    /\ UNCHANGED <<threadVars, m_spinner, loader, m_io, loaded>>

(* ... no password is given; ...                                           *)
givenUp ==
    /\ caller = "free" /\ asking
    /\ asking' = FALSE
    /\ UNCHANGED <<threadVars, m_knoxcrypt, tree, m_spinner, loader, m_io, loaded, requested>>

(* ... or setSharedIO, once m_teaMutex is free, and start(), which does    *)
(* nothing if the thread is running.                                       *)
startLoading ==
    /\ caller = "free" /\ asking
    /\ m_io < MaxLoads
    /\ loader # "loading"
    /\ m_io' = m_io + 1 /\ requested' = m_io + 1
    /\ loader' = IF loader = "idle" THEN "startedUp" ELSE loader
    /\ asking' = FALSE
    /\ UNCHANGED <<threadVars, m_knoxcrypt, tree, m_spinner, loaded>>

(* A signal is handled, by the event loop or by that of a dialog. *)
handles(signal) ==
    /\ caller = "free"
    /\ posted # << >> /\ Head(posted) = signal
    /\ posted' = Tail(posted)
    /\ UNCHANGED <<the_queue, m_wait, m_stop, worker, f, caller, synced, extra>>

setBusyIndicator ==
    /\ handles("started")
    /\ m_spinner' = TRUE
    /\ UNCHANGED <<m_knoxcrypt, tree, asking, loader, m_io, loaded, requested>>

setReadyIndicator ==
    /\ handles("finished")
    /\ m_spinner' = FALSE
    /\ UNCHANGED <<m_knoxcrypt, tree, asking, loader, m_io, loaded, requested>>

(* Fault of the next definition: the file system is taken from the loader. *)
getknoxcryptFromLoader_Moved ==
    /\ loader # "loading"
    /\ handles("loaded")
    /\ m_knoxcrypt' = loaded /\ loaded' = 0
    /\ tree' = tree + 1
    /\ UNCHANGED <<m_spinner, asking, loader, m_io, requested>>

(* getknoxcrypt waits for m_teaMutex; createRootFolderInTree. *)
getknoxcryptFromLoader ==
    /\ loader # "loading"
    /\ handles("loaded")
    /\ m_knoxcrypt' = loaded
    /\ tree' = tree + 1
    /\ UNCHANGED <<m_spinner, asking, loader, m_io, loaded, requested>>

(* ~MainWindow deletes the tree; of the members with a thread m_workThread *)
(* is the first to be destroyed, and m_knoxcrypt goes after it.            *)
closeWindow ==
    /\ ~asking
    /\ Destroy
    /\ tree' = 0
    /\ UNCHANGED <<m_knoxcrypt, m_spinner, asking, loader, m_io, loaded, requested>>

-----------------------------------------------------------------------------
(* loadTSImage locks m_teaMutex ... *)
loadTSImage ==
    /\ loader = "startedUp"
    /\ loader' = "loading"
    /\ UNCHANGED <<threadVars, m_knoxcrypt, tree, m_spinner, asking, m_io, loaded, requested>>

(* ... makes the file system, emits finishedLoadingSignal and unlocks.     *)
finishedLoading ==
    /\ loader = "loading"
    /\ loaded' = m_io
    /\ posted' = Posted("loaded")
    /\ loader' = "leaving"
    /\ UNCHANGED <<the_queue, m_wait, m_stop, worker, f, caller, synced, extra,
                   m_knoxcrypt, tree, m_spinner, asking, m_io, requested>>

loaderEnds ==
    /\ loader = "leaving"
    /\ loader' = "idle"
    /\ UNCHANGED <<threadVars, m_knoxcrypt, tree, m_spinner, asking, m_io, loaded, requested>>

-----------------------------------------------------------------------------
userActs ==
    \/ \E kind \in WorkKinds : doWork(kind)
    \/ removedClickedSlot
    \/ loadFileButtonHandler
    \/ givenUp
    \/ startLoading
    \/ closeWindow

handlesSignal == setBusyIndicator \/ setReadyIndicator \/ getknoxcryptFromLoader

loaderRuns == loadTSImage \/ finishedLoading \/ loaderEnds

Next ==
    \/ userActs
    \/ handlesSignal
    \/ loaderRuns
    \/ /\ \/ notify_one \/ stopWaiting \/ waitEnds \/ waitTimesOut
          \/ run
       /\ UNCHANGED windowVars

(* The threads are scheduled, and what is running returns: the loader and  *)
(* every function.  A dialog may stay open, and nobody needs to press a    *)
(* button; a thread need not be woken without reason.                      *)
Fairness ==
    /\ WF_vars(notify_one /\ UNCHANGED windowVars)
    /\ WF_vars(stopWaiting /\ UNCHANGED windowVars)
    /\ WF_vars((waitEnds \/ waitTimesOut) /\ UNCHANGED windowVars)
    /\ WF_vars((testStop \/ waitForWork \/ popWork) /\ UNCHANGED windowVars)
    /\ WF_vars(workReturns /\ UNCHANGED windowVars)
    /\ WF_vars(handlesSignal)
    /\ WF_vars(loaderRuns)

Spec == Init /\ [][Next]_vars /\ Fairness
-----------------------------------------------------------------------------
(* The variables stay within their types, and the sequences within their   *)
(* bounds.                                                                 *)
TypeOK ==
    /\ the_queue \in Seq(Work \union {KillWork}) /\ Len(the_queue) <= MaxQueue + 1
    /\ posted \in Seq(Signals)
    /\ m_wait \in BOOLEAN /\ m_stop \in BOOLEAN /\ synced \in BOOLEAN
    /\ m_spinner \in BOOLEAN /\ asking \in BOOLEAN
    /\ worker \in WorkerPlaces /\ caller \in CallerPlaces /\ loader \in LoaderPlaces
    /\ f \in Work \union {KillWork}
    /\ m_knoxcrypt \in 0 .. MaxLoads /\ m_io \in 0 .. MaxLoads
    /\ loaded \in 0 .. MaxLoads /\ requested \in 0 .. MaxLoads
    /\ tree \in Nat /\ extra \in Nat

(* When the worker is past its wait because the queue waits no longer,     *)
(* there is a function to take: kill, at the latest (WorkThread.cpp:46-47, *)
(* ConcurrentQueue.hpp:65-75).                                             *)
PopFindsWork == worker = "pop" /\ ~m_wait => the_queue # << >>

(* Closing the window starts one more function at the most, however many   *)
(* wait, and does not leave the worker asleep: it ends by itself, unless   *)
(* a function runs for too long (WorkThread.cpp:44-52, 61).                *)
ClosingIsPrompt ==
    /\ extra <= 1
    /\ caller = "waiting" => worker # "wait"

(* Work keeps the file system it was asked of, though most of it only has  *)
(* a reference and opening another image resets the window's pointer: the  *)
(* loader's own pointer holds it until another image has been loaded       *)
(* (MainWindow.cpp:163, 334, 424, 463, LoaderThread.cpp:51-56, 74).        *)
WorkIsHeld ==
    \A w \in Pending \ {KillWork} :
        /\ w.on # 0
        /\ w.kind = "byReference" => w.on \in {m_knoxcrypt, loaded} \/ w.on < loaded

(* setReadyIndicator finds the spinner that setBusyIndicator has made      *)
(* (MainWindow.cpp:382): the signals come in turn.                         *)
ReadyFindsSpinner == posted # << >> /\ Head(posted) = "finished" => m_spinner

(* A tree stands for a file system of the window, and for the one that was *)
(* loaded last unless the news of a later one still waits: through all     *)
(* dialogs, images opened on top of each other and removals of the root,   *)
(* what is done to the tree is done to the image that it shows             *)
(* (MainWindow.cpp:161-163, 356-361, LoaderThread.cpp:51-56, 74-76).       *)
TreeHasFileSystem ==
    tree > 0 /\ caller \notin Closing =>
        /\ m_knoxcrypt # 0
        /\ "loaded" \notin ToSet(posted) => m_knoxcrypt = loaded

(* An image that was opened is loaded, unless another is opened or the     *)
(* window is closed ("start loading of knoxcrypt image",                   *)
(* gui/gui/MainWindow.cpp:189).                                            *)
OpenedIsLoaded ==
    \A i \in 1 .. MaxLoads :
        requested = i ~> (m_knoxcrypt = i \/ requested # i \/ caller \in Closing)

(* Work that was queued is started, unless the window is closed first. *)
QueuedWorkStarts ==
    \A w \in Work : w \in ToSet(the_queue) ~> (worker = "run" /\ f = w) \/ caller \in Closing

(* ~WorkThread returns. *)
DestructorReturns == caller \in Closing ~> caller = "gone"
=============================================================================
