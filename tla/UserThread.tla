----------------------------- MODULE UserThread -----------------------------
(***************************************************************************)
(* One user thread from Start to RemoveThread: ThreadDispatcher            *)
(* (object/thread_dispatcher.cc) with its lifecycle and suspend count, the *)
(* signals and the state of the core thread below it (kernel/thread.cc),   *)
(* and the exceptions it reports on its way (object/exception.cc,          *)
(* exceptionate.cc, exception_dispatcher.cc).                              *)
(*                                                                         *)
(* The thread runs against holders of suspend tokens, a killer of its      *)
(* process and the handlers at the other ends of the exception channels.   *)
(* Whatever a function does under the dispatcher's lock is one action; the *)
(* core thread's lock and the exceptionate's are only taken inside it or   *)
(* for a single access.  A handler does not close an exception while one   *)
(* of its own calls on it is running.                                      *)
(***************************************************************************)
EXTENDS Naturals, Sequences, FiniteSets

CONSTANTS UtJobs,        \* the process's jobs, the nearest first
          UtExcs,        \* ExceptionDispatchers that exist at a time
          UtCalls,       \* bound on suspend calls and exception channels together
          UtRaises       \* bound on exceptions the thread's code raises

VARIABLES
  utLife,      \* state_.lifecycle()
  utCount,     \* suspend_count_
  utTokens,    \* suspend tokens of the thread that are open
  utProc,      \* the process: dying, its suspend_count_
  utCore,      \* Thread::state(): INITIAL, READY, BLOCKED, SUSPENDED
  utSig,       \* signals_: kill, suspend
  utPc, utWhy, utMethod, utSecond, utStatus,   \* where the thread is
  utCur,       \* the exception it handles
  utIn,        \* exception_ # nullptr
  utType,      \* exceptionate_type_
  utExc,       \* the ExceptionDispatchers
  utChan,      \* an exceptionate's channel_handle_ and is_shutdown_
  utCalls      \* what the bounds count

utVars == <<utLife, utCount, utTokens, utProc, utCore, utSig, utPc, utWhy,
            utMethod, utSecond, utStatus, utCur, utIn, utType, utExc, utChan,
            utCalls>>
utTokenVars == <<utCount, utTokens, utProc>>
utPlaceVars == <<utWhy, utMethod, utSecond>>
utHandlerVars == <<utChan, utCalls>>
utInVars == <<utIn, utType>>

\* ExceptionDeliveryMethod in its order, and the exceptionate of each.
DeliveryMethods == <<"debug", "thread", "process", "debug">> \o UtJobs
Exceptionates == {DeliveryMethods[m] : m \in DOMAIN DeliveryMethods}
ExceptionStates == {"HANDLED", "TRY_NEXT", "THREAD_EXIT"}
NoException ==
  [at |-> "none", by |-> "debug", disp |-> "TRY_NEXT", second |-> FALSE,
   signaled |-> FALSE, report |-> FALSE, rights |-> "debug", gave |-> "TRY_NEXT"]

UserThreadInit ==
  /\ utLife = "INITIALIZED" /\ utCount = 0 /\ utTokens = 0
  /\ utProc = [dying |-> FALSE, count |-> 0]
  /\ utCore = "INITIAL" /\ utSig = {}
  /\ utPc = "new" /\ utWhy = "start" /\ utMethod = 1 /\ utSecond = FALSE
  /\ utStatus = "OK"
  /\ utCur \in {x \in UtExcs : \A y \in UtExcs : x <= y}
  /\ utIn = FALSE /\ utType = "none"
  /\ utExc = [x \in UtExcs |-> NoException]
  /\ utChan = [e \in Exceptionates |-> [st |-> "none", shut |-> FALSE]]
  /\ utCalls = [others |-> 0, raises |-> 0]

UtAlive == utLife \in {"RUNNING", "SUSPENDED"}
DyingOrDead == utLife \in {"DYING", "DEAD"}
\* The thread is in its process's thread_list_.
Listed == utPc \notin {"new", "gone"}
UtRuns(pc) == utCore = "READY" /\ utPc = pc
CountCall(c) == utCalls' = [utCalls EXCEPT ![c] = @ + 1]
-----------------------------------------------------------------------------
(* The core thread.                                                        *)

\* Thread::Suspend: a thread in an interruptible wait leaves it and will
\* find it may not go on.
CoreSuspend ==
  /\ utSig' = utSig \cup {"suspend"}
  /\ utCore' = IF utCore \in {"INITIAL", "BLOCKED"} THEN "READY" ELSE utCore
  /\ utPc' = IF utCore = "BLOCKED" THEN "wait" ELSE utPc

\* Thread::Resume.
CoreResume ==
  /\ utSig' = utSig \ {"suspend"}
  /\ utCore' = IF utCore \in {"INITIAL", "SUSPENDED"} THEN "READY" ELSE utCore

\* Thread::Kill: out of an interruptible wait with INTR_KILLED, or out of
\* its suspension.
CoreKill ==
  /\ utSig' = utSig \cup {"kill"}
  /\ utCore' = IF utCore \in {"BLOCKED", "SUSPENDED"} THEN "READY" ELSE utCore
  /\ utPc' = IF utCore = "BLOCKED" THEN "settle" ELSE utPc
  /\ utStatus' = IF utCore = "BLOCKED" THEN "KILLED" ELSE utStatus

utCoreVars == <<utCore, utSig, utPc>>
-----------------------------------------------------------------------------
(* Starting, suspending, killing.                                          *)

\* AddInitializedThread and MakeRunnable: a suspended process starts its
\* threads suspended.
ThreadStart ==
  /\ utPc = "new" /\ ~utProc.dying
  /\ utLife' = "RUNNING"
  /\ utCount' = utCount + (IF utProc.count > 0 THEN 1 ELSE 0)
  /\ utCore' = "READY"
  /\ utSig' = IF utCount' = 0 THEN {} ELSE {"suspend"}
  /\ utPc' = "starting"
  /\ UNCHANGED <<utTokens, utProc, utPlaceVars, utStatus, utCur, utInVars, utExc,
                 utHandlerVars>>

\* ThreadDispatcher::Suspend: the count goes up even if the call fails.
ThreadSuspend ==
  /\ utCount' = utCount + 1
  /\ IF UtAlive /\ utCount = 0 THEN CoreSuspend ELSE UNCHANGED utCoreVars

\* ThreadDispatcher::Resume.
ThreadResume ==
  /\ utCount' = utCount - 1
  /\ IF UtAlive /\ utCount = 1 THEN CoreResume ELSE UNCHANGED <<utCore, utSig>>

\* ThreadDispatcher::Kill.
ThreadKill ==
  IF UtAlive THEN CoreKill /\ utLife' = "DYING"
           ELSE UNCHANGED <<utLife, utCoreVars, utStatus>>

\* zx_task_suspend on the thread: SuspendTokenDispatcher::Create.
SuspendThread ==
  /\ utCalls.others < UtCalls /\ CountCall("others")
  /\ ThreadSuspend
  /\ utTokens' = utTokens + (IF DyingOrDead THEN 0 ELSE 1)
  /\ UNCHANGED <<utLife, utProc, utPlaceVars, utStatus, utCur, utInVars, utExc,
                 utChan>>

\* The token is closed.
CloseThreadToken ==
  /\ utTokens > 0
  /\ utTokens' = utTokens - 1
  /\ ThreadResume
  /\ UNCHANGED <<utLife, utProc, utPc, utPlaceVars, utStatus, utCur, utInVars,
                 utExc, utHandlerVars>>

\* zx_task_suspend on the process: ProcessDispatcher::Suspend.
SuspendProcess ==
  /\ utCalls.others < UtCalls /\ CountCall("others")
  /\ ~utProc.dying
  /\ utProc' = [utProc EXCEPT !.count = @ + 1]
  /\ IF Listed /\ utProc.count = 0 THEN ThreadSuspend
                                   ELSE UNCHANGED <<utCount, utCoreVars>>
  /\ UNCHANGED <<utLife, utTokens, utPlaceVars, utStatus, utCur, utInVars, utExc,
                 utChan>>

\* Its token is closed: ProcessDispatcher::Resume.
CloseProcessToken ==
  /\ utProc.count > 0 /\ ~utProc.dying
  /\ utProc' = [utProc EXCEPT !.count = @ - 1]
  /\ IF Listed /\ utProc.count = 1 THEN ThreadResume
                                   ELSE UNCHANGED <<utCount, utCore, utSig>>
  /\ UNCHANGED <<utLife, utTokens, utPc, utPlaceVars, utStatus, utCur, utInVars,
                 utExc, utHandlerVars>>

\* The exceptionates in E let go of their channels for good.
Shut(E) ==
  utChan' = [e \in Exceptionates |->
               IF e \in E THEN [st |-> "none", shut |-> TRUE] ELSE utChan[e]]

\* ProcessDispatcher::Kill kills the threads on its list; a process without
\* one is DEAD at once, and FinishDeadTransition shuts its exceptionates down.
KillThreads ==
  /\ ~utProc.dying
  /\ utProc' = [utProc EXCEPT !.dying = TRUE]
  /\ IF Listed THEN ThreadKill /\ UNCHANGED utChan
               ELSE /\ Shut({"process", "debug"})
                    /\ UNCHANGED <<utLife, utCoreVars, utStatus>>
  /\ UNCHANGED <<utCount, utTokens, utPlaceVars, utCur, utInVars, utExc, utCalls>>
-----------------------------------------------------------------------------
(* Between kernel and user mode: ProcessPendingSignals.                    *)

utEnvVars == <<utTokenVars, utHandlerVars>>
utExceptionVars == <<utPlaceVars, utStatus, utCur, utInVars, utExc>>

\* The thread looks at its signals, kill first, until there are none.
PendingSignals ==
  /\ UtRuns("signals")
  /\ utPc' = IF "kill" \in utSig THEN "exiting"
             ELSE IF "suspend" \in utSig THEN "suspending" ELSE "user"
  /\ UNCHANGED <<utLife, utCore, utSig, utEnvVars, utExceptionVars>>

\* An interrupt or a system call of a thread with signals.
ThreadInterrupted ==
  /\ UtRuns("user") /\ utSig # {}
  /\ utPc' = "signals"
  /\ UNCHANGED <<utLife, utCore, utSig, utEnvVars, utExceptionVars>>

\* DoSuspend calls ThreadDispatcher::Suspending.
Suspending ==
  /\ UtRuns("suspending")
  /\ utLife' = IF utLife = "DYING" THEN utLife ELSE "SUSPENDED"
  /\ utPc' = "suspend"
  /\ UNCHANGED <<utCore, utSig, utEnvVars, utExceptionVars>>

\* Mutant: the suspend signal is not looked at again under the lock.
DoSuspendUnchecked ==
  /\ UtRuns("suspend")
  /\ utPc' = "suspended" /\ utCore' = "SUSPENDED" /\ utSig' = utSig \ {"suspend"}
  /\ UNCHANGED <<utLife, utEnvVars, utExceptionVars>>

\* DoSuspend under the core thread's lock: the kill or the resume may have
\* come in the meantime.
DoSuspend ==
  /\ UtRuns("suspend")
  /\ \/ /\ "kill" \in utSig
        /\ utPc' = "exiting"
        /\ UNCHANGED <<utCore, utSig>>
     \/ /\ utSig = {"suspend"}
        /\ utPc' = "suspended" /\ utCore' = "SUSPENDED" /\ utSig' = {}
     \/ /\ utSig = {}
        /\ utPc' = "resuming"
        /\ UNCHANGED <<utCore, utSig>>
  /\ UNCHANGED <<utLife, utEnvVars, utExceptionVars>>

\* The suspended thread is scheduled again.
Rescheduled ==
  /\ UtRuns("suspended")
  /\ utPc' = IF "kill" \in utSig THEN "exiting" ELSE "resuming"
  /\ UNCHANGED <<utLife, utCore, utSig, utEnvVars, utExceptionVars>>

\* DoSuspend calls ThreadDispatcher::Resuming.
Resuming ==
  /\ UtRuns("resuming")
  /\ utLife' = IF utLife = "DYING" THEN utLife ELSE "RUNNING"
  /\ utPc' = "signals"
  /\ UNCHANGED <<utCore, utSig, utEnvVars, utExceptionVars>>
-----------------------------------------------------------------------------
(* Exceptions: the thread.                                                 *)

\* A new ExceptionDispatcher, its report filled in, in the place of one that
\* nobody refers to any more.
CreateException(why) ==
  /\ LET x == CHOOSE y \in UtExcs : /\ utExc[y].at = "none"
                                    /\ \A z \in UtExcs : utExc[z].at = "none" => y <= z
     IN /\ utCur' = x
        /\ utExc' = [utExc EXCEPT ![x] = [NoException EXCEPT !.report = TRUE]]
  /\ utWhy' = why
  /\ utPc' = "send"

\* The thread's code runs into an exception: dispatch_user_exception.
RaiseException ==
  /\ UtRuns("user")
  /\ utCalls.raises < UtRaises /\ CountCall("raises")
  /\ CreateException("arch")
  /\ UNCHANGED <<utLife, utTokenVars, utCore, utSig, utMethod, utSecond, utStatus,
                 utInVars, utChan>>

\* zx_thread_exit.
ThreadExit ==
  /\ UtRuns("user")
  /\ utPc' = "exiting"
  /\ UNCHANGED <<utLife, utCore, utSig, utEnvVars, utExceptionVars>>

\* zx_process_exit: ProcessDispatcher::Exit kills every thread, this one too.
ExitProcess ==
  /\ UtRuns("user")
  /\ utProc' = [utProc EXCEPT !.dying = TRUE]
  /\ utLife' = "DYING" /\ utSig' = utSig \cup {"kill"}
  /\ utPc' = "exiting"
  /\ UNCHANGED <<utCount, utTokens, utCore, utHandlerVars, utExceptionVars>>

\* HandleSingleShotException for the debugger, at the start and at the end
\* of the thread: nothing is done without a channel.
SingleShot(from, why, after) ==
  /\ UtRuns(from)
  /\ \/ /\ utChan["debug"].st = "open"
        /\ CreateException(why)
     \/ /\ utChan["debug"].st # "open"
        /\ utPc' = after
        /\ UNCHANGED <<utWhy, utCur, utExc>>
  /\ UNCHANGED <<utLife, utCore, utSig, utEnvVars, utMethod, utSecond, utStatus,
                 utInVars>>

StartRoutine == SingleShot("starting", "start", "signals")

\* What follows an exception that no handler took or that was passed on.
\* ExceptionHandlerIterator::Next goes to the next method, with the second
\* chance as it was before the process's handler; without one left
\* dispatch_user_exception kills the process.
AfterMethod(second) ==
  IF utMethod = 3 /\ ~second THEN 5 ELSE utMethod + 1

\* The thread is through with the exception: ExceptionDispatcher::Clear.
ExceptionDone(exc, pc) ==
  /\ utPc' = pc
  /\ utExc' = [exc EXCEPT ![utCur] = IF @.at = "none" THEN NoException
                                     ELSE [@ EXCEPT !.report = FALSE]]
  /\ utMethod' = 1 /\ utSecond' = FALSE /\ utStatus' = "OK"

PassOn(exc, second) ==
  \/ /\ utWhy # "arch"
     /\ ExceptionDone(exc, IF utWhy = "start" THEN "signals" ELSE "dead")
     /\ UNCHANGED <<utProc, utLife, utSig>>
  \/ /\ utWhy = "arch" /\ AfterMethod(second) \in DOMAIN DeliveryMethods
     /\ utPc' = "send"
     /\ utMethod' = AfterMethod(second)
     /\ utExc' = exc
     /\ UNCHANGED <<utProc, utLife, utSig, utSecond, utStatus>>
  \/ /\ utWhy = "arch" /\ AfterMethod(second) \notin DOMAIN DeliveryMethods
     /\ ExceptionDone(exc, "exiting")
     /\ utProc' = [utProc EXCEPT !.dying = TRUE]
     /\ utLife' = "DYING" /\ utSig' = utSig \cup {"kill"}

\* Mutant: the close of the handle is not discarded.
SendFailedUndiscarded ==
  /\ UtRuns("send")
  /\ LET e == DeliveryMethods[utMethod]
     IN /\ utChan[e].st # "open"
        /\ utChan' = [utChan EXCEPT ![e].st = "none"]
        /\ PassOn(IF utChan[e].st = "none" THEN utExc
                  ELSE [utExc EXCEPT ![utCur].rights = e, ![utCur].signaled = TRUE],
                  utExc[utCur].second)
  /\ UNCHANGED <<utCount, utTokens, utCore, utWhy, utCur, utInVars, utCalls>>

\* SendException without a channel, or with one whose other end is closed:
\* the message that could not be written closes the exception's handle,
\* which signals the event, and DiscardHandleClose takes that back.
SendFailed ==
  /\ UtRuns("send")
  /\ LET e == DeliveryMethods[utMethod]
     IN /\ utChan[e].st # "open"
        /\ utChan' = [utChan EXCEPT ![e].st = "none"]
        /\ PassOn(IF utChan[e].st = "none" THEN utExc
                  ELSE [utExc EXCEPT ![utCur].rights = e, ![utCur].signaled = FALSE,
                                     ![utCur].disp = "TRY_NEXT"],
                  utExc[utCur].second)
  /\ UNCHANGED <<utCount, utTokens, utCore, utWhy, utCur, utInVars, utCalls>>

\* SendException writes the message, and HandleException notes it under the
\* same hold of the thread's lock.
SendException ==
  /\ UtRuns("send")
  /\ LET e == DeliveryMethods[utMethod]
     IN /\ utChan[e].st = "open"
        /\ utExc' = [utExc EXCEPT ![utCur].at = "queued", ![utCur].by = e,
                                  ![utCur].rights = e]
        /\ utType' = e
  /\ utIn' = TRUE
  /\ utSecond' = utExc[utCur].second
  /\ utPc' = "wait"
  /\ UNCHANGED <<utLife, utCore, utSig, utEnvVars, utWhy, utMethod, utStatus,
                 utCur>>

\* WaitForHandleClose: the suspend signal does not end the wait.
WaitForHandleClose ==
  /\ UtRuns("wait")
  /\ \/ /\ utExc[utCur].signaled
        /\ utExc' = [utExc EXCEPT ![utCur].signaled = FALSE]
        /\ utPc' = "answer"
        /\ UNCHANGED <<utCore, utStatus>>
     \/ /\ ~utExc[utCur].signaled /\ "kill" \in utSig
        /\ utPc' = "settle" /\ utStatus' = "KILLED"
        /\ UNCHANGED <<utCore, utExc>>
     \/ /\ ~utExc[utCur].signaled /\ "kill" \notin utSig
        /\ utCore' = "BLOCKED"
        /\ UNCHANGED <<utPc, utStatus, utExc>>
  /\ UNCHANGED <<utLife, utSig, utEnvVars, utPlaceVars, utCur, utInVars>>

StatusOf(d) ==
  IF d = "HANDLED" THEN "OK" ELSE IF d = "THREAD_EXIT" THEN "STOP" ELSE "NEXT"

\* The event was signaled: the disposition is read and reset.
TakeAnswer ==
  /\ UtRuns("answer")
  /\ utStatus' = StatusOf(utExc[utCur].disp)
  /\ utExc' = [utExc EXCEPT ![utCur].disp = "TRY_NEXT"]
  /\ utPc' = "settle"
  /\ UNCHANGED <<utLife, utCore, utSig, utEnvVars, utPlaceVars, utCur, utInVars>>

\* The rest of HandleException, where a kill has the last word, and what its
\* callers make of the status.
Settle ==
  /\ UtRuns("settle")
  /\ utIn' = FALSE
  /\ LET status == IF DyingOrDead THEN "KILLED" ELSE utStatus
     IN \/ /\ status = "NEXT" \/ utWhy # "arch"
           /\ PassOn(utExc, utSecond)
        \/ /\ status = "OK" /\ utWhy = "arch"
           /\ ExceptionDone(utExc, "signals")
           /\ UNCHANGED <<utProc, utLife, utSig>>
        \/ /\ status \in {"STOP", "KILLED"} /\ utWhy = "arch"
           /\ ExceptionDone(utExc, "exiting")
           /\ utSig' = (IF status = "STOP" THEN utSig \cup {"kill"} ELSE utSig)
           /\ UNCHANGED <<utProc, utLife>>
  /\ UNCHANGED <<utCount, utTokens, utCore, utWhy, utCur, utType, utHandlerVars>>
-----------------------------------------------------------------------------
(* Leaving: ThreadDispatcher::ExitingCurrent.                              *)

Exiting ==
  /\ UtRuns("exiting")
  /\ utLife' = "DYING"
  /\ utPc' = "notify"
  /\ UNCHANGED <<utCore, utSig, utEnvVars, utExceptionVars>>

NotifyExiting == SingleShot("notify", "exit", "dead")

ExitDead ==
  /\ UtRuns("dead")
  /\ utLife' = "DEAD"
  /\ utPc' = "shutdown"
  /\ UNCHANGED <<utCore, utSig, utEnvVars, utExceptionVars>>

ShutdownExceptionate ==
  /\ UtRuns("shutdown")
  /\ Shut({"thread"})
  /\ utPc' = "remove"
  /\ UNCHANGED <<utLife, utCore, utSig, utTokenVars, utCalls, utExceptionVars>>

\* RemoveThread: the last thread of its process takes the process along.
LeaveProcess ==
  /\ UtRuns("remove")
  /\ utPc' = "gone"
  /\ utProc' = [utProc EXCEPT !.dying = TRUE]
  /\ Shut({"process", "debug"})
  /\ UNCHANGED <<utLife, utCount, utTokens, utCore, utSig, utCalls,
                 utExceptionVars>>
-----------------------------------------------------------------------------
(* Exceptions: the handlers.                                               *)

\* What a handler's steps leave alone.
utUntouched == <<utLife, utTokenVars, utSig, utPlaceVars, utStatus, utCur, utInVars>>

\* zx_task_create_exception_channel: SetChannel.
CreateChannel(e) ==
  /\ utCalls.others < UtCalls /\ CountCall("others")
  /\ ~utChan[e].shut /\ utChan[e].st # "open"
  /\ utChan' = [utChan EXCEPT ![e].st = "open"]
  /\ UNCHANGED <<utUntouched, utCore, utPc, utExc>>

\* The last handles of the exceptions X close: on_zero_handles signals.
HandlesClosed(X) ==
  LET wakes == utCore = "BLOCKED" /\ utCur \in X
  IN /\ utExc' = [x \in UtExcs |->
                    IF x \notin X THEN utExc[x]
                    ELSE IF ~utExc[x].report THEN NoException
                    ELSE [utExc[x] EXCEPT !.at = "none", !.gave = utExc[x].disp,
                                          !.signaled = ~(wakes /\ x = utCur)]]
     /\ utCore' = IF wakes THEN "READY" ELSE utCore
     /\ utPc' = IF wakes THEN "answer" ELSE utPc

Unread(e) == {x \in UtExcs : utExc[x].at = "queued" /\ utExc[x].by = e}

\* A handler closes its end of the channel, with what it has not read.
CloseChannel(e) ==
  /\ utChan[e].st = "open" \/ Unread(e) # {}
  /\ utChan' = [utChan EXCEPT ![e].st = IF @ = "open" THEN "closed" ELSE @]
  /\ HandlesClosed(Unread(e))
  /\ UNCHANGED <<utUntouched, utCalls>>

\* A handler reads the message and has the exception's handle.
ReadException(x) ==
  /\ utExc[x].at = "queued"
  /\ utExc' = [utExc EXCEPT ![x].at = "held"]
  /\ UNCHANGED <<utUntouched, utCore, utPc, utHandlerVars>>

\* ZX_PROP_EXCEPTION_STATE.
SetExceptionState(x, d) ==
  /\ utExc[x].at = "held"
  /\ utExc' = [utExc EXCEPT ![x].disp = d]
  /\ UNCHANGED <<utUntouched, utCore, utPc, utHandlerVars>>

\* ZX_PROP_EXCEPTION_STRATEGY: for a debugger, by what the thread says.
SetWhetherSecondChance(x, b) ==
  /\ utExc[x].at = "held" /\ utType = "debug"
  /\ utExc' = [utExc EXCEPT ![x].second = b]
  /\ UNCHANGED <<utUntouched, utCore, utPc, utHandlerVars>>

\* The handler closes the exception: its answer is the disposition.
CloseException(x) ==
  /\ utExc[x].at = "held"
  /\ HandlesClosed({x})
  /\ UNCHANGED <<utUntouched, utHandlerVars>>

HandlerStep ==
  \/ \E e \in Exceptionates : CreateChannel(e) \/ CloseChannel(e)
  \/ \E x \in UtExcs :
       \/ ReadException(x)
       \/ \E d \in ExceptionStates : SetExceptionState(x, d)
       \/ \E b \in BOOLEAN : SetWhetherSecondChance(x, b)
       \/ CloseException(x)

\* What the thread does by itself once it is scheduled.
ThreadStep ==
  \/ PendingSignals \/ ThreadInterrupted \/ Suspending \/ DoSuspend
  \/ Rescheduled \/ Resuming
  \/ StartRoutine \/ SendFailed \/ SendException
  \/ WaitForHandleClose \/ TakeAnswer \/ Settle
  \/ Exiting \/ NotifyExiting \/ ExitDead \/ ShutdownExceptionate \/ LeaveProcess

UserThreadNext ==
  \/ ThreadStart \/ SuspendThread \/ CloseThreadToken \/ SuspendProcess
  \/ CloseProcessToken
  \/ KillThreads
  \/ RaiseException \/ ThreadExit \/ ExitProcess
  \/ ThreadStep
  \/ HandlerStep

UserThreadSpec == UserThreadInit /\ [][UserThreadNext]_utVars /\ WF_utVars(ThreadStep)
-----------------------------------------------------------------------------
(* Properties.                                                             *)

\* The types of the variables.
UserThreadTypeOK ==
  /\ utLife \in {"INITIALIZED", "RUNNING", "SUSPENDED", "DYING", "DEAD"}
  /\ utCount \in Nat /\ utTokens \in Nat
  /\ utProc \in [dying : BOOLEAN, count : Nat]
  /\ utCore \in {"INITIAL", "READY", "BLOCKED", "SUSPENDED"}
  /\ utSig \subseteq {"kill", "suspend"}
  /\ utMethod \in DOMAIN DeliveryMethods /\ utSecond \in BOOLEAN /\ utIn \in BOOLEAN
  /\ utCur \in UtExcs

\* The thread is between SendException and the end of HandleException.
InException == utPc \in {"wait", "answer", "settle"}
HandleOut(x) == utExc[x].at # "none"
InLiveProcess == ~utProc.dying /\ utPc # "new" /\ ~DyingOrDead

\* exceptionate.cc:110, exception_dispatcher.cc:187.  An exception goes to one
\* handler at a time and each handler's close answers for that handler only:
\* a thread that waits has its exception out or its event signaled; before
\* each sending nothing is left of the last answer (no signaled event, no
\* disposition); the task rights are those of the handler that has it; the
\* status the thread goes on with is the disposition the handler closed it
\* with, or a kill's.
ExceptionAnswered ==
  /\ utPc = "wait" => HandleOut(utCur) \/ utExc[utCur].signaled
  /\ utPc = "send" => /\ ~HandleOut(utCur) /\ ~utExc[utCur].signaled
                      /\ utExc[utCur].disp = "TRY_NEXT"
  /\ \A x \in UtExcs : HandleOut(x) => utExc[x].rights = utExc[x].by
  /\ utPc = "answer" => utExc[utCur].disp = utExc[utCur].gave
  /\ utPc = "settle" => utStatus \in {"KILLED", StatusOf(utExc[utCur].gave)}
  /\ utIn <=> InException
  /\ utIn => utExc[utCur].report /\ utType = DeliveryMethods[utMethod]
  /\ \A x \in UtExcs : utExc[x].report => x = utCur

\* thread_dispatcher.cc:228, process_dispatcher.cc:370.  The suspend count of
\* a live thread of a live process is the number of reasons to be suspended:
\* the tokens of the thread, and one for a suspended process.
SuspendCountExact ==
  InLiveProcess => utCount = utTokens + (IF utProc.count > 0 THEN 1 ELSE 0)

\* The thread is in ExitingCurrent, its exit exception included.
Leaving ==
  \/ utPc \in {"notify", "dead", "shutdown", "remove"}
  \/ utWhy = "exit" /\ (utPc = "send" \/ InException)

\* process_dispatcher.cc:416, thread_dispatcher.cc:201.  The kill of a process
\* passes over no thread of it but one that leaves by itself already: every
\* other thread has the kill signal, and no wait for a handler keeps that one.
KillReachesThread ==
  /\ utProc.dying /\ Listed => "kill" \in utSig \/ Leaving
  /\ utProc.dying /\ utCore = "BLOCKED" => Leaving /\ "kill" \notin utSig

\* thread_dispatcher.cc, process_dispatcher.cc, exceptionate.cc: an exception
\* ends only with its handler's answer or a kill, suspend counts match the
\* tokens that are out, and a kill passes over no thread but a leaving one.
UserThreadConsistent ==
  UserThreadTypeOK /\ ExceptionAnswered /\ SuspendCountExact /\ KillReachesThread

\* thread.cc:1184, thread_dispatcher.cc:401.  A suspended thread stays out of
\* its code and a resumed one is not forgotten: in user mode with a suspend
\* count it has the signal that takes it out at the next interrupt; its core
\* thread sleeps in SUSPENDED only while the count is above zero and no kill
\* has come; with the count at zero no suspend signal is left; and where it
\* may go to user mode the lifecycle says RUNNING.
UserThreadSuspended ==
  /\ UtAlive /\ utCount > 0 /\ utCore # "SUSPENDED" => "suspend" \in utSig
  /\ utCore = "SUSPENDED" => utCount > 0 /\ "kill" \notin utSig /\ utLife = "SUSPENDED"
  /\ UtAlive /\ utCount = 0 => "suspend" \notin utSig
  /\ utPc \in {"user", "send"} /\ utWhy # "exit" => utLife \in {"RUNNING", "DYING"}

\* A thread with the kill signal that is still in its process, whatever suspends
\* it and whoever holds its exceptions.  A thread that was leaving by itself
\* when its process was killed has no such signal: it may wait for the
\* debugger that holds its exit exception as long as the debugger likes.
KilledLeaving == "kill" \in utSig /\ utPc # "gone"

\* A thread that nobody suspends any more and that has not resumed yet.
ResumePending == utLife = "SUSPENDED" /\ utCount = 0
=============================================================================
