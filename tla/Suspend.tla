------------------------------ MODULE Suspend ------------------------------
(***************************************************************************)
(* IdlePowerThread (kernel/idle_power_thread.cc): one thread suspends all  *)
(* CPUs, the boot CPU last; wake events abort or end the suspension.       *)
(*                                                                         *)
(* The actors are the thread in TransitionAllActiveToSuspend, which is     *)
(* pinned to the boot CPU, the idle/power thread of each CPU, the wake     *)
(* sources and the resume timer.  Each compare-exchange or fetch-add is a  *)
(* step.  A wake source on the boot CPU runs with interrupts disabled, so  *)
(* nothing else of the boot CPU runs between its steps.                    *)
(***************************************************************************)
EXTENDS Integers, FiniteSets

CONSTANTS Secondary,      \* the CPUs other than the boot CPU
          Boot,
          Wakers,         \* wake sources, each with a WakeEvent
          RemoteWakers,   \* those whose interrupt runs on a secondary CPU
          MaxSuspends,    \* bound: calls of TransitionAllActiveToSuspend
          MaxWakes        \* bound: wake events triggered

ASSUME BootAssumption == Boot \notin Secondary

VARIABLES suspendedBit, wakeCount,   \* system_suspend_state_
          power,        \* each CPU's state_: <<current, target>>
          complete,     \* each CPU's complete_ is signaled
          idleState,    \* what an idle thread's loop loaded; <<>> if nothing
          idleSignal,   \* idle threads about to signal complete_
          spc, scpu,    \* the suspending thread: its place and CPU at hand
          toSuspend,    \* cpus_to_suspend
          toResume,     \* cpus_to_resume
          startState,   \* starting_state of the boot CPU's transition
          timer,        \* the resume timer is armed
          wpc, wseen,   \* each wake source: its place; expected, kSuspend at
                        \* first and when it tries again
          suspends, wakes,
          late          \* history: the CPUs whose last transition was given
                        \* up on, or that a failed resumption left behind

suspVars == <<suspendedBit, wakeCount, power, complete, idleState, idleSignal,
              spc, scpu, toSuspend, toResume, startState, timer, wpc, wseen,
              suspends, wakes, late>>

Cpus == Secondary \cup {Boot}
Sources == Wakers \cup {"timer"}
kActive == <<"Active", "Active">>
kActiveToSuspend == <<"Active", "Suspend">>
kSuspend == <<"Suspend", "Suspend">>
kSuspendToWakeup == <<"Suspend", "Wakeup">>
kWakeup == <<"Wakeup", "Wakeup">>
kSuspendToActive == <<"Suspend", "Active">>
PowerStates == {kActive, kActiveToSuspend, kSuspend, kSuspendToWakeup, kWakeup,
                kSuspendToActive}
SuspenderPcs == {"idle", "pick", "wait", "boot", "boot_wait", "boot_done",
                 "resume", "resume_wait"}
\* Places of a wake source: not pending, in WakeBootCpu, pending.
WakerPcs == {"off", "try_suspend", "try_active", "pending"}

SuspendTypeOK ==
  /\ suspendedBit \in BOOLEAN /\ wakeCount \in Int
  /\ power \in [Cpus -> PowerStates]
  /\ complete \in [Cpus -> BOOLEAN]
  /\ idleState \in [Cpus -> PowerStates \cup {<<>>}]
  /\ idleSignal \subseteq Cpus
  /\ spc \in SuspenderPcs /\ scpu \in Cpus
  /\ toSuspend \subseteq Secondary /\ toResume \subseteq Secondary
  /\ startState \in {"Active", "Suspend", "Wakeup", "timed_out"}
  /\ timer \in BOOLEAN
  /\ wpc \in [Sources -> WakerPcs]
  /\ wseen \in [Sources -> PowerStates]
  /\ late \subseteq Secondary

SuspendInit ==
  /\ suspendedBit = FALSE /\ wakeCount = 0
  /\ power = [c \in Cpus |-> kActive]
  /\ complete = [c \in Cpus |-> FALSE]
  /\ idleState = [c \in Cpus |-> <<>>] /\ idleSignal = {}
  /\ spc = "idle" /\ scpu = Boot /\ toSuspend = {} /\ toResume = {}
  /\ startState = "Active" /\ timer = FALSE
  /\ wpc = [w \in Sources |-> "off"]
  /\ wseen = [w \in Sources |-> kSuspend]
  /\ suspends = 0 /\ wakes = 0 /\ late = {}

\* The scheduler runs the idle/power thread before any other while this
\* holds (pending_power_work).
PendingPowerWork(c) ==
  \/ power[c][1] \notin {"Active", "Wakeup"}
  \/ power[c][1] # power[c][2]

\* A wake source in the middle of its interrupt on the boot CPU.
BootInterrupted ==
  \E w \in Sources \ RemoteWakers : wpc[w] \in {"try_suspend", "try_active"}

\* The suspending thread can take a step.
SuspenderRuns == ~PendingPowerWork(Boot) /\ ~BootInterrupted
IdleRuns(c) == c = Boot => ~BootInterrupted

suspRest == <<suspendedBit, wakeCount, idleState, idleSignal, timer, wpc,
              wseen, suspends, wakes>>
-----------------------------------------------------------------------------
(* IdlePowerThread::Run.                                                   *)

IdleLoad(c) ==
  /\ IdleRuns(c)
  /\ idleState[c] = <<>> /\ c \notin idleSignal
  /\ power[c][1] # power[c][2]
  /\ idleState' = [idleState EXCEPT ![c] = power[c]]
  /\ UNCHANGED <<suspendedBit, wakeCount, power, complete, idleSignal, spc,
                 scpu, toSuspend, toResume, startState, timer, wpc, wseen,
                 suspends, wakes, late>>

\* Mutant: the boot CPU suspends without a look at the wake events.
IdleCompleteUnchecked(c) ==
  /\ IdleRuns(c)
  /\ idleState[c] # <<>>
  /\ power' = [power EXCEPT ![c] = <<idleState[c][2], idleState[c][2]>>]
  /\ idleState' = [idleState EXCEPT ![c] = <<>>]
  /\ idleSignal' = idleSignal \cup {c}
  /\ UNCHANGED <<suspendedBit, wakeCount, complete, spc, scpu, toSuspend,
                 toResume, startState, timer, wpc, wseen, suspends, wakes, late>>

\* Completes the transition, unless a wake event changed the state.
IdleComplete(c) ==
  /\ IdleRuns(c)
  /\ idleState[c] # <<>>
  /\ power' = IF power[c] = idleState[c]
              THEN [power EXCEPT ![c] = <<idleState[c][2], idleState[c][2]>>]
              ELSE power
  /\ idleState' = [idleState EXCEPT ![c] = <<>>]
  /\ idleSignal' = idleSignal \cup {c}
  /\ UNCHANGED <<suspendedBit, wakeCount, complete, spc, scpu, toSuspend,
                 toResume, startState, timer, wpc, wseen, suspends, wakes, late>>

IdleSignal(c) ==
  /\ IdleRuns(c)
  /\ c \in idleSignal
  /\ idleSignal' = idleSignal \ {c}
  /\ complete' = [complete EXCEPT ![c] = TRUE]
  /\ UNCHANGED <<suspendedBit, wakeCount, power, idleState, spc, scpu,
                 toSuspend, toResume, startState, timer, wpc, wseen, suspends,
                 wakes, late>>
-----------------------------------------------------------------------------
(* TransitionAllActiveToSuspend.                                           *)

\* The suspended flag is set only if no wake event is pending.  Suspended
\* CPUs stay in the scheduler's active mask, so all are to be suspended.
BeginSuspend ==
  /\ spc = "idle" /\ suspends < MaxSuspends /\ SuspenderRuns
  /\ suspends' = suspends + 1
  /\ wakeCount = 0
  /\ suspendedBit' = TRUE
  /\ toSuspend' = Secondary /\ toResume' = Secondary
  /\ spc' = "pick"
  /\ UNCHANGED <<wakeCount, power, complete, idleState, idleSignal, scpu,
                 startState, timer, wpc, wseen, wakes, late>>

\* TransitionFromTo, up to its wait, for the next CPU to suspend or resume.
StartTransition(c, from, to, wait) ==
  /\ SuspenderRuns
  /\ power[c] = <<from, from>>
  /\ power' = [power EXCEPT ![c] = <<from, to>>]
  /\ scpu' = c
  /\ spc' = wait
  /\ UNCHANGED <<complete, startState, toResume, late, suspRest>>

\* Its compare-exchange fails on a CPU whose current state is found: the
\* target state, with which it succeeds at once, or another.
FindState(c, from, found) ==
  /\ SuspenderRuns
  /\ power[c] # <<from, from>> /\ power[c][1] = found
  /\ UNCHANGED <<power, complete, scpu, startState, suspRest>>

\* Its wait: takes the signal and looks at the state.  A signal left over
\* from a transition given up on makes it look again.  Nothing else sets the
\* target of a secondary CPU meanwhile, so it is not canceled.
FinishTransition(to, wait, next) ==
  /\ SuspenderRuns
  /\ spc = wait /\ complete[scpu]
  /\ complete' = [complete EXCEPT ![scpu] = FALSE]
  /\ IF power[scpu] = <<to, to>>
     THEN spc' = next /\ scpu' = Boot /\ late' = late \ {scpu}
     ELSE UNCHANGED <<spc, scpu, late>>
  /\ UNCHANGED <<power, startState, suspRest>>

\* Its wait times out after a minute, with the transition still under way.
TransitionTimeout(wait) ==
  /\ SuspenderRuns
  /\ spc = wait /\ ~complete[scpu]
  /\ scpu' = Boot
  /\ UNCHANGED <<power, complete, startState, suspRest>>

\* Mutant: the CPUs that were suspended are not resumed.
AbortSuspendForgets ==
  /\ spc' = "resume"
  /\ toResume' = toSuspend
  /\ toSuspend' = {}

\* The loop stops and the boot CPU is left alone: the CPUs suspended so far
\* are resumed, the one given up on is not.
AbortSuspend ==
  /\ spc' = "resume"
  /\ toResume' = toResume \ toSuspend
  /\ toSuspend' = {}

SuspendSecondary ==
  \/ /\ spc = "pick"
     /\ \E c \in toSuspend :
          \/ /\ StartTransition(c, "Active", "Suspend", "wait")
             /\ UNCHANGED toSuspend
          \/ /\ FindState(c, "Active", "Suspend")
             /\ toSuspend' = toSuspend \ {c}
             /\ UNCHANGED <<spc, toResume, late>>
          \/ FindState(c, "Active", "Active") /\ AbortSuspend /\ UNCHANGED late
  \/ /\ FinishTransition("Suspend", "wait", "pick")
     /\ toSuspend' = IF spc' = "pick" THEN toSuspend \ {scpu} ELSE toSuspend
     /\ UNCHANGED toResume
  \/ /\ TransitionTimeout("wait")
     /\ late' = late \cup {scpu}
     /\ AbortSuspend

\* All secondary CPUs are suspended; the resume timer is set, or not.
SetResumeTimer ==
  /\ spc = "pick" /\ toSuspend = {} /\ SuspenderRuns
  /\ timer' \in BOOLEAN
  /\ spc' = "boot"
  /\ UNCHANGED <<suspendedBit, wakeCount, power, complete, idleState,
                 idleSignal, scpu, toSuspend, toResume, startState, wpc,
                 wseen, suspends, wakes, late>>

\* The boot CPU's TransitionFromTo: a state other than Active aborts it.
SuspendBoot ==
  /\ spc = "boot"
  /\ \/ StartTransition(Boot, "Active", "Suspend", "boot_wait")
     \/ /\ SuspenderRuns /\ power[Boot] # kActive
        /\ startState' = power[Boot][1]
        /\ spc' = "boot_done"
        /\ UNCHANGED <<power, complete, scpu, toResume, late, suspRest>>
  /\ UNCHANGED toSuspend

\* Its wait ends when the target is no longer Suspend.  A signal left over
\* from an earlier transition makes it look again.
BootWait ==
  /\ SuspenderRuns
  /\ spc = "boot_wait" /\ complete[Boot]
  /\ complete' = [complete EXCEPT ![Boot] = FALSE]
  /\ IF power[Boot][2] = "Suspend" THEN UNCHANGED <<startState, spc>>
     ELSE startState' = power[Boot][1] /\ spc' = "boot_done"
  /\ UNCHANGED <<power, scpu, toSuspend, toResume, late, suspRest>>

\* Its wait times out after a minute.
BootTimeout ==
  /\ SuspenderRuns
  /\ spc = "boot_wait" /\ ~complete[Boot]
  /\ spc' = "boot_done"
  /\ startState' = "timed_out"
  /\ UNCHANGED <<power, complete, scpu, toSuspend, toResume, late, suspRest>>

\* The timer is canceled, which waits for its callback; Wakeup is reset.
BootResumed ==
  /\ spc = "boot_done" /\ SuspenderRuns /\ wpc["timer"] = "off"
  /\ timer' = FALSE
  /\ power' = [power EXCEPT ![Boot] = IF @ = kWakeup THEN kActive ELSE @]
  /\ spc' = "resume" /\ scpu' = Boot /\ startState' = "Active"
  /\ UNCHANGED <<suspendedBit, wakeCount, complete, idleState, idleSignal,
                 toSuspend, toResume, wpc, wseen, suspends, wakes, late>>

\* The loop stops: what it has not resumed stays as it is.
AbortResume ==
  /\ spc' = "resume"
  /\ toResume' = {}
  /\ late' = late \cup toResume

ResumeSecondary ==
  /\ \/ /\ spc = "resume"
        /\ \E c \in toResume :
             \/ StartTransition(c, "Suspend", "Active", "resume_wait")
             \/ /\ FindState(c, "Suspend", "Active")
                /\ toResume' = toResume \ {c}
                /\ UNCHANGED <<spc, late>>
             \/ FindState(c, "Suspend", "Suspend") /\ AbortResume
     \/ /\ FinishTransition("Active", "resume_wait", "resume")
        /\ toResume' = IF spc' = "resume" THEN toResume \ {scpu} ELSE toResume
     \/ TransitionTimeout("resume_wait") /\ AbortResume
  /\ UNCHANGED toSuspend

EndSuspend ==
  /\ spc = "resume" /\ toResume = {} /\ SuspenderRuns
  /\ suspendedBit' = FALSE
  /\ spc' = "idle"
  /\ UNCHANGED <<wakeCount, power, complete, idleState, idleSignal, scpu,
                 toSuspend, toResume, startState, timer, wpc, wseen, suspends,
                 wakes, late>>
-----------------------------------------------------------------------------
(* Wake events.                                                            *)

wakeRest == <<suspendedBit, complete, idleState, idleSignal, spc, scpu,
              toSuspend, toResume, startState, suspends, late>>

\* WakeEvent::Trigger and TriggerSystemWakeEvent: the first pending event of
\* a suspended system wakes the boot CPU.  The timer's callback runs once.
TriggerWake(w) ==
  /\ wpc[w] = "off" /\ wakes < MaxWakes
  /\ ~BootInterrupted \/ w \in RemoteWakers
  /\ w = "timer" => timer
  /\ timer' = (timer /\ w # "timer")
  /\ wakes' = wakes + 1
  /\ wakeCount' = wakeCount + 1
  /\ wpc' = [wpc EXCEPT ![w] = IF suspendedBit /\ wakeCount = 0
                               THEN "try_suspend" ELSE "pending"]
  /\ UNCHANGED <<power, wseen, wakeRest>>

\* Mutant: the first exchange fails and the second is not tried.
WakeFromSuspendOnly(w) ==
  /\ wpc[w] = "try_suspend"
  /\ power' = IF power[Boot] = kSuspend
              THEN [power EXCEPT ![Boot] = kSuspendToWakeup] ELSE power
  /\ wpc' = [wpc EXCEPT ![w] = "pending"]
  /\ UNCHANGED <<wseen, wakeCount, timer, wakes, wakeRest>>

\* WakeBootCpu's first compare-exchange: Suspend to SuspendToWakeup.
WakeFromSuspend(w) ==
  /\ wpc[w] = "try_suspend"
  /\ \/ /\ power[Boot] = kSuspend
        /\ power' = [power EXCEPT ![Boot] = kSuspendToWakeup]
        /\ wpc' = [wpc EXCEPT ![w] = "pending"]
        /\ UNCHANGED wseen
     \/ /\ power[Boot] \in {kActive, kActiveToSuspend}
        /\ wseen' = [wseen EXCEPT ![w] = power[Boot]]
        /\ wpc' = [wpc EXCEPT ![w] = "try_active"]
        /\ UNCHANGED power
     \/ /\ power[Boot] \notin {kSuspend, kActive, kActiveToSuspend}
        /\ wpc' = [wpc EXCEPT ![w] = "pending"]
        /\ UNCHANGED <<power, wseen>>
  /\ UNCHANGED <<wakeCount, timer, wakes, wakeRest>>

\* Its second: what was seen, Active or ActiveToSuspend, to Wakeup.  It only
\* tries again if the state has become Suspend.
WakeFromActive(w) ==
  /\ wpc[w] = "try_active"
  /\ LET same == power[Boot] = wseen[w]
     IN  /\ power' = IF same THEN [power EXCEPT ![Boot] = kWakeup] ELSE power
         /\ wseen' = [wseen EXCEPT ![w] = kSuspend]
         /\ wpc' = [wpc EXCEPT ![w] = IF ~same /\ power[Boot] = kSuspend
                                      THEN "try_suspend" ELSE "pending"]
  /\ UNCHANGED <<wakeCount, timer, wakes, wakeRest>>

\* WakeEvent::Acknowledge; the timer's event is acknowledged when its
\* callback returns.
AcknowledgeWake(w) ==
  /\ wpc[w] = "pending"
  /\ wpc' = [wpc EXCEPT ![w] = "off"]
  /\ wakeCount' = wakeCount - 1
  /\ UNCHANGED <<power, timer, wseen, wakes, wakeRest>>
-----------------------------------------------------------------------------
Waker(w) == WakeFromSuspend(w) \/ WakeFromActive(w)
Idle(c) == IdleLoad(c) \/ IdleComplete(c) \/ IdleSignal(c)
Suspender ==
  \/ SuspendSecondary \/ SetResumeTimer \/ SuspendBoot \/ BootWait
  \/ BootTimeout \/ BootResumed \/ ResumeSecondary \/ EndSuspend

SuspendNext ==
  \/ BeginSuspend \/ Suspender
  \/ \E c \in Cpus : Idle(c)
  \/ \E w \in Sources : TriggerWake(w) \/ Waker(w) \/ AcknowledgeWake(w)

SuspendSpec == SuspendInit /\ [][SuspendNext]_suspVars

\* Threads and interrupt handlers that can run do; the boot CPU's wait has a
\* timeout.  Nothing obliges a wake source to trigger or a driver to
\* acknowledge.
SuspendFairness ==
  /\ WF_suspVars(Suspender)
  /\ \A c \in Cpus : WF_suspVars(Idle(c))
  /\ \A w \in Sources : WF_suspVars(Waker(w))
  /\ WF_suspVars(AcknowledgeWake("timer"))
-----------------------------------------------------------------------------
\* A wake event is not missed: while one is pending the boot CPU does not
\* rest in Suspend, unless a wake source is still trying to wake it.
NoMissedWake ==
  wakeCount > 0 /\ power[Boot] = kSuspend =>
    \E w \in Sources : wpc[w] \in {"try_suspend", "try_active"}

\* The assertion at the end of WakeBootCpu: it gives up only if another wake
\* source has woken the boot CPU.
WakeGivesUpSafely ==
  [][\A w \in Sources :
       wpc[w] \in {"try_suspend", "try_active"} /\ wpc'[w] = "pending"
         => power'[Boot] \in {kSuspendToWakeup, kWakeup}]_suspVars

\* The assertions on the boot CPU's suspension: it ends in Wakeup.
BootEndsInWakeup == spc = "boot_done" => startState \in {"Wakeup", "timed_out"}

\* When the call returns every CPU runs but those it gave up on: one whose
\* transition timed out, or one not reached once a resumption had failed.
\* In particular an aborted suspension resumes each CPU it had suspended.
AllResumed ==
  spc = "idle" => \A c \in Secondary \ late : power[c] = kActive

\* The boot CPU goes to sleep last and wakes up first; only a CPU that an
\* earlier call gave up on may be awake meanwhile.
BootLast ==
  power[Boot][1] = "Suspend" =>
    suspendedBit /\ \A c \in Secondary \ late : power[c] = kSuspend

\* A wake event ends the suspension.
WakeResumes ==
  (suspendedBit /\ wakeCount > 0) ~> ~suspendedBit

\* The suspension is orderly: the boot CPU sleeps last and ends in Wakeup,
\* and when the call returns, complete or aborted by a wake event or by a
\* CPU that is late, all CPUs run but the late ones.
SuspendConsistent ==
  SuspendTypeOK /\ BootEndsInWakeup /\ AllResumed /\ BootLast
=============================================================================
