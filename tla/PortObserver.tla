---------------------------- MODULE PortObserver ----------------------------
(***************************************************************************)
(* The life of a PortObserver: made by zx_object_wait_async, published on  *)
(* the port's observers_ and then on the watched dispatcher's observers_,  *)
(* matched by UpdateState, canceled by zx_port_cancel, zx_port_cancel_key  *)
(* or the closing of the watched handle, and destroyed by whichever thread *)
(* unlinks it from its dispatcher.  There is one port; the semaphore and   *)
(* the order of its packets are in PortQueue.                              *)
(*                                                                         *)
(* The port's lock is only ever held for one step, the dispatcher's lock   *)
(* is held over the callbacks and is explicit.  Lists are sets: nothing    *)
(* here depends on their order.                                            *)
(***************************************************************************)
EXTENDS Integers, FiniteSets

CONSTANTS Threads, Observers, Objects, Handles, Keys, Signals,
          None,               \* no thread, observer, object, handle or key
          ObjectOf,           \* the dispatcher each handle refers to
          SizeModulus,        \* the list's size counter is a size_t
          SerializedCancelKey \* no zx_port_cancel_key overlaps a
                              \* zx_object_wait_async that uses its key

ASSUME NoneAssumption ==
  None \notin Threads \cup Observers \cup Objects \cup Handles \cup Keys
ASSUME ObserversAssumption == IsFiniteSet(Observers)
ASSUME ObjectOfAssumption == ObjectOf \in [Handles -> Objects]
ASSUME SizeAssumption == SizeModulus \in Nat \ {0}
ASSUME SerializedAssumption == SerializedCancelKey \in BOOLEAN

VARIABLES
  signals,       \* Dispatcher::signals_
  dlock,         \* holder of the dispatcher's lock
  onObject,      \* observers on their dispatcher's observers_
  alive,         \* dispatchers not yet destroyed
  handles,       \* "open" (in the table), "closing" or "closed"
  portOpen,      \* the port's handle is in the table
  zeroHandles,   \* PortDispatcher::zero_handles_
  onPort,        \* PortDispatcher::observers_
  size,          \* the size counter of that list
  queued,        \* observers whose packet is on packets_
  owned,         \* observers their own packet will destroy
  canceled,      \* observers whose packet is marked canceled
  linked,        \* observers whose dispatcher_ is not null
  state,         \* "unused", "live" or "freed"
  attr,          \* what each observer was made with
  pc,            \* each thread's place, and its local variables:
  cur,           \*   the observer at hand
  todo,          \*   the observers still to call back
  list,          \*   canceled_observers
  obj, hnd, key, \*   the dispatcher, handle and key of the call
  why,           \*   why it calls observers back
  pre,           \* history: waits registered when a cancel call began
  voided         \* history: waits a returned cancel call has canceled

portVars == <<portOpen, zeroHandles, onPort, size, queued, owned, canceled,
              linked, state, attr>>
objectVars == <<signals, dlock, onObject, alive, handles>>
args == <<obj, hnd, key>>
locals == <<cur, todo, list, args, why, pre>>
vars == <<objectVars, portVars, pc, locals, voided>>

Attrs == [handle : Handles, key : Keys, trigger : SUBSET Signals,
          edge : BOOLEAN]

Pcs == {"idle", "add", "notify", "reap", "close", "cancel", "cancel_queued",
        "cancel_key", "ck_remove", "ck_destroy", "zero", "zh_packets",
        "zh_remove", "zh_next"}

ObjOf(o) == ObjectOf[attr[o].handle]

\* Places at which a thread has unlinked cur and must destroy it.
ClaimPcs == {"ck_remove", "ck_destroy", "zh_remove"}
\* Places inside a dispatcher's critical section.
LockedPcs == {"notify", "reap"}

\* Type correctness, and: a dispatcher's lock is owned exactly by the thread
\* that is calling that dispatcher's observers.
TypeOK ==
  /\ signals \in [Objects -> SUBSET Signals]
  /\ dlock \in [Objects -> Threads \cup {None}]
  /\ onObject \in SUBSET Observers
  /\ alive \in SUBSET Objects
  /\ handles \in [Handles -> {"open", "closing", "closed"}]
  /\ portOpen \in BOOLEAN
  /\ zeroHandles \in BOOLEAN
  /\ onPort \in SUBSET Observers
  /\ size \in 0..(SizeModulus - 1)
  /\ queued \in SUBSET Observers
  /\ owned \in SUBSET Observers
  /\ canceled \in SUBSET Observers
  /\ linked \in SUBSET Observers
  /\ state \in [Observers -> {"unused", "live", "freed"}]
  /\ attr \in [Observers -> Attrs]
  /\ pc \in [Threads -> Pcs]
  /\ cur \in [Threads -> Observers \cup {None}]
  /\ todo \in [Threads -> SUBSET Observers]
  /\ list \in [Threads -> SUBSET Observers]
  /\ obj \in [Threads -> Objects \cup {None}]
  /\ hnd \in [Threads -> Handles \cup {None}]
  /\ key \in [Threads -> Keys \cup {None}]
  /\ why \in [Threads -> {"none", "wait", "match", "close", "cancel"}]
  /\ pre \in [Threads -> SUBSET Observers]
  /\ voided \in SUBSET Observers
  /\ \A t \in Threads, d \in Objects :
       dlock[d] = t <=> pc[t] \in LockedPcs /\ obj[t] = d

Init ==
  /\ signals = [d \in Objects |-> {}]
  /\ dlock = [d \in Objects |-> None]
  /\ onObject = {}
  /\ alive = Objects
  /\ handles = [h \in Handles |-> "open"]
  /\ portOpen = TRUE
  /\ zeroHandles = FALSE
  /\ onPort = {}
  /\ size = 0
  /\ queued = {}
  /\ owned = {}
  /\ canceled = {}
  /\ linked = {}
  /\ state = [o \in Observers |-> "unused"]
  /\ attr \in [Observers -> {CHOOSE a \in Attrs : TRUE}]
  /\ pc = [t \in Threads |-> "idle"]
  /\ cur = [t \in Threads |-> None]
  /\ todo = [t \in Threads |-> {}]
  /\ list = [t \in Threads |-> {}]
  /\ obj = [t \in Threads |-> None]
  /\ hnd = [t \in Threads |-> None]
  /\ key = [t \in Threads |-> None]
  /\ why = [t \in Threads |-> "none"]
  /\ pre = [t \in Threads |-> {}]
  /\ voided = {}

-----------------------------------------------------------------------------
(* Helpers *)

\* A call returns.
Return(t) ==
  /\ pc' = [pc EXCEPT ![t] = "idle"]
  /\ cur' = [cur EXCEPT ![t] = None]
  /\ todo' = [todo EXCEPT ![t] = {}]
  /\ list' = [list EXCEPT ![t] = {}]
  /\ obj' = [obj EXCEPT ![t] = None]
  /\ hnd' = [hnd EXCEPT ![t] = None]
  /\ key' = [key EXCEPT ![t] = None]
  /\ why' = [why EXCEPT ![t] = "none"]
  /\ pre' = [pre EXCEPT ![t] = {}]

InWaitAsync(t) == pc[t] = "add" \/ why[t] = "wait"
InCancelKey(t) == pc[t] \in {"cancel_key", "ck_remove", "ck_destroy"}

\* Threads inside a reader section of the handle table's lock; removing a
\* handle takes the lock as a writer.
TableReaders ==
  {t \in Threads : InWaitAsync(t) \/ why[t] = "cancel"}

\* Take a dispatcher's lock and start calling back the observers in s.
StartNotify(t, d, s, w) ==
  /\ dlock' = [dlock EXCEPT ![d] = t]
  /\ pc' = [pc EXCEPT ![t] = "notify"]
  /\ todo' = [todo EXCEPT ![t] = s]
  /\ obj' = [obj EXCEPT ![t] = d]
  /\ why' = [why EXCEPT ![t] = w]
  /\ UNCHANGED <<cur, list, hnd, key, pre>>

Free(s) == [o \in Observers |-> IF o \in s THEN "freed" ELSE state[o]]

\* Packets leave packets_; a packet that owns its observer destroys it.
DropPackets(s) ==
  /\ queued' = queued \ s
  /\ owned' = owned \ s
  /\ state' = Free(owned \cap s)

-----------------------------------------------------------------------------
(* zx_object_wait_async *)

\* PortDispatcher::MakeObserver up to the release of the port's lock, under
\* the handle table's reader lock.  The size limit only raises an exception.
WaitAsync(t, o, h, k, s, e) ==
  /\ pc[t] = "idle"
  /\ portOpen
  /\ handles[h] = "open"
  /\ state[o] = "unused"
  /\ SerializedCancelKey =>
       \A u \in Threads : InCancelKey(u) => key[u] # k
  /\ state' = [state EXCEPT ![o] = "live"]
  /\ attr' = [attr EXCEPT ![o] = [handle |-> h, key |-> k, trigger |-> s,
                                  edge |-> e]]
  /\ linked' = linked \cup {o}
  /\ onPort' = onPort \cup {o}
  /\ size' = (size + 1) % SizeModulus
  /\ pc' = [pc EXCEPT ![t] = "add"]
  /\ cur' = [cur EXCEPT ![t] = o]
  /\ obj' = [obj EXCEPT ![t] = ObjectOf[h]]
  /\ key' = [key EXCEPT ![t] = k]
  /\ UNCHANGED <<objectVars, portOpen, zeroHandles, queued, owned, canceled,
                 todo, list, hnd, why, pre, voided>>

\* Mutant: an edge-triggered observer of an active signal is dropped.
AddObserverDropsEdge(t) ==
  LET o == cur[t]
      d == obj[t]
  IN /\ pc[t] = "add"
     /\ dlock[d] = None
     /\ IF attr[o].trigger \cap signals[d] # {}
          THEN IF attr[o].edge
                 THEN Return(t) /\ UNCHANGED <<onObject, dlock>>
                 ELSE StartNotify(t, d, {o}, "wait") /\ UNCHANGED onObject
          ELSE /\ onObject' = onObject \cup {o}
               /\ Return(t)
               /\ UNCHANGED dlock
     /\ UNCHANGED <<signals, alive, handles, portVars, voided>>

\* Dispatcher::AddObserver: a level-triggered observer whose signals are
\* active is called back at once, any other goes on the list.
AddObserver(t) ==
  LET o == cur[t]
      d == obj[t]
  IN /\ pc[t] = "add"
     /\ dlock[d] = None
     /\ IF ~attr[o].edge /\ attr[o].trigger \cap signals[d] # {}
          THEN /\ StartNotify(t, d, {o}, "wait")
               /\ UNCHANGED onObject
          ELSE /\ onObject' = onObject \cup {o}
               /\ Return(t)
               /\ UNCHANGED dlock
     /\ UNCHANGED <<signals, alive, handles, portVars, voided>>

-----------------------------------------------------------------------------
(* Signals and callbacks *)

\* Dispatcher::UpdateState with nothing to set or to strobe clears without
\* the lock.
ClearSignals(t, d, clear) ==
  /\ pc[t] = "idle"
  /\ d \in alive
  /\ signals' = [signals EXCEPT ![d] = @ \ clear]
  /\ UNCHANGED <<dlock, onObject, alive, handles, portVars, pc,
                 locals, voided>>

\* Dispatcher::UpdateState with signals to set or to strobe, and
\* UpdateStateLocked: the observers of any active or strobed signal are
\* called if one became active or was strobed.
UpdateState(t, d, clear, set, strobe) ==
  LET updated == (signals[d] \ clear) \cup set
      newly == set \ signals[d]
  IN /\ pc[t] = "idle"
     /\ d \in alive
     /\ set \cup strobe # {}
     /\ dlock[d] = None
     /\ signals' = [signals EXCEPT ![d] = updated]
     /\ IF newly \cup strobe # {}
          THEN StartNotify(t, d,
                 {o \in onObject : /\ ObjOf(o) = d
                                   /\ attr[o].trigger \cap (updated \cup strobe)
                                        # {}},
                 "match")
          ELSE UNCHANGED <<dlock, pc, locals>>
     /\ UNCHANGED <<onObject, alive, handles, portVars, voided>>

\* PortDispatcher::Queue of an observer's packet takes it.
QueueAccepts(o) == ~zeroHandles /\ o \notin canceled

\* Erase the next observer from the dispatcher's list and call it:
\* PortObserver::OnMatch up to the end of Queue, or OnCancel.
NotifyObserver(t, o) ==
  /\ pc[t] = "notify"
  /\ o \in todo[t]
  /\ onObject' = onObject \ {o}
  /\ queued' = IF why[t] \in {"wait", "match"} /\ QueueAccepts(o)
                 THEN queued \cup {o} ELSE queued
  /\ pc' = [pc EXCEPT ![t] = "reap"]
  /\ cur' = [cur EXCEPT ![t] = o]
  /\ todo' = [todo EXCEPT ![t] = @ \ {o}]
  /\ UNCHANGED <<signals, dlock, alive, handles, portOpen, zeroHandles, onPort,
                 size, owned, canceled, linked, state, attr, list, args, why,
                 pre, voided>>

\* Mutant: an observer whose packet is not queued is not destroyed.
MaybeReapLeaks(t) ==
  LET o == cur[t]
  IN /\ pc[t] = "reap"
     /\ pc' = [pc EXCEPT ![t] = "notify"]
     /\ cur' = [cur EXCEPT ![t] = None]
     /\ IF o \in linked
          THEN /\ linked' = linked \ {o}
               /\ onPort' = onPort \ {o}
               /\ size' = (size - 1) % SizeModulus
               /\ owned' = owned \cup ({o} \cap queued)
               /\ list' = [u \in Threads |-> list[u] \ {o}]
          ELSE UNCHANGED <<linked, onPort, size, owned, list>>
     /\ UNCHANGED <<objectVars, portOpen, zeroHandles, queued, canceled, state,
                    attr, todo, args, why, pre, voided>>

\* PortDispatcher::MaybeReap: the thread that unlinks the observer erases it
\* from the list it is on (observers_, or some CancelKey's list), gives it
\* to its packet if that is queued, and otherwise destroys it.  The size
\* counter it decrements is always the one of observers_.
MaybeReap(t) ==
  LET o == cur[t]
  IN /\ pc[t] = "reap"
     /\ pc' = [pc EXCEPT ![t] = "notify"]
     /\ cur' = [cur EXCEPT ![t] = None]
     /\ IF o \in linked
          THEN /\ linked' = linked \ {o}
               /\ onPort' = onPort \ {o}
               /\ size' = (size - 1) % SizeModulus
               /\ owned' = owned \cup ({o} \cap queued)
               /\ state' = Free({o} \ queued)
               /\ list' = [u \in Threads |-> list[u] \ {o}]
          ELSE UNCHANGED <<linked, onPort, size, owned, state, list>>
     /\ UNCHANGED <<objectVars, portOpen, zeroHandles, queued, canceled, attr,
                    todo, args, why, pre, voided>>

\* Mutant: the dispatcher's lock is not released.
NotifyDoneKeepsLock(t) ==
  /\ pc[t] = "notify"
  /\ todo[t] = {}
  /\ IF why[t] = "cancel"
       THEN pc' = [pc EXCEPT ![t] = "cancel_queued"] /\ UNCHANGED locals
       ELSE Return(t)
  /\ handles' = IF why[t] = "close"
                  THEN [handles EXCEPT ![hnd[t]] = "closed"] ELSE handles
  /\ UNCHANGED <<signals, dlock, onObject, alive, portVars, voided>>

\* The last observer was called: the dispatcher's lock is released and the
\* caller goes on.  Closing a handle ends here, zx_port_cancel does not.
NotifyDone(t) ==
  /\ pc[t] = "notify"
  /\ todo[t] = {}
  /\ dlock' = [dlock EXCEPT ![obj[t]] = None]
  /\ IF why[t] = "cancel"
       THEN pc' = [pc EXCEPT ![t] = "cancel_queued"] /\ UNCHANGED locals
       ELSE Return(t)
  /\ handles' = IF why[t] = "close"
                  THEN [handles EXCEPT ![hnd[t]] = "closed"] ELSE handles
  /\ UNCHANGED <<signals, onObject, alive, portVars, voided>>

-----------------------------------------------------------------------------
(* Closing the watched handle *)

\* The handle leaves the table (HandleTable::RemoveHandle).
CloseHandle(t, h) ==
  /\ pc[t] = "idle"
  /\ handles[h] = "open"
  /\ TableReaders = {}
  /\ handles' = [handles EXCEPT ![h] = "closing"]
  /\ pc' = [pc EXCEPT ![t] = "close"]
  /\ hnd' = [hnd EXCEPT ![t] = h]
  /\ obj' = [obj EXCEPT ![t] = ObjectOf[h]]
  /\ UNCHANGED <<signals, dlock, onObject, alive, portVars, cur, todo, list,
                 key, why, pre, voided>>

\* HandleTableArena::Delete calls Dispatcher::Cancel.
Cancel(t) ==
  LET d == obj[t]
  IN /\ pc[t] = "close"
     /\ dlock[d] = None
     /\ StartNotify(t, d, {o \in onObject : attr[o].handle = hnd[t]},
                    "close")
     /\ UNCHANGED <<signals, onObject, alive, handles, portVars, voided>>

\* The last reference to a dispatcher is dropped.
DestroyObject(d) ==
  /\ d \in alive
  /\ \A h \in Handles : ObjectOf[h] = d => handles[h] = "closed"
  /\ \A t \in Threads : obj[t] # d
  /\ alive' = alive \ {d}
  /\ UNCHANGED <<signals, dlock, onObject, handles, portVars, pc,
                 locals, voided>>

-----------------------------------------------------------------------------
(* zx_port_cancel *)

\* The waits a cancel call that starts now has to cancel: those made by a
\* zx_object_wait_async that has returned.
Registered(s) ==
  {o \in s : state[o] = "live"
             /\ \A t \in Threads : InWaitAsync(t) => cur[t] # o}

\* The port is looked up.
PortCancel(t, h, k) ==
  /\ pc[t] = "idle"
  /\ portOpen
  /\ pc' = [pc EXCEPT ![t] = "cancel"]
  /\ hnd' = [hnd EXCEPT ![t] = h]
  /\ key' = [key EXCEPT ![t] = k]
  /\ pre' = [pre EXCEPT ![t] = Registered({o \in Observers :
                                  attr[o].handle = h /\ attr[o].key = k})]
  /\ UNCHANGED <<objectVars, portVars, cur, todo, list, obj, why, voided>>

\* The watched handle is not in the table any more.
PortCancelBadHandle(t) ==
  /\ pc[t] = "cancel"
  /\ handles[hnd[t]] # "open"
  /\ Return(t)
  /\ UNCHANGED <<objectVars, portVars, voided>>

\* Dispatcher::CancelByKey, under the table's reader lock.
CancelByKey(t) ==
  LET d == ObjectOf[hnd[t]]
  IN /\ pc[t] = "cancel"
     /\ handles[hnd[t]] = "open"
     /\ dlock[d] = None
     /\ StartNotify(t, d, {o \in onObject : /\ attr[o].handle = hnd[t]
                                            /\ attr[o].key = key[t]},
                    "cancel")
     /\ UNCHANGED <<signals, onObject, alive, handles, portVars, voided>>

\* Mutant: zx_port_cancel leaves the queued packets alone.
CancelQueuedSkipped(t) ==
  /\ pc[t] = "cancel_queued"
  /\ voided' = voided \cup pre[t]
  /\ Return(t)
  /\ UNCHANGED <<objectVars, portVars>>

\* PortDispatcher::CancelQueued(handle, key); zx_port_cancel returns.
CancelQueued(t) ==
  /\ pc[t] = "cancel_queued"
  /\ DropPackets({o \in queued : /\ attr[o].handle = hnd[t]
                                 /\ attr[o].key = key[t]})
  /\ voided' = voided \cup pre[t]
  /\ Return(t)
  /\ UNCHANGED <<objectVars, portOpen, zeroHandles, onPort, size, canceled,
                 linked, attr>>

-----------------------------------------------------------------------------
(* zx_port_cancel_key *)

CancelKeyBegin(t, k) ==
  /\ pc[t] = "idle"
  /\ portOpen
  /\ SerializedCancelKey =>
       \A u \in Threads : InWaitAsync(u) => key[u] # k
  /\ pc' = [pc EXCEPT ![t] = "cancel_key"]
  /\ key' = [key EXCEPT ![t] = k]
  /\ pre' = [pre EXCEPT ![t] = Registered({o \in Observers :
                                             attr[o].key = k})]
  /\ UNCHANGED <<objectVars, portVars, cur, todo, list, obj, hnd, why, voided>>

\* Pop an observer of canceled_observers and unlink it, taking a reference
\* to its dispatcher, or return when there is none left.
PopCanceled(t, rest) ==
  \/ \E o \in rest :
       /\ linked' = linked \ {o}
       /\ pc' = [pc EXCEPT ![t] = "ck_remove"]
       /\ cur' = [cur EXCEPT ![t] = o]
       /\ list' = [list EXCEPT ![t] = rest \ {o}]
       /\ obj' = [obj EXCEPT ![t] = ObjOf(o)]
       /\ UNCHANGED <<todo, hnd, key, why, pre, voided>>
  \/ /\ rest = {}
     /\ voided' = voided \cup pre[t]
     /\ Return(t)
     /\ UNCHANGED linked

\* PortDispatcher::CancelKey up to the first release of the port's lock.
CancelKey(t) ==
  LET moved == {o \in onPort : attr[o].key = key[t]}
  IN /\ pc[t] = "cancel_key"
     /\ canceled' = canceled \cup moved
     /\ onPort' = onPort \ moved
     /\ size' = (size - Cardinality(moved)) % SizeModulus
     /\ DropPackets({o \in queued : attr[o].key = key[t]})
     /\ PopCanceled(t, moved)
     /\ UNCHANGED <<objectVars, portOpen, zeroHandles, attr>>

\* Dispatcher::RemoveObserver, called without the port's lock.
CancelKeyRemove(t) ==
  /\ pc[t] = "ck_remove"
  /\ dlock[obj[t]] = None
  /\ onObject' = onObject \ {cur[t]}
  /\ pc' = [pc EXCEPT ![t] = "ck_destroy"]
  /\ UNCHANGED <<signals, dlock, alive, handles, portVars, locals, voided>>

\* The observer is destroyed and the loop goes round, under the port's lock.
CancelKeyDestroy(t) ==
  /\ pc[t] = "ck_destroy"
  /\ state' = Free({cur[t]})
  /\ PopCanceled(t, list[t])
  /\ UNCHANGED <<objectVars, portOpen, zeroHandles, onPort, size, queued,
                 owned, canceled, attr>>

-----------------------------------------------------------------------------
(* Closing the port, and zx_port_wait *)

ClosePort(t) ==
  /\ pc[t] = "idle"
  /\ portOpen
  /\ TableReaders = {}
  /\ portOpen' = FALSE
  /\ pc' = [pc EXCEPT ![t] = "zero"]
  /\ UNCHANGED <<objectVars, zeroHandles, onPort, size, queued, owned,
                 canceled, linked, state, attr, locals, voided>>

\* Pop an observer of observers_ and unlink it, or return when none is left.
PopObserver(t) ==
  \/ \E o \in onPort :
       /\ onPort' = onPort \ {o}
       /\ size' = (size - 1) % SizeModulus
       /\ linked' = linked \ {o}
       /\ pc' = [pc EXCEPT ![t] = "zh_remove"]
       /\ cur' = [cur EXCEPT ![t] = o]
       /\ obj' = [obj EXCEPT ![t] = ObjOf(o)]
       /\ UNCHANGED <<todo, list, hnd, key, why, pre>>
  \/ /\ onPort = {}
     /\ Return(t)
     /\ UNCHANGED <<onPort, size, linked>>

\* PortDispatcher::on_zero_handles starts.
OnZeroHandles(t) ==
  /\ pc[t] = "zero"
  /\ zeroHandles' = TRUE
  /\ pc' = [pc EXCEPT ![t] = "zh_packets"]
  /\ UNCHANGED <<objectVars, portOpen, onPort, size, queued, owned, canceled,
                 linked, state, attr, locals, voided>>

\* Its loop over packets_ pops those in s before it drops the lock to free a
\* user packet, or all of them and goes on to the observers.
ZeroHandlesPackets(t, s) ==
  /\ pc[t] = "zh_packets"
  /\ DropPackets(s)
  /\ \/ s = queued /\ PopObserver(t)
     \/ s # {} /\ s # queued /\ UNCHANGED <<onPort, size, linked, pc, locals>>
  /\ UNCHANGED <<objectVars, portOpen, zeroHandles, canceled, attr, voided>>

\* The unlocked part of the loop: RemoveObserver, then the destruction.
ZeroHandlesRemove(t) ==
  /\ pc[t] = "zh_remove"
  /\ dlock[obj[t]] = None
  /\ onObject' = onObject \ {cur[t]}
  /\ state' = Free({cur[t]})
  /\ pc' = [pc EXCEPT ![t] = "zh_next"]
  /\ cur' = [cur EXCEPT ![t] = None]
  /\ obj' = [obj EXCEPT ![t] = None]
  /\ UNCHANGED <<signals, dlock, alive, handles, portOpen, zeroHandles, onPort,
                 size, queued, owned, canceled, linked, attr, todo, list, hnd,
                 key, why, pre, voided>>

ZeroHandlesNext(t) ==
  /\ pc[t] = "zh_next"
  /\ PopObserver(t)
  /\ UNCHANGED <<objectVars, portOpen, zeroHandles, queued, owned, canceled,
                 state, attr, voided>>

\* PortDispatcher::Dequeue takes a packet.  The observer is destroyed if the
\* packet owns it; otherwise the MaybeReap still to come destroys it.
Dequeue(o) ==
  /\ o \in queued
  /\ DropPackets({o})
  /\ UNCHANGED <<objectVars, portOpen, zeroHandles, onPort, size, canceled,
                 linked, attr, pc, locals, voided>>

-----------------------------------------------------------------------------

\* A call begins, or does all it does in one step.
Begin(t) ==
  \/ \E o \in Observers, h \in Handles, k \in Keys, e \in BOOLEAN,
        s \in SUBSET Signals \ {{}} : WaitAsync(t, o, h, k, s, e)
  \/ \E d \in Objects, clear \in SUBSET Signals : ClearSignals(t, d, clear)
  \/ \E d \in Objects, clear, set, strobe \in SUBSET Signals :
       UpdateState(t, d, clear, set, strobe)
  \/ \E h \in Handles : CloseHandle(t, h)
  \/ \E h \in Handles, k \in Keys : PortCancel(t, h, k)
  \/ \E k \in Keys : CancelKeyBegin(t, k)
  \/ ClosePort(t)

\* A call goes on without a dispatcher's lock to wait for.
Continue(t) ==
  \/ \E o \in Observers : NotifyObserver(t, o)
  \/ MaybeReap(t)
  \/ NotifyDone(t)
  \/ PortCancelBadHandle(t)
  \/ CancelQueued(t)
  \/ CancelKey(t)
  \/ CancelKeyDestroy(t)
  \/ OnZeroHandles(t)
  \/ \E s \in SUBSET queued : ZeroHandlesPackets(t, s)
  \/ ZeroHandlesNext(t)

\* A call takes a dispatcher's lock.
Acquire(t) ==
  \/ AddObserver(t)
  \/ Cancel(t)
  \/ CancelByKey(t)
  \/ CancelKeyRemove(t)
  \/ ZeroHandlesRemove(t)

Next ==
  \/ \E t \in Threads : Begin(t) \/ Continue(t) \/ Acquire(t)
  \/ \E d \in Objects : DestroyObject(d)
  \/ \E o \in Observers : Dequeue(o)

Spec == Init /\ [][Next]_vars

\* A thread inside a call keeps running, and a thread that waits for a
\* dispatcher's lock is handed it: Mutex::ReleaseContendedMutex makes a
\* waiter the new owner.
Fairness == \A t \in Threads : WF_vars(Continue(t)) /\ SF_vars(Acquire(t))
FairSpec == Spec /\ Fairness

-----------------------------------------------------------------------------
(* Properties *)

\* Thread t unlinked o and will destroy it.
Claims(t, o) == pc[t] \in ClaimPcs /\ cur[t] = o
\* Thread t has o on its canceled_observers, or claims it.
Keeps(t, o) == o \in list[t] \/ Claims(t, o)

\* Thread t is about to add o to its dispatcher's list or is calling it.
Calling(t, o) ==
  \/ o \in todo[t]
  \/ pc[t] \in {"add", "reap"} /\ cur[t] = o

\* No observer is destroyed while a list, a packet or a thread still points
\* to it ("Only destroy the observer after RemoveObserver completes to
\* ensure we don't destroy it out from under the dispatcher",
\* port_dispatcher.cc), and none is used before it is made.
NoDanglingObserver ==
  \A o \in Observers : state[o] # "live" =>
    /\ o \notin onObject \cup onPort \cup queued \cup owned \cup linked
    /\ \A t \in Threads : ~Keeps(t, o) /\ ~Calling(t, o)

\* Every live observer has exactly one owner, which will destroy it: the
\* port's list (through MaybeReap or on_zero_handles), its own packet, a
\* CancelKey's list or a thread.  So it is destroyed once and never leaked,
\* although MaybeReap, CancelKey and on_zero_handles race for it: "whichever
\* one of us unlinks the dispatcher will be responsible".
OneOwner ==
  \A o \in Observers :
    /\ state[o] = "live" <=> \/ o \in onPort \cup owned
                             \/ \E t \in Threads : Keeps(t, o)
    /\ o \notin onPort \cap owned
    /\ \A t \in Threads : Keeps(t, o) =>
         /\ o \notin onPort \cup owned
         /\ ~(o \in list[t] /\ Claims(t, o))
         /\ \A u \in Threads : Keeps(u, o) => u = t

\* An observer still linked to its dispatcher, or on its list, never
\* outlives it: the raw pointer PortObserver::dispatcher_ is safe to turn
\* into a reference.
DispatcherOutlivesObserver ==
  \A o \in linked \cup onObject : ObjOf(o) \in alive

\* A registered wait can still fire: while the port has the observer on its
\* list, the dispatcher has it too, or a thread is about to call it or to
\* add it.
NoDeafObserver ==
  \A o \in onPort : o \in onObject \/ \E t \in Threads : Calling(t, o)

\* No level-triggered wait is left pending while one of its signals is
\* active and the dispatcher's lock is free.
NoMissedSignal ==
  \A o \in onObject : ~attr[o].edge /\ dlock[ObjOf(o)] = None =>
    attr[o].trigger \cap signals[ObjOf(o)] = {}

\* Once zx_port_cancel or zx_port_cancel_key has returned, no packet of a
\* wait that was registered when it was called is on the port, or gets
\* there later.
CanceledStaysCanceled == voided \cap queued = {}

\* The size counter of observers_ is the number of observers on it; the
\* limit on observers is checked against it.
SizeTracksList == size = Cardinality(onPort) % SizeModulus

\* Every call returns: no cycle of threads waits for a dispatcher's lock,
\* and the loops over the lists end.
CallsReturn == \A t \in Threads : []<>(pc[t] = "idle")

\* Observers are safe: each has one owner, none is reached after it is
\* destroyed, and none outlives its object while linked to it.
ObserverConsistent ==
  TypeOK /\ OneOwner /\ NoDanglingObserver /\ DispatcherOutlivesObserver

\* Observers hear: a registered wait can still fire, and has fired if its
\* signal is active.
ObserverHears == NoDeafObserver /\ NoMissedSignal
=============================================================================
