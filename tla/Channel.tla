------------------------------ MODULE Channel ------------------------------
(***************************************************************************)
(* One channel (object/channel_dispatcher.cc): two endpoints that share a  *)
(* lock, the messages queued on each, zx_channel_call with its waiters,    *)
(* timeouts, interruption and resumption, threads waiting for READABLE or  *)
(* PEER_CLOSED, the closing of endpoints and their transfer to another     *)
(* process.                                                                *)
(*                                                                         *)
(* A system call first looks its endpoint up in the handle table and acts  *)
(* on it later: in between the handle may be closed or moved.              *)
(* channel_lock_ is only held for one step; the endpoints' shared lock is  *)
(* explicit where Read can run beside its holder.                          *)
(***************************************************************************)
EXTENDS Integers, Sequences, FiniteSets, FiniteSetsExt

CONSTANTS Threads, Procs,
          None,          \* no thread, endpoint or message
          ProcOf,        \* the process of each thread
          FirstHolder,   \* the process that starts with each endpoint
          TxidModulus,   \* kernel-generated txids: 2^31 values
          MaxCalls,      \* bound: calls begun
          MaxWrites,     \* bound: writes begun
          MaxMoves       \* bound: transfers of an endpoint

Endpoints == {"A", "B"}
Peer(e) == IF e = "A" THEN "B" ELSE "A"

ASSUME NoneAssumption == None \notin Threads \cup Procs \cup Endpoints
ASSUME ProcsAssumption ==
  /\ ProcOf \in [Threads -> Procs]
  /\ FirstHolder \in [Endpoints -> Procs]
ASSUME TxidAssumption ==
  TxidModulus \in Nat /\ TxidModulus >= Cardinality(Threads)
ASSUME BoundsAssumption == MaxCalls \in Nat /\ MaxWrites \in Nat /\ MaxMoves \in Nat

VARIABLES
  holder,      \* the process whose table holds the handle, or "transit",
               \* "receiving", "closed"
  owners,      \* owner_, the last of the processes that have been the owner
  peered,      \* peer_ is not null
  peerClosed,  \* peer_has_closed_
  signals,     \* signals_
  msgs,        \* messages_
  waiters,     \* waiters_, the threads
  txid,        \* txid_, before it is reduced modulo TxidModulus
  observers,   \* threads waiting for READABLE or PEER_CLOSED
  lock,        \* holder of the shared lock across steps
  pc, ep,      \* each thread's place and the endpoint at hand
  req,         \* what a thread is about to write
  w,           \* each thread's MessageWaiter
  seen,        \* the replies to requests read from each endpoint
  killed,      \* processes killed for misuse of zx_channel_call
  calls, writes

endVars == <<holder, owners, peered, peerClosed>>
bounds == <<calls, writes>>
vars == <<endVars, signals, msgs, waiters, txid, observers, lock, pc, ep, req,
          w, seen, killed, bounds>>

\* A message: the txid_ it was given, 0 when userspace chose its txid; whether
\* it is the request of a call, the reply to one, or neither; its writer's
\* process, and how many owners the endpoint had had when it was looked up.
Messages == [txid : Nat, kind : {"plain", "request", "reply"},
             by : Procs \cup {None}, age : 0..(MaxMoves + 1)]

Statuses == {"TIMED_OUT", "OK", "CANCELED", "PEER_CLOSED", "BAD_STATE"}

\* MessageWaiter: channel_, txid_, status_, the txid_ of msg_, and event_.
Waiter == [chan : Endpoints \cup {None}, txid : Nat, status : Statuses,
           msg : {None} \cup Nat, event : BOOLEAN]

Pcs == {"idle", "write", "read", "call", "observing", "notify",
        "call_notify", "call_wait", "call_end", "interrupted", "receive",
        "close", "dead"}

\* Type correctness, and: the shared lock is held across steps by the one
\* thread that is notifying the observers of READABLE.
TypeOK ==
  /\ holder \in [Endpoints -> Procs \cup {"transit", "receiving", "closed"}]
  /\ owners \in [Endpoints -> Seq(Procs)]
  /\ peered \in [Endpoints -> BOOLEAN]
  /\ peerClosed \in [Endpoints -> BOOLEAN]
  /\ signals \in [Endpoints -> SUBSET {"READABLE", "WRITABLE", "PEER_CLOSED"}]
  /\ msgs \in [Endpoints -> Seq(Messages)]
  /\ waiters \in [Endpoints -> SUBSET Threads]
  /\ txid \in [Endpoints -> Nat]
  /\ observers \in [Endpoints -> SUBSET Threads]
  /\ lock \in Threads \cup {None}
  /\ pc \in [Threads -> Pcs]
  /\ ep \in [Threads -> Endpoints \cup {None}]
  /\ req \in [Threads -> Messages]
  /\ w \in [Threads -> Waiter]
  /\ seen \in [Endpoints -> SUBSET Messages]
  /\ killed \in SUBSET Procs
  /\ calls \in 0..MaxCalls
  /\ writes \in 0..MaxWrites
  /\ \A t \in Threads : lock = t <=> pc[t] \in {"notify", "call_notify"}

NoReq == [txid |-> 0, kind |-> "plain", by |-> None, age |-> 0]

Init ==
  /\ holder = FirstHolder
  /\ owners = [e \in Endpoints |-> <<FirstHolder[e]>>]
  /\ peered = [e \in Endpoints |-> TRUE]
  /\ peerClosed = [e \in Endpoints |-> FALSE]
  /\ signals = [e \in Endpoints |-> {"WRITABLE"}]
  /\ msgs = [e \in Endpoints |-> <<>>]
  /\ waiters = [e \in Endpoints |-> {}]
  /\ txid = [e \in Endpoints |-> 0]
  /\ observers = [e \in Endpoints |-> {}]
  /\ lock = None
  /\ pc = [t \in Threads |-> "idle"]
  /\ ep = [t \in Threads |-> None]
  /\ req = [t \in Threads |-> NoReq]
  /\ w = [t \in Threads |-> [chan |-> None, txid |-> 0, status |-> "BAD_STATE",
                             msg |-> None, event |-> FALSE]]
  /\ seen = [e \in Endpoints |-> {}]
  /\ killed = {}
  /\ calls = 0
  /\ writes = 0

-----------------------------------------------------------------------------
(* Helpers *)

Goto(t, place) == pc' = [pc EXCEPT ![t] = place]

\* A system call returns.
Done(t) == Goto(t, "idle") /\ ep' = [ep EXCEPT ![t] = None]

\* Mutant: whoever had the endpoint when it was looked up goes on.
OwnsUnchecked(t, e) == e \in Endpoints /\ t \in Threads

\* The test at the head of Read, Write and Call.
Owns(t, e) == owners[e][Len(owners[e])] = ProcOf[t]

\* A thread of a live process whose handle table holds the endpoint.
Holds(t, e) == holder[e] = ProcOf[t] /\ ProcOf[t] \notin killed

\* CancelMessageWaitersLocked: every waiter of e is removed and signaled.
CancelMessageWaiters(e, status) ==
  /\ waiters' = [waiters EXCEPT ![e] = {}]
  /\ w' = [t \in Threads |->
             IF t \in waiters[e]
               THEN [w[t] EXCEPT !.status = status, !.event = TRUE]
               ELSE w[t]]

\* Read clears READABLE with the last message, under channel_lock_.
ReadClears(e) ==
  IF Len(msgs[e]) = 1 THEN [signals EXCEPT ![e] = @ \ {"READABLE"}] ELSE signals

\* WriteSelf on e up to the release of channel_lock_: push the message and
\* raise READABLE.  The thread goes on to notify, with the shared lock held,
\* if READABLE was not active, and is done with the lock otherwise.
WriteSelf(t, e, m, notifying, done) ==
  /\ msgs' = [msgs EXCEPT ![e] = Append(@, m)]
  /\ signals' = [signals EXCEPT ![e] = @ \cup {"READABLE"}]
  /\ IF "READABLE" \in signals[e]
       THEN /\ Goto(t, done)
            /\ ep' = [ep EXCEPT ![t] = None]
            /\ UNCHANGED lock
       ELSE /\ Goto(t, notifying)
            /\ lock' = t
            /\ UNCHANGED ep

-----------------------------------------------------------------------------
(* Read, Write *)

\* A system call looks its endpoint up and gets a reference to it.
LookUp(t, e, op) ==
  /\ pc[t] = "idle"
  /\ Holds(t, e)
  /\ Goto(t, op)
  /\ ep' = [ep EXCEPT ![t] = e]
  /\ req' = [req EXCEPT ![t].by = ProcOf[t], ![t].age = Len(owners[e])]

BeginRead(t, e) ==
  /\ LookUp(t, e, "read")
  /\ UNCHANGED <<endVars, signals, msgs, waiters, txid, observers, lock, w,
                 seen, killed, bounds>>

\* ChannelDispatcher::Read.  A message too large for the caller is left, or
\* dropped if the caller may discard it.
Read(t, taken, received) ==
  LET e == ep[t]
  IN /\ pc[t] = "read"
     /\ Done(t)
     /\ req' = [req EXCEPT ![t] = NoReq]
     /\ IF Owns(t, e) /\ msgs[e] # <<>> /\ taken
          THEN /\ msgs' = [msgs EXCEPT ![e] = Tail(@)]
               /\ signals' = ReadClears(e)
               /\ seen' = IF received /\ Head(msgs[e]).kind = "request"
                            THEN [seen EXCEPT ![e] = @ \cup
                                    {[Head(msgs[e]) EXCEPT !.kind = "reply",
                                        !.by = None, !.age = 0]}]
                            ELSE seen
          ELSE UNCHANGED <<msgs, signals, seen>>
     /\ UNCHANGED <<endVars, waiters, txid, observers, lock, w, killed, bounds>>

\* A write of a message of its own, or of an answer to a request that was
\* read from the endpoint.
BeginWrite(t, e, m) ==
  /\ writes < MaxWrites
  /\ writes' = writes + 1
  /\ pc[t] = "idle"
  /\ Holds(t, e)
  /\ Goto(t, "write")
  /\ ep' = [ep EXCEPT ![t] = e]
  /\ req' = [req EXCEPT ![t] = [m EXCEPT !.by = ProcOf[t],
                                         !.age = Len(owners[e])]]
  /\ UNCHANGED <<endVars, signals, msgs, waiters, txid, observers, lock, w,
                 seen, killed, calls>>

\* Two values of txid_ make the same kernel-generated txid.
SameTxid(m, n) == m % TxidModulus = n % TxidModulus

\* TryWriteToMessageWaiter: the waiters of e that m answers.
Answered(e, m) ==
  {t \in waiters[e] : m.txid # 0 /\ SameTxid(w[t].txid, m.txid)}

\* ChannelDispatcher::Write and, for a waiting call, MessageWaiter::Deliver.
Write(t) ==
  LET e == ep[t]
      to == Peer(e)
      m == req[t]
  IN /\ pc[t] = "write"
     /\ lock = None
     /\ req' = [req EXCEPT ![t] = NoReq]
     /\ \/ /\ ~Owns(t, e) \/ ~peered[e]
           /\ Done(t)
           /\ UNCHANGED <<msgs, signals, lock, waiters, w>>
        \/ /\ Owns(t, e) /\ peered[e]
           /\ \E u \in Answered(to, m) :
                /\ waiters' = [waiters EXCEPT ![to] = @ \ {u}]
                /\ w' = [w EXCEPT ![u].msg = m.txid, ![u].status = "OK",
                                  ![u].event = TRUE]
           /\ Done(t)
           /\ UNCHANGED <<msgs, signals, lock>>
        \/ /\ Owns(t, e) /\ peered[e]
           /\ Answered(to, m) = {}
           /\ WriteSelf(t, to, m, "notify", "idle")
           /\ UNCHANGED <<waiters, w>>
     /\ UNCHANGED <<endVars, txid, observers, seen, killed, bounds>>

\* NotifyObserversLocked at the end of WriteSelf, after which the shared
\* lock is released.  Reads may have taken the message by now.
Notify(t) ==
  LET e == Peer(ep[t])
  IN /\ lock = t
     /\ lock' = None
     /\ observers' = [observers EXCEPT ![e] = {}]
     /\ pc' = [u \in Threads |->
                 IF u \in observers[e] \/ pc[u] = "notify" THEN "idle"
                 ELSE IF u = t THEN "call_wait"
                 ELSE pc[u]]
     /\ ep' = [ep EXCEPT ![t] = None]
     /\ UNCHANGED <<endVars, signals, msgs, waiters, txid, req, w, seen,
                    killed, bounds>>

-----------------------------------------------------------------------------
(* zx_channel_call *)

\* GenerateTxid, again until no waiter of the endpoint has that txid.
GenerateTxid(e) ==
  txid[e] + Min({n \in 1..(Cardinality(waiters[e]) + 1) :
                   \A t \in waiters[e] : ~SameTxid(w[t].txid, txid[e] + n)})

\* channel_call_noretry looks the endpoint up, then MessageWaiter::BeginWait:
\* a thread whose last call has not ended has its process killed.
BeginCall(t, e) ==
  /\ calls < MaxCalls
  /\ calls' = calls + 1
  /\ IF w[t].chan # None
       THEN /\ pc[t] = "idle"
            /\ Holds(t, e)
            /\ killed' = killed \cup {ProcOf[t]}
            /\ UNCHANGED <<pc, ep, req, w>>
       ELSE /\ LookUp(t, e, "call")
            /\ w' = [w EXCEPT ![t] = [@ EXCEPT !.status = "TIMED_OUT",
                        !.chan = e, !.event = FALSE]]
            /\ UNCHANGED killed
  /\ UNCHANGED <<endVars, signals, msgs, waiters, txid, observers, lock, seen,
                 writes>>

\* The endpoint was moved to another process: the waiter keeps channel_.
CallBadHandle(t) ==
  /\ pc[t] = "call"
  /\ lock = None
  /\ ~Owns(t, ep[t])
  /\ Done(t)
  /\ req' = [req EXCEPT ![t] = NoReq]
  /\ UNCHANGED <<endVars, signals, msgs, waiters, txid, observers, lock, w,
                 seen, killed, bounds>>

\* EndWait: the reply, if any, is handed to the caller.
EndWait(t) ==
  w' = [w EXCEPT ![t] = [@ EXCEPT !.chan = None, !.msg = None]]

CallPeerClosed(t) ==
  /\ pc[t] = "call"
  /\ lock = None
  /\ Owns(t, ep[t])
  /\ ~peered[ep[t]]
  /\ EndWait(t)
  /\ Done(t)
  /\ req' = [req EXCEPT ![t] = NoReq]
  /\ UNCHANGED <<endVars, signals, msgs, waiters, txid, observers, lock, seen,
                 killed, bounds>>

\* The rest of ChannelDispatcher::Call: a txid, the waiter on the list, and
\* the request written to the opposing endpoint.
Call(t) ==
  LET e == ep[t]
      x == GenerateTxid(e)
      m == [req[t] EXCEPT !.txid = x, !.kind = "request"]
  IN /\ pc[t] = "call"
     /\ lock = None
     /\ Owns(t, e)
     /\ peered[e]
     /\ txid' = [txid EXCEPT ![e] = x]
     /\ w' = [w EXCEPT ![t].txid = x]
     /\ waiters' = [waiters EXCEPT ![e] = @ \cup {t}]
     /\ WriteSelf(t, Peer(e), m, "call_notify", "call_wait")
     /\ req' = [req EXCEPT ![t] = NoReq]
     /\ UNCHANGED <<endVars, observers, seen, killed, bounds>>

\* ResumeInterruptedCall's wait ends: by the event, at the deadline, or
\* because the process is killed.
CallWakes(t) ==
  /\ pc[t] = "call_wait"
  /\ w[t].event
  /\ Goto(t, "call_end")
  /\ UNCHANGED <<endVars, signals, msgs, waiters, txid, observers, lock, ep,
                 req, w, seen, killed, bounds>>

CallTimesOut(t) ==
  /\ pc[t] = "call_wait"
  /\ ~w[t].event
  /\ Goto(t, "call_end")
  /\ UNCHANGED <<endVars, signals, msgs, waiters, txid, observers, lock, ep,
                 req, w, seen, killed, bounds>>

\* The thread is suspended: the call returns to the VDSO with its waiter
\* still listed, and the VDSO resumes it with zx_channel_call_finish.
CallInterrupted(t) ==
  /\ pc[t] = "call_wait"
  /\ ~w[t].event
  /\ Goto(t, "interrupted")
  /\ UNCHANGED <<endVars, signals, msgs, waiters, txid, observers, lock, ep,
                 req, w, seen, killed, bounds>>

CallResumed(t) ==
  /\ pc[t] = "interrupted"
  /\ ProcOf[t] \notin killed
  /\ Goto(t, "call_wait")
  /\ UNCHANGED <<endVars, signals, msgs, waiters, txid, observers, lock, ep,
                 req, w, seen, killed, bounds>>

\* The end of ResumeInterruptedCall: a waiter nobody answered or canceled is
\* still on the list and is removed.
CallEnds(t) ==
  LET e == w[t].chan
  IN /\ pc[t] = "call_end"
     /\ lock = None
     /\ EndWait(t)
     /\ waiters' = IF w[t].status = "TIMED_OUT"
                     THEN [waiters EXCEPT ![e] = @ \ {t}] ELSE waiters
     /\ Goto(t, "idle")
     /\ UNCHANGED <<endVars, signals, msgs, txid, observers, lock, ep, req,
                    seen, killed, bounds>>

-----------------------------------------------------------------------------
(* Waiting for READABLE or PEER_CLOSED *)

\* zx_object_wait_one, under the handle table's lock: Dispatcher::AddObserver
\* finds one of the signals active, and the call returns, or lists the
\* thread.
Observe(t, e) ==
  /\ pc[t] = "idle"
  /\ Holds(t, e)
  /\ lock = None
  /\ signals[e] \cap {"READABLE", "PEER_CLOSED"} = {}
  /\ observers' = [observers EXCEPT ![e] = @ \cup {t}]
  /\ Goto(t, "observing")
  /\ UNCHANGED <<endVars, signals, msgs, waiters, txid, lock, ep, req, w, seen,
                 killed, bounds>>

\* The wait's deadline passes, or the thread is killed.
ObserveEnds(t) ==
  /\ pc[t] = "observing"
  /\ lock = None
  /\ observers' = [e \in Endpoints |-> observers[e] \ {t}]
  /\ Goto(t, "idle")
  /\ UNCHANGED <<endVars, signals, msgs, waiters, txid, lock, ep, req, w, seen,
                 killed, bounds>>

-----------------------------------------------------------------------------
(* Closing and moving endpoints *)

\* Observers are called back or canceled: their threads return.
Released(s) == [t \in Threads |-> IF t \in s THEN "idle" ELSE pc[t]]

\* Mutant: the calls waiting on the opposing endpoint are not canceled.
OnZeroHandlesLocalOnly(e) ==
  LET o == Peer(e)
  IN /\ peered' = [x \in Endpoints |-> FALSE]
     /\ peerClosed' = [peerClosed EXCEPT ![o] = @ \/ peered[e]]
     /\ signals' = IF peered[e]
                     THEN [signals EXCEPT ![o] = (@ \ {"WRITABLE"})
                                                   \cup {"PEER_CLOSED"}]
                     ELSE signals
     /\ observers' = [x \in Endpoints |-> {}]
     /\ CancelMessageWaiters(e, "CANCELED")

\* Dispatcher::Cancel for the handle, then PeeredDispatcher::on_zero_handles
\* with OnPeerZeroHandlesLocked of the opposing endpoint.
OnZeroHandles(e) ==
  LET o == Peer(e)
  IN /\ peered' = [x \in Endpoints |-> FALSE]
     /\ peerClosed' = [peerClosed EXCEPT ![o] = @ \/ peered[e]]
     /\ signals' = IF peered[e]
                     THEN [signals EXCEPT ![o] = (@ \ {"WRITABLE"})
                                                   \cup {"PEER_CLOSED"}]
                     ELSE signals
     /\ observers' = [x \in Endpoints |->
                        IF x = e \/ peered[e] THEN {} ELSE observers[x]]
     /\ waiters' = [x \in Endpoints |->
                      IF x = e \/ peered[e] THEN {} ELSE waiters[x]]
     /\ w' = [t \in Threads |->
                IF t \in waiters[e]
                  THEN [w[t] EXCEPT !.status = "CANCELED", !.event = TRUE]
                ELSE IF t \in waiters[o] /\ peered[e]
                  THEN [w[t] EXCEPT !.status = "PEER_CLOSED", !.event = TRUE]
                ELSE w[t]]

\* The handle leaves the table.
CloseHandle(t, e) ==
  /\ pc[t] = "idle"
  /\ Holds(t, e)
  /\ holder' = [holder EXCEPT ![e] = "closed"]
  /\ Goto(t, "close")
  /\ ep' = [ep EXCEPT ![t] = e]
  /\ UNCHANGED <<owners, peered, peerClosed, signals, msgs, waiters, txid,
                 observers, lock, req, w, seen, killed, bounds>>

CloseEndpoint(t) ==
  /\ pc[t] = "close"
  /\ lock = None
  /\ OnZeroHandles(ep[t])
  /\ pc' = [Released(UNION {observers[x] \ observers'[x] : x \in Endpoints})
              EXCEPT ![t] = "idle"]
  /\ ep' = [ep EXCEPT ![t] = None]
  /\ UNCHANGED <<holder, owners, msgs, txid, lock, req, seen, killed, bounds>>

\* The handle is written into some other channel; owner_ is left as it is.
MoveHandle(t, e) ==
  /\ pc[t] = "idle"
  /\ Holds(t, e)
  /\ Len(owners[e]) <= MaxMoves
  /\ holder' = [holder EXCEPT ![e] = "transit"]
  /\ UNCHANGED <<owners, peered, peerClosed, signals, msgs, waiters, txid,
                 observers, lock, pc, ep, req, w, seen, killed, bounds>>

\* msg_get_handles: the receiver cancels the waits and the calls made
\* through the handle ...
ReceiveHandle(t, e) ==
  /\ pc[t] = "idle"
  /\ ProcOf[t] \notin killed
  /\ holder[e] = "transit"
  /\ lock = None
  /\ holder' = [holder EXCEPT ![e] = "receiving"]
  /\ CancelMessageWaiters(e, "CANCELED")
  /\ observers' = [observers EXCEPT ![e] = {}]
  /\ pc' = [Released(observers[e]) EXCEPT ![t] = "receive"]
  /\ ep' = [ep EXCEPT ![t] = e]
  /\ UNCHANGED <<owners, peered, peerClosed, signals, msgs, txid, lock, req,
                 seen, killed, bounds>>

\* ... and then AddHandle sets the owner.
SetOwner(t) ==
  /\ pc[t] = "receive"
  /\ lock = None
  /\ owners' = [owners EXCEPT ![ep[t]] = Append(@, ProcOf[t])]
  /\ holder' = [holder EXCEPT ![ep[t]] = ProcOf[t]]
  /\ Done(t)
  /\ UNCHANGED <<peered, peerClosed, signals, msgs, waiters, txid, observers,
                 lock, req, w, seen, killed, bounds>>

\* The handle is closed without a thread of its process: the message that
\* carries it is destroyed, or the last thread of a killed process exited.
DropHandle(e) ==
  /\ lock = None
  /\ \/ holder[e] = "transit"
     \/ /\ holder[e] \in killed
        /\ \A t \in Threads : ProcOf[t] = holder[e] => pc[t] = "dead"
  /\ holder' = [holder EXCEPT ![e] = "closed"]
  /\ OnZeroHandles(e)
  /\ pc' = Released(UNION {observers[x] \ observers'[x] : x \in Endpoints})
  /\ UNCHANGED <<owners, msgs, txid, lock, ep, req, seen, killed, bounds>>

\* A thread of a killed process exits; ~MessageWaiter takes its waiter off
\* the list.
ThreadExits(t) ==
  /\ pc[t] \in {"idle", "interrupted"}
  /\ ProcOf[t] \in killed
  /\ w[t].chan # None => lock = None
  /\ waiters' = [e \in Endpoints |-> IF w[t].chan = e THEN waiters[e] \ {t}
                                     ELSE waiters[e]]
  /\ Goto(t, "dead")
  /\ UNCHANGED <<endVars, signals, msgs, txid, observers, lock, ep, req, w,
                 seen, killed, bounds>>

-----------------------------------------------------------------------------

CallSteps(t) ==
  \/ CallBadHandle(t)
  \/ CallPeerClosed(t)
  \/ Call(t)
  \/ CallWakes(t)
  \/ CallTimesOut(t)
  \/ CallInterrupted(t)
  \/ CallResumed(t)
  \/ CallEnds(t)

EndpointSteps(t, e) ==
  \/ BeginRead(t, e)
  \/ \E m \in seen[e] \cup {NoReq} : BeginWrite(t, e, m)
  \/ BeginCall(t, e)
  \/ Observe(t, e)
  \/ CloseHandle(t, e)
  \/ MoveHandle(t, e)
  \/ ReceiveHandle(t, e)

Next ==
  \/ \E t \in Threads :
       \/ \E e \in Endpoints : EndpointSteps(t, e)
       \/ \E taken \in BOOLEAN, received \in BOOLEAN : Read(t, taken, received)
       \/ Write(t)
       \/ Notify(t)
       \/ CallSteps(t)
       \/ ObserveEnds(t)
       \/ CloseEndpoint(t)
       \/ SetOwner(t)
       \/ ThreadExits(t)
  \/ \E e \in Endpoints : DropHandle(e)

Spec == Init /\ [][Next]_vars

\* A thread inside a system call keeps running, one that waits for the
\* shared lock is handed it, and the VDSO resumes an interrupted call.
Fairness ==
  \A t \in Threads :
    /\ WF_vars(Notify(t))
    /\ WF_vars(CallWakes(t))
    /\ WF_vars(CallResumed(t))
    /\ WF_vars(ThreadExits(t))
    /\ SF_vars(CallBadHandle(t) \/ CallPeerClosed(t) \/ Call(t))
    /\ SF_vars(CallEnds(t))
FairSpec == Spec /\ Fairness

-----------------------------------------------------------------------------
(* Properties *)

\* READABLE is active exactly while messages are queued, although Read
\* clears it without the shared lock (the unit test
\* NoSpuriousReadableSignalWhenRacing is about one such race).
ReadableIffQueued ==
  \A e \in Endpoints : "READABLE" \in signals[e] <=> msgs[e] # <<>>

\* No thread is left waiting for READABLE or PEER_CLOSED while one of them
\* is active, although WriteSelf raises the signal before it notifies and
\* skips the notification when READABLE was active already.
NoMissedWakeup ==
  lock = None => \A e \in Endpoints : observers[e] # {} =>
                   signals[e] \cap {"READABLE", "PEER_CLOSED"} = {}

\* A call that gets a reply gets the one to its own request, whatever calls
\* timed out, were canceled or were interrupted before; or else the one to a
\* request that was given its txid before they all were used ("the reply could
\* match another request", vdso/channel.fidl).
ReplyAnswersCall ==
  \A t \in Threads : w[t].msg # None =>
    /\ w[t].status = "OK"
    /\ w[t].msg = w[t].txid \/ w[t].txid - w[t].msg >= TxidModulus

\* The places between the request's push and the end of the call.
InCall(t) == pc[t] \in {"call_notify", "call_wait", "call_end", "interrupted"}

\* Comment (4) of ResumeInterruptedCall: a waiter is off the list exactly if
\* it was answered or canceled, and then its event is signaled and its
\* status is not TIMED_OUT; only calls under way are listed.
WaiterListedUntilSettled ==
  /\ \A t \in Threads : InCall(t) =>
       /\ t \in waiters[w[t].chan] <=> w[t].status = "TIMED_OUT"
       /\ w[t].event <=> w[t].status # "TIMED_OUT"
       /\ w[t].msg # None <=> w[t].status = "OK"
  /\ \A e \in Endpoints : \A t \in waiters[e] : InCall(t) /\ w[t].chan = e

\* No call waits on a channel that has lost an endpoint: nothing would end
\* it but its deadline.
NoOrphanCall == \A e \in Endpoints : waiters[e] # {} => peered[e]

\* The calls waiting on an endpoint have different txids, also after the
\* counter has wrapped.
UniqueTxids ==
  \A e \in Endpoints : \A t, u \in waiters[e] :
    SameTxid(w[t].txid, w[u].txid) => t = u

\* What a previous owner of an endpoint wrote is never queued behind what a
\* later owner wrote ("without it, one can see writes out of order",
\* channel_dispatcher.h), unless the endpoint has come back to it since.
OwnersInOrder ==
  \A e \in Endpoints : \A i, j \in 1..Len(msgs[e]) :
    LET before == msgs[e][i]
        after == msgs[e][j]
        had == owners[Peer(e)]
    IN  i < j /\ before.by # after.by /\ after.age < before.age =>
          \E k \in (before.age + 1)..Len(had) : had[k] = after.by

\* A call on a channel that lost an endpoint returns.
CallsEndOnClose ==
  \A t \in Threads :
    (InCall(t) /\ \A e \in Endpoints : ~peered[e]) ~> ~InCall(t)

\* "If a thread tries BeginWait'ing twice, the VDSO contract around retrying
\* channel calls has been violated": a process that keeps to it is not
\* killed.
NoMisusedCall == killed = {}

\* "If this handle refers to a channel, cancel any channel_call waits": a
\* process that received an endpoint holds it without calls of another one
\* waiting on it.
MovedCallsCanceled ==
  \A e \in Endpoints : \A t \in waiters[e] :
    holder[e] \in Procs => ProcOf[t] = holder[e]

\* Messages: READABLE tells the truth, whoever waits for it is woken, and a
\* former owner's writes do not follow the next owner's.
ChannelMessages ==
  TypeOK /\ ReadableIffQueued /\ NoMissedWakeup /\ OwnersInOrder

\* Calls: each gets its own reply, or one error; none waits on a channel that
\* has lost an endpoint or shares its txid with another.
ChannelCalls ==
  /\ ReplyAnswersCall /\ WaiterListedUntilSettled
  /\ NoOrphanCall /\ UniqueTxids
=============================================================================
