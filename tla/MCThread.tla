------------------------------ MODULE MCThread ------------------------------
(* Instances of Channel, UserThread and Suspend for TLC.  They do not        *)
(* interact, so each behaviour is one of `part`, the rest staying as it was  *)
(* initially.  The callers of the channel and the wakers of the suspension   *)
(* are the same values, for the symmetry.                                    *)
EXTENDS MCChannel, UserThread, Suspend

VARIABLE part

OneJob == <<"job">>

MCThreadInit ==
  /\ part \in {"channel", "thread", "suspend"}
  /\ Init /\ UserThreadInit /\ SuspendInit

MCThreadNext ==
  /\ \/ part = "channel" /\ Next /\ UNCHANGED <<utVars, suspVars>>
     \/ part = "thread" /\ UserThreadNext /\ UNCHANGED <<vars, suspVars>>
     \/ part = "suspend" /\ SuspendNext /\ UNCHANGED <<vars, utVars>>
  /\ UNCHANGED part

(* States are told apart but for values that nothing reads before they are   *)
(* overwritten.                                                              *)

\* A waiter's txid is looked at while it is listed or has its reply, and
\* BeginWait sets the status and the event of one whose last call has ended.
Waiting ==
  [t \in Threads |->
     IF w[t].chan = None THEN w[t].msg
     ELSE [w[t] EXCEPT !.txid =
             IF w[t].msg # None \/ \E e \in Endpoints : t \in waiters[e]
             THEN @ ELSE 0]]

\* In an exception that the thread is through with, nothing reads the
\* disposition, the second chance, the event or the answer: the close of the
\* handle frees the exception whatever they are.
Reported ==
  [x \in UtExcs |->
     IF utExc[x].report THEN utExc[x]
     ELSE [at |-> utExc[x].at, by |-> utExc[x].by, rights |-> utExc[x].rights]]

MCThreadView ==
  CASE part = "channel" ->
         <<part, endVars, signals, msgs, waiters, txid, observers, lock, pc, ep, req,
           Waiting, seen, killed, bounds>>
    [] part = "thread" ->
         <<part, utLife, utTokenVars, utCore, utSig, utPc, utPlaceVars, utStatus,
           utCur, utInVars, utHandlerVars, Reported>>
    [] part = "suspend" -> <<part, suspVars>>
=============================================================================
