----------------------------- MODULE DpcProofs -----------------------------
(***************************************************************************)
(* Theorems about Dpc, for every set of CPUs, DPCs and callers and every   *)
(* number of calls and unplugs.                                            *)
(***************************************************************************)
EXTENDS Dpc, TLAPS

\* What the unplugging thread's place says of its CPU: the worker is joined
\* before the CPU goes offline, and stays away until it is plugged in again.
DpcUnplugging ==
  /\ dpcUnplug[1] = "move" => dpcUnplug[2] \notin dpcOnline
  /\ dpcUnplug[1] \in {"offline", "move"} => dpcWorker[dpcUnplug[2]] = "none"

\* A worker that is awake still has its event signaled: only the worker
\* clears it, when it goes back to wait, or TransitionOffCpu, when it is gone.
DpcAwakeSignaled ==
  \A c \in DpcCpus : dpcWorker[c] \in {"check", "run"} => dpcSignaled[c]

DpcIInv ==
  /\ DpcTypeOK /\ DpcInvokedOnce /\ DpcNoneOffline /\ DpcWorkerWoken
  /\ DpcUnplugging /\ DpcAwakeSignaled
-----------------------------------------------------------------------------
(* Lists *)

\* What is on a list with an element appended.
LEMMA Appended ==
  ASSUME NEW S, NEW s \in Seq(S), NEW d \in S
  PROVE  /\ Append(s, d) \in Seq(S) /\ Len(Append(s, d)) = Len(s) + 1
         /\ \A i \in 1..Len(s) : Append(s, d)[i] = s[i]
         /\ Append(s, d)[Len(s) + 1] = d
         /\ Len(s) \in Nat
  OBVIOUS

\* What is on a list without its first element.
LEMMA Popped ==
  ASSUME NEW S, NEW s \in Seq(S), s # <<>>
  PROVE  /\ Tail(s) \in Seq(S) /\ Len(Tail(s)) = Len(s) - 1 /\ Len(s) \in Nat \ {0}
         /\ Head(s) = s[1] /\ s[1] \in S
         /\ \A i \in 1..(Len(s) - 1) : Tail(s)[i] = s[i + 1]
  OBVIOUS

\* What is on one list put behind another.
LEMMA Joined ==
  ASSUME NEW S, NEW s \in Seq(S), NEW r \in Seq(S)
  PROVE  /\ s \o r \in Seq(S) /\ Len(s \o r) = Len(s) + Len(r)
         /\ Len(s) \in Nat /\ Len(r) \in Nat
         /\ \A i \in 1..Len(s) : (s \o r)[i] = s[i]
         /\ \A i \in 1..Len(r) : (s \o r)[Len(s) + i] = r[i]
  OBVIOUS

\* Dpc x is at place i of the list of c.
DpcAt(c, i, x) == c \in DpcCpus /\ i \in 1..Len(dpcList[c]) /\ dpcList[c][i] = x

DpcOnce == \A c, e, i, j, x : DpcAt(c, i, x) /\ DpcAt(e, j, x) => c = e /\ i = j

\* The same in terms of places.
LEMMA InTermsOfPlaces ==
  /\ \A x : InContainer(x) <=> \E c, i : DpcAt(c, i, x)
  /\ \A x : InContainer(x)' <=> \E c, i : DpcAt(c, i, x)'
  /\ DpcInvokedOnce <=>
       /\ DpcOnce
       /\ \A x \in Dpcs : dpcAccepted[x] = dpcInvoked[x] + (IF InContainer(x) THEN 1 ELSE 0)
  /\ DpcInvokedOnce' <=>
       /\ DpcOnce'
       /\ \A x \in Dpcs :
            dpcAccepted'[x] = dpcInvoked'[x] + (IF InContainer(x)' THEN 1 ELSE 0)
<1>1. /\ \A x : InContainer(x) <=> \E c, i : DpcAt(c, i, x)
      /\ \A x : InContainer(x)' <=> \E c, i : DpcAt(c, i, x)'
  BY Zenon DEF InContainer, DpcAt
<1>2. DpcOnce <=>
        \A c, e \in DpcCpus : \A i \in 1..Len(dpcList[c]), j \in 1..Len(dpcList[e]) :
          dpcList[c][i] = dpcList[e][j] => c = e /\ i = j
  <2>1. ASSUME DpcOnce, NEW c \in DpcCpus, NEW e \in DpcCpus, NEW i \in 1..Len(dpcList[c]),
               NEW j \in 1..Len(dpcList[e]), dpcList[c][i] = dpcList[e][j]
        PROVE  c = e /\ i = j
    <3>1. DpcAt(c, i, dpcList[c][i]) /\ DpcAt(e, j, dpcList[c][i])
      BY <2>1, Zenon DEF DpcAt
    <3> QED
      BY <2>1, <3>1 DEF DpcOnce
  <2>2. ASSUME \A c, e \in DpcCpus : \A i \in 1..Len(dpcList[c]), j \in 1..Len(dpcList[e]) :
                 dpcList[c][i] = dpcList[e][j] => c = e /\ i = j,
               NEW c, NEW e, NEW i, NEW j, NEW x, DpcAt(c, i, x), DpcAt(e, j, x)
        PROVE  c = e /\ i = j
    BY <2>2, ZenonT(40) DEF DpcAt
  <2> QED
    BY <2>1, <2>2, ZenonT(40) DEF DpcOnce
<1>3. DpcOnce' <=>
        \A c, e \in DpcCpus : \A i \in 1..Len(dpcList'[c]), j \in 1..Len(dpcList'[e]) :
          dpcList'[c][i] = dpcList'[e][j] => c = e /\ i = j
  <2>1. ASSUME DpcOnce', NEW c \in DpcCpus, NEW e \in DpcCpus, NEW i \in 1..Len(dpcList'[c]),
               NEW j \in 1..Len(dpcList'[e]), dpcList'[c][i] = dpcList'[e][j]
        PROVE  c = e /\ i = j
    <3> PICK x : x = dpcList'[c][i]
      OBVIOUS
    <3>1. DpcAt(c, i, x)' /\ DpcAt(e, j, x)'
      BY <2>1, Zenon DEF DpcAt
    <3> QED
      BY <2>1, <3>1 DEF DpcOnce
  <2>2. ASSUME \A c, e \in DpcCpus : \A i \in 1..Len(dpcList'[c]), j \in 1..Len(dpcList'[e]) :
                 dpcList'[c][i] = dpcList'[e][j] => c = e /\ i = j,
               NEW c, NEW e, NEW i, NEW j, NEW x, DpcAt(c, i, x)', DpcAt(e, j, x)'
        PROVE  c = e /\ i = j
    BY <2>2, ZenonT(40) DEF DpcAt
  <2> QED
    BY <2>1, <2>2, ZenonT(40) DEF DpcOnce
<1>4. DpcInvokedOnce <=>
       /\ DpcOnce
       /\ \A x \in Dpcs : dpcAccepted[x] = dpcInvoked[x] + (IF InContainer(x) THEN 1 ELSE 0)
  BY <1>2, Zenon DEF DpcInvokedOnce
<1>5. DpcInvokedOnce' <=>
       /\ DpcOnce'
       /\ \A x \in Dpcs :
            dpcAccepted'[x] = dpcInvoked'[x] + (IF InContainer(x)' THEN 1 ELSE 0)
  BY <1>3, Zenon DEF DpcInvokedOnce
<1> QED
  BY <1>1, <1>4, <1>5
-----------------------------------------------------------------------------
(* The steps.  Lists change in three: a Dpc is queued, one is popped, and    *)
(* those of an unplugged CPU are moved.                                      *)

\* A step that leaves the lists and the counts alone.
LEMMA SameLists ==
  ASSUME DpcInvokedOnce, UNCHANGED <<dpcList, dpcCounts>>
  PROVE  DpcInvokedOnce'
  BY SMTT(30) DEF DpcInvokedOnce, InContainer, dpcCounts

\* Dpc::Queue up to the end of the lock.
LEMMA EnqueueKeeps ==
  ASSUME DpcIInv, NEW t \in DpcCallers, NEW d \in Dpcs, NEW c \in DpcCpus,
         DpcEnqueue(t, d, c)
  PROVE  DpcIInv'
<1>0. /\ DpcTypeOK /\ DpcInvokedOnce /\ DpcNoneOffline /\ DpcWorkerWoken
      /\ DpcUnplugging /\ DpcAwakeSignaled
  BY SMTT(30) DEF DpcIInv
<1>1. /\ dpcList[c] \in Seq(Dpcs)
      /\ dpcList' = [dpcList EXCEPT ![c] = Append(dpcList[c], d)]
      /\ \A e \in DpcCpus : e # c => dpcList'[e] = dpcList[e]
      /\ dpcList'[c] = Append(dpcList[c], d)
  BY <1>0 DEF DpcTypeOK, DpcEnqueue
<1>2. /\ dpcList'[c] \in Seq(Dpcs) /\ Len(dpcList'[c]) = Len(dpcList[c]) + 1
      /\ \A i \in 1..Len(dpcList[c]) : dpcList'[c][i] = dpcList[c][i]
      /\ dpcList'[c][Len(dpcList[c]) + 1] = d
      /\ Len(dpcList[c]) \in Nat
  BY <1>1, Appended
<1>3. DpcTypeOK'
  <2>1. dpcList' \in [DpcCpus -> Seq(Dpcs)]
    BY <1>0, <1>1, <1>2 DEF DpcTypeOK
  <2>2. dpcAccepted' \in [Dpcs -> 0..MaxDpcQueues]
    BY <1>0, DpcAssumption, SMTT(30) DEF DpcTypeOK, DpcEnqueue
  <2> QED
    BY <1>0, <2>1, <2>2, ZenonT(40) DEF DpcTypeOK, DpcEnqueue, dpcHotplug
<1>4. DpcInvokedOnce'
  <2> PICK n : n = Len(dpcList[c]) + 1
    OBVIOUS
  <2>1. ~InContainer(d)
    BY DEF DpcEnqueue
  <2>2. /\ \A e, i, x : DpcAt(e, i, x) => DpcAt(e, i, x)'
        /\ \A e, i, x : DpcAt(e, i, x)' =>
             DpcAt(e, i, x) \/ (e = c /\ i = n /\ x = d)
        /\ DpcAt(c, n, d)'
    <3>1. ASSUME NEW e, NEW i, NEW x, DpcAt(e, i, x)
          PROVE  DpcAt(e, i, x)'
      BY <1>1, <1>2, <3>1, SMTT(30) DEF DpcAt
    <3>2. ASSUME NEW e, NEW i, NEW x, DpcAt(e, i, x)'
          PROVE  DpcAt(e, i, x) \/ (e = c /\ i = n /\ x = d)
      BY <1>1, <1>2, <3>2, SMTT(30) DEF DpcAt
    <3>3. DpcAt(c, n, d)'
      BY <1>2, SMTT(30) DEF DpcAt
    <3> QED
      BY <3>1, <3>2, <3>3, Zenon
  <2>3. DpcOnce'
    BY <1>0, <2>1, <2>2, InTermsOfPlaces DEF DpcOnce
  <2>4. InContainer(d)' /\ \A x \in Dpcs : x # d => (InContainer(x)' <=> InContainer(x))
    BY <2>2, InTermsOfPlaces
  <2>5. dpcAccepted' = [dpcAccepted EXCEPT ![d] = @ + 1] /\ dpcInvoked' = dpcInvoked
    BY DEF DpcEnqueue
  <2>6. \A x \in Dpcs : dpcAccepted[x] = dpcInvoked[x] + (IF InContainer(x) THEN 1 ELSE 0)
    BY <1>0, InTermsOfPlaces, ZenonT(40)
  <2>7. \A x \in Dpcs :
          dpcAccepted'[x] = dpcInvoked'[x] + (IF InContainer(x)' THEN 1 ELSE 0)
    BY <1>0, <2>1, <2>4, <2>5, <2>6, SMTT(30) DEF DpcTypeOK
  <2> QED
    BY <2>3, <2>7, InTermsOfPlaces, Zenon
<1>5. DpcNoneOffline'
  BY <1>0, <1>1 DEF DpcNoneOffline, DpcEnqueue, dpcHotplug
<1>6. DpcWorkerWoken'
  <2>1. dpcCaller[t] = "none" /\ dpcCaller'[t] = c
        /\ \A r \in DpcCallers : r # t => dpcCaller'[r] = dpcCaller[r]
    BY <1>0 DEF DpcTypeOK, DpcEnqueue
  <2>2. \A e \in DpcCpus : (\E r \in DpcCallers : dpcCaller[r] = e)
                            => \E r \in DpcCallers : dpcCaller'[r] = e
    BY <2>1, DpcAssumption, Zenon
  <2>3. UNCHANGED <<dpcSignaled, dpcWorker, dpcMoved>>
    BY DEF DpcEnqueue
  <2>4. ASSUME NEW e \in DpcCpus \ dpcMoved, dpcList'[e] # <<>>, dpcWorker[e] = "wait"
        PROVE  dpcSignaled[e] \/ \E r \in DpcCallers : dpcCaller'[r] = e
    <3>1. CASE e = c
      BY <2>1, <3>1
    <3>2. CASE e # c
      BY <1>0, <1>1, <2>2, <2>4, <3>2, ZenonT(40) DEF DpcWorkerWoken
    <3> QED
      BY <3>1, <3>2
  <2> QED
    BY <2>3, <2>4, Zenon DEF DpcWorkerWoken
<1>7. DpcUnplugging' /\ DpcAwakeSignaled'
  BY <1>0 DEF DpcUnplugging, DpcAwakeSignaled, DpcEnqueue, dpcHotplug
<1> QED
  BY <1>3, <1>4, <1>5, <1>6, <1>7 DEF DpcIInv

\* Dpc::Queue signals.
LEMMA SignalKeeps ==
  ASSUME DpcIInv, NEW t \in DpcCallers, DpcSignal(t)
  PROVE  DpcIInv'
<1>0. /\ DpcTypeOK /\ DpcInvokedOnce /\ DpcNoneOffline /\ DpcWorkerWoken
      /\ DpcUnplugging /\ DpcAwakeSignaled
  BY SMTT(30) DEF DpcIInv
<1>1. DpcTypeOK'
  BY <1>0, SMTT(30) DEF DpcTypeOK, DpcSignal, dpcHotplug, dpcCounts
<1>2. DpcInvokedOnce'
  BY <1>0, SameLists DEF DpcSignal
<1>3. DpcNoneOffline' /\ DpcUnplugging' /\ DpcAwakeSignaled'
  BY <1>0, SMTT(30) DEF DpcTypeOK, DpcNoneOffline, DpcUnplugging, DpcAwakeSignaled,
     DpcSignal,
     dpcHotplug
<1>4. DpcWorkerWoken'
  BY <1>0 DEF DpcWorkerWoken, DpcSignal, DpcTypeOK
<1> QED
  BY <1>1, <1>2, <1>3, <1>4 DEF DpcIInv

\* The worker pops a Dpc.
LEMMA PopKeeps ==
  ASSUME DpcIInv, NEW c \in DpcCpus, WorkerCheck(c), ~dpcStop[c], dpcList[c] # <<>>
  PROVE  DpcIInv'
<1>0. /\ DpcTypeOK /\ DpcInvokedOnce /\ DpcNoneOffline /\ DpcWorkerWoken
      /\ DpcUnplugging /\ DpcAwakeSignaled
  BY SMTT(30) DEF DpcIInv
<1>1. /\ dpcList[c] \in Seq(Dpcs) /\ dpcList[c] # <<>>
      /\ \A e \in DpcCpus : e # c => dpcList'[e] = dpcList[e]
      /\ dpcList'[c] = Tail(dpcList[c])
  BY <1>0, SMTT(30) DEF DpcTypeOK, WorkerCheck
<1>m. /\ dpcWorker[c] = "check" /\ dpcWorker' = [dpcWorker EXCEPT ![c] = "run"]
      /\ dpcInvoked' = [dpcInvoked EXCEPT ![Head(dpcList[c])] = @ + 1]
      /\ dpcList' = [dpcList EXCEPT ![c] = Tail(dpcList[c])]
      /\ UNCHANGED <<dpcSignaled, dpcStop, dpcCaller, dpcHotplug, dpcAccepted, dpcMoved>>
  BY <1>1 DEF WorkerCheck
<1> PICK d : d = Head(dpcList[c])
  OBVIOUS
<1>2. /\ dpcList'[c] \in Seq(Dpcs) /\ Len(dpcList'[c]) = Len(dpcList[c]) - 1
      /\ \A i \in 1..(Len(dpcList[c]) - 1) : dpcList'[c][i] = dpcList[c][i + 1]
      /\ Len(dpcList[c]) \in Nat \ {0} /\ d \in Dpcs /\ d = dpcList[c][1]
  <2> DEFINE l == dpcList[c]
  <2>1. l \in Seq(Dpcs) /\ l # <<>>
    BY <1>1
  <2> HIDE DEF l
  <2>2. /\ Tail(l) \in Seq(Dpcs) /\ Len(Tail(l)) = Len(l) - 1 /\ Len(l) \in Nat \ {0}
        /\ Head(l) = l[1] /\ l[1] \in Dpcs
        /\ \A i \in 1..(Len(l) - 1) : Tail(l)[i] = l[i + 1]
    BY <2>1, Popped
  <2> QED
    BY <1>1, <2>2, Zenon DEF l
<1>3. /\ \A e, i, x : DpcAt(e, i, x)' /\ e # c => DpcAt(e, i, x)
      /\ \A e, i, x : DpcAt(e, i, x) /\ e # c => DpcAt(e, i, x)'
      /\ \A i, x : DpcAt(c, i, x)' => i \in Int /\ DpcAt(c, i + 1, x) /\ i + 1 # 1
      /\ \A i, x : DpcAt(c, i, x) /\ i # 1 => i \in Int /\ DpcAt(c, i - 1, x)'
      /\ DpcAt(c, 1, d)
  <2>1. ASSUME NEW e, NEW i, NEW x, e # c
        PROVE  DpcAt(e, i, x)' <=> DpcAt(e, i, x)
    BY <1>1, <2>1, ZenonT(40) DEF DpcAt
  <2>2. ASSUME NEW i, NEW x, DpcAt(c, i, x)'
        PROVE  i \in Int /\ DpcAt(c, i + 1, x) /\ i + 1 # 1
    BY <1>2, <2>2, SMTT(30) DEF DpcAt
  <2>3. ASSUME NEW i, NEW x, DpcAt(c, i, x), i # 1
        PROVE  i \in Int /\ DpcAt(c, i - 1, x)'
    <3>1. i \in 1..Len(dpcList[c]) /\ i - 1 \in 1..(Len(dpcList[c]) - 1)
      BY <1>2, <2>3 DEF DpcAt
    <3>2. dpcList'[c][i - 1] = dpcList[c][(i - 1) + 1]
      BY <1>2, <3>1, ZenonT(40)
    <3>3. (i - 1) + 1 = i /\ i \in Int
      BY <3>1
    <3> QED
      BY <1>2, <2>3, <3>1, <3>2, <3>3, Zenon DEF DpcAt
  <2>4. DpcAt(c, 1, d)
    BY <1>2 DEF DpcAt
  <2> QED
    BY <2>1, <2>2, <2>3, <2>4, Zenon
<1>4. DpcInvokedOnce'
  <2>0. /\ DpcOnce
        /\ \A x \in Dpcs : dpcAccepted[x] = dpcInvoked[x] + (IF InContainer(x) THEN 1 ELSE 0)
    BY <1>0, InTermsOfPlaces, ZenonT(40)
  <2>1. DpcOnce'
    <3> SUFFICES ASSUME NEW e, NEW f, NEW i, NEW j, NEW x, DpcAt(e, i, x)', DpcAt(f, j, x)'
                 PROVE  e = f /\ i = j
      BY DEF DpcOnce
    <3>1. CASE e = c /\ f = c
      <4>1. i + 1 = j + 1 /\ i \in Int /\ j \in Int
        BY <1>3, <2>0, <3>1, SMTT(30) DEF DpcOnce
      <4> QED
        BY <3>1, <4>1, SMTT(30)
    <3>2. CASE ~(e = c /\ f = c)
      BY <1>3, <2>0, <3>2 DEF DpcOnce
    <3> QED
      BY <3>1, <3>2
  <2>2. ~InContainer(d)' /\ InContainer(d)
    <3>1. \A e, i : ~DpcAt(e, i, d)'
      BY <1>3, <2>0, SMTT(30) DEF DpcOnce
    <3> QED
      BY <1>3, <3>1, InTermsOfPlaces, ZenonT(40)
  <2>3. \A x \in Dpcs : x # d => (InContainer(x)' <=> InContainer(x))
    <3>1. ASSUME NEW x, x # d, NEW e, NEW i, DpcAt(e, i, x)
          PROVE  InContainer(x)'
      <4>1. e = c => i # 1
        BY <1>3, <2>0, <3>1, SMTT(30) DEF DpcAt
      <4> QED
        BY <1>3, <3>1, <4>1, InTermsOfPlaces, SMTT(30)
    <3> QED
      BY <1>3, <3>1, InTermsOfPlaces, SMTT(30)
  <2>4. \A x \in Dpcs :
          dpcAccepted'[x] = dpcInvoked'[x] + (IF InContainer(x)' THEN 1 ELSE 0)
    <3> SUFFICES ASSUME NEW x \in Dpcs
                 PROVE  dpcAccepted'[x] = dpcInvoked'[x] + (IF InContainer(x)' THEN 1 ELSE 0)
      BY SMTT(30)
    <3>1. dpcAccepted'[x] = dpcAccepted[x] /\ dpcAccepted[x] \in Nat /\ dpcInvoked[x] \in Nat
          /\ dpcInvoked'[x] = IF x = d THEN dpcInvoked[x] + 1 ELSE dpcInvoked[x]
      BY <1>0, <1>m, <1>2, DpcAssumption, SMTT(30) DEF DpcTypeOK
    <3>2. CASE x = d
      BY <2>0, <2>2, <3>1, <3>2, SMTT(30)
    <3>3. CASE x # d
      BY <2>0, <2>3, <3>1, <3>3
    <3> QED
      BY <3>2, <3>3, SMTT(30)
  <2> QED
    BY <2>1, <2>4, InTermsOfPlaces, Zenon
<1>5. DpcTypeOK'
  <2>1. dpcList' \in [DpcCpus -> Seq(Dpcs)]
    BY <1>0, <1>m, <1>1, <1>2, SMTT(30) DEF DpcTypeOK
  <2>2. dpcInvoked[d] + 1 \in 0..MaxDpcQueues
    <3>1. InContainer(d) /\ d \in Dpcs
      BY <1>2, <1>3, InTermsOfPlaces, Zenon
    <3> QED
      BY <1>0, <3>1, DpcAssumption, SMTT(30) DEF DpcInvokedOnce, DpcTypeOK
  <2>3. dpcInvoked' \in [Dpcs -> 0..MaxDpcQueues]
    BY <1>0, <1>m, <1>2, <2>2 DEF DpcTypeOK
  <2> QED
    BY <1>0, <1>m, <2>1, <2>3, ZenonT(40) DEF DpcTypeOK, dpcHotplug
<1>6. DpcNoneOffline'
  <2>1. \A e \in DpcCpus : dpcList[e] = <<>> => e # c
    BY <1>1, SMTT(30) DEF WorkerCheck
  <2> QED
    BY <1>0, <1>m, <1>1, <2>1, ZenonT(40) DEF DpcNoneOffline, dpcHotplug
<1>7. DpcWorkerWoken' /\ DpcUnplugging' /\ DpcAwakeSignaled'
  BY <1>0, <1>m, <1>1, SMTT(30) DEF DpcWorkerWoken, DpcUnplugging, DpcAwakeSignaled,
     DpcTypeOK, dpcHotplug
<1> QED
  BY <1>4, <1>5, <1>6, <1>7 DEF DpcIInv

\* TransitionOffCpu moves the Dpcs of the unplugged CPU.
LEMMA MoveKeeps ==
  ASSUME DpcIInv, NEW dst \in DpcCpus, DpcTransitionOffCpu(dst)
  PROVE  DpcIInv'
<1>0. /\ DpcTypeOK /\ DpcInvokedOnce /\ DpcNoneOffline /\ DpcWorkerWoken
      /\ DpcUnplugging /\ DpcAwakeSignaled
  BY DEF DpcIInv
<1>c. PICK c : c = dpcUnplug[2]
  OBVIOUS
<1>1. /\ dpcUnplug[1] = "move" /\ dst \in dpcOnline /\ c \notin dpcOnline /\ dst # c
      /\ c \in DpcCpus /\ c # DpcBoot /\ dpcWorker[c] = "none"
  BY <1>0, <1>c DEF DpcTypeOK, DpcUnplugging, DpcTransitionOffCpu
<1>m. /\ dpcUnplug' = <<"idle", c>>
      /\ dpcList' = [dpcList EXCEPT ![dst] = @ \o dpcList[c], ![c] = <<>>]
      /\ dpcMoved' = IF dpcList[c] = <<>> THEN dpcMoved ELSE dpcMoved \cup {dst}
      /\ dpcSignaled' = [dpcSignaled EXCEPT ![c] = FALSE]
      /\ dpcStop' = [dpcStop EXCEPT ![c] = FALSE]
      /\ UNCHANGED <<dpcWorker, dpcCaller, dpcOnline, dpcUnplugs, dpcAccepted, dpcInvoked>>
  BY <1>c, ZenonT(40) DEF DpcTransitionOffCpu, dpcCounts
<1>2. /\ \A e \in DpcCpus : e # c /\ e # dst => dpcList'[e] = dpcList[e]
      /\ dpcList'[c] = <<>> /\ dpcList'[dst] = dpcList[dst] \o dpcList[c]
      /\ dpcList[c] \in Seq(Dpcs) /\ dpcList[dst] \in Seq(Dpcs)
  BY <1>0, <1>1, <1>m, SMTT(30) DEF DpcTypeOK
<1>l. PICK n, m : n = Len(dpcList[dst]) /\ m = Len(dpcList[c])
  BY Zenon
<1>3. /\ dpcList'[dst] \in Seq(Dpcs) /\ Len(dpcList'[dst]) = n + m
      /\ n \in Nat /\ m \in Nat /\ Len(dpcList'[c]) = 0
      /\ \A i \in 1..n : dpcList'[dst][i] = dpcList[dst][i]
      /\ \A i \in 1..m : dpcList'[dst][n + i] = dpcList[c][i]
  <2> DEFINE s == dpcList[dst]  r == dpcList[c]
  <2>1. s \in Seq(Dpcs) /\ r \in Seq(Dpcs)
    BY <1>2
  <2> HIDE DEF s, r
  <2>2. /\ s \o r \in Seq(Dpcs) /\ Len(s \o r) = Len(s) + Len(r)
        /\ Len(s) \in Nat /\ Len(r) \in Nat
        /\ \A i \in 1..Len(s) : (s \o r)[i] = s[i]
        /\ \A i \in 1..Len(r) : (s \o r)[Len(s) + i] = r[i]
    BY <2>1, Joined
  <2>3. Len(dpcList'[c]) = 0
    BY <1>2
  <2> QED
    BY <1>2, <1>l, <2>2, <2>3, ZenonT(40) DEF s, r
<1>n. n \in Nat /\ m \in Nat
  BY <1>3, Zenon
<1>4. /\ \A e, i, x : e # c /\ e # dst => (DpcAt(e, i, x)' <=> DpcAt(e, i, x))
      /\ \A i, x : ~DpcAt(c, i, x)'
      /\ \A i, x : DpcAt(dst, i, x)' =>
           \/ i \in 1..n /\ DpcAt(dst, i, x)
           \/ i \in Nat /\ i - n \in Nat \ {0} /\ DpcAt(c, i - n, x)
      /\ \A i, x : DpcAt(dst, i, x) => DpcAt(dst, i, x)'
      /\ \A i, x : DpcAt(c, i, x) => DpcAt(dst, n + i, x)'
  <2>1. ASSUME NEW e, NEW i, NEW x, e # c, e # dst
        PROVE  DpcAt(e, i, x)' <=> DpcAt(e, i, x)
    BY <1>2, <2>1, Zenon DEF DpcAt
  <2>2. ASSUME NEW i, NEW x
        PROVE  ~DpcAt(c, i, x)'
    BY <1>3, SMTT(30) DEF DpcAt
  <2>3. ASSUME NEW i, NEW x, DpcAt(dst, i, x)'
        PROVE  \/ i \in 1..n /\ DpcAt(dst, i, x)
               \/ i \in Nat /\ i - n \in Nat \ {0} /\ DpcAt(c, i - n, x)
    <3>1. i \in 1..(n + m) /\ dpcList'[dst][i] = x
      BY <1>3, <2>3, Zenon DEF DpcAt
    <3>2. CASE i <= n
      <4>1. i \in 1..n
        BY <1>n, <3>1, <3>2
      <4> QED
        BY <1>3, <1>l, <3>1, <4>1, ZenonT(40) DEF DpcAt
    <3>3. CASE ~(i <= n)
      <4>1. i - n \in 1..m /\ i = n + (i - n) /\ i - n \in Nat \ {0} /\ i \in Nat
        BY <1>n, <3>1, <3>3
      <4>2. dpcList'[dst][n + (i - n)] = dpcList[c][i - n]
        BY <1>3, <4>1, Zenon
      <4> QED
        BY <1>1, <1>l, <3>1, <4>1, <4>2, Zenon DEF DpcAt
    <3> QED
      BY <3>2, <3>3
  <2>4. ASSUME NEW i, NEW x, DpcAt(dst, i, x)
        PROVE  DpcAt(dst, i, x)'
    <3>1. i \in 1..n /\ dpcList[dst][i] = x
      BY <1>l, <2>4, ZenonT(40) DEF DpcAt
    <3>2. i \in 1..(n + m)
      BY <1>n, <3>1
    <3> QED
      BY <1>3, <3>1, <3>2, Zenon DEF DpcAt
  <2>5. ASSUME NEW i, NEW x, DpcAt(c, i, x)
        PROVE  DpcAt(dst, n + i, x)'
    <3>1. i \in 1..m /\ dpcList[c][i] = x
      BY <1>l, <2>5, Zenon DEF DpcAt
    <3>2. n + i \in 1..(n + m)
      BY <1>n, <3>1
    <3> QED
      BY <1>3, <3>1, <3>2, Zenon DEF DpcAt
  <2> QED
    BY <2>1, <2>2, <2>3, <2>4, <2>5, Zenon
<1>5. DpcInvokedOnce'
  <2>0. /\ DpcOnce
        /\ \A x \in Dpcs : dpcAccepted[x] = dpcInvoked[x] + (IF InContainer(x) THEN 1 ELSE 0)
    BY <1>0, InTermsOfPlaces, Zenon
  <2>1. DpcOnce'
    <3> SUFFICES ASSUME NEW e, NEW f, NEW i, NEW j, NEW x, DpcAt(e, i, x)', DpcAt(f, j, x)'
                 PROVE  e = f /\ i = j
      BY DEF DpcOnce
    <3>1. e # c /\ f # c
      BY <1>4, SMTT(30)
    <3>2. CASE e # dst \/ f # dst
      BY <1>1, <1>4, <2>0, <3>1, <3>2, SMTT(30) DEF DpcOnce
    <3>3. CASE e = dst /\ f = dst
      BY <1>1, <1>3, <1>4, <2>0, <3>3, SMTT(30) DEF DpcOnce
    <3> QED
      BY <3>2, <3>3
  <2>2. \A x \in Dpcs : InContainer(x)' <=> InContainer(x)
    BY <1>4, InTermsOfPlaces
  <2>3. \A x \in Dpcs :
          dpcAccepted'[x] = dpcInvoked'[x] + (IF InContainer(x)' THEN 1 ELSE 0)
    BY <1>m, <2>0, <2>2, Zenon
  <2> QED
    BY <2>1, <2>3, InTermsOfPlaces, Zenon
<1>6. DpcTypeOK'
  <2>1. dpcList' \in [DpcCpus -> Seq(Dpcs)]
    <3>1. dpcList' = [e \in DpcCpus |-> dpcList'[e]]
      BY <1>0, <1>m, Zenon DEF DpcTypeOK
    <3>2. \A e \in DpcCpus : dpcList[e] \in Seq(Dpcs)
      BY <1>0, ZenonT(40) DEF DpcTypeOK
    <3>3. dpcList'[c] \in Seq(Dpcs)
      BY <1>2
    <3>4. \A e \in DpcCpus : dpcList'[e] \in Seq(Dpcs)
      BY <1>2, <1>3, <3>2, <3>3, ZenonT(40)
    <3> QED
      BY <3>1, <3>4, Zenon
  <2>2. dpcUnplug' \in {"idle", "signal", "join", "offline", "move"}
                         \X (DpcCpus \ {DpcBoot}) \cup {<<"idle", DpcBoot>>}
    BY <1>1, <1>m, SMTT(30)
  <2>3. dpcMoved' \subseteq DpcCpus
    BY <1>0, <1>m DEF DpcTypeOK
  <2> QED
    BY <1>0, <1>m, <2>1, <2>2, <2>3, ZenonT(40) DEF DpcTypeOK
<1>7. DpcNoneOffline'
  <2>1. \A e \in DpcCpus : e \notin dpcOnline /\ e # c => dpcList[e] = <<>>
    <3>1. \A e : dpcUnplug = <<"move", e>> => e = c
      BY <1>c
    <3> QED
      BY <1>0, <3>1, Zenon DEF DpcNoneOffline
  <2> QED
    BY <1>1, <1>2, <1>m, <2>1, ZenonT(40) DEF DpcNoneOffline
<1>8. DpcWorkerWoken'
  <2>1. \A e \in DpcCpus : e # c => dpcSignaled'[e] = dpcSignaled[e]
    BY <1>0, <1>m DEF DpcTypeOK
  <2>2. dpcList[c] = <<>> => dpcList'[dst] = dpcList[dst]
    BY <1>2
  <2> QED
    BY <1>0, <1>2, <1>m, <2>1, <2>2, ZenonT(120) DEF DpcWorkerWoken
<1>9. DpcUnplugging' /\ DpcAwakeSignaled'
  BY <1>0, <1>1, <1>m, SMTT(30) DEF DpcTypeOK, DpcUnplugging, DpcAwakeSignaled
<1> QED
  BY <1>5, <1>6, <1>7, <1>8, <1>9 DEF DpcIInv

\* The worker's other steps.
LEMMA WorkKeeps ==
  ASSUME DpcIInv, NEW c \in DpcCpus, DpcWork(c)
  PROVE  DpcIInv'
<1>0. /\ DpcTypeOK /\ DpcInvokedOnce /\ DpcNoneOffline /\ DpcWorkerWoken
      /\ DpcUnplugging /\ DpcAwakeSignaled
  BY DEF DpcIInv
<1>1. CASE WorkerCheck(c) /\ ~dpcStop[c] /\ dpcList[c] # <<>>
  BY <1>1, PopKeeps
<1>2. CASE ~(WorkerCheck(c) /\ ~dpcStop[c] /\ dpcList[c] # <<>>)
  <2>w. PICK w : w = dpcWorker'[c]
    OBVIOUS
  <2>1. /\ dpcWorker' = [dpcWorker EXCEPT ![c] = w]
        /\ \/ dpcSignaled' = dpcSignaled
           \/ /\ dpcSignaled' = [dpcSignaled EXCEPT ![c] = FALSE]
              /\ w = "wait" /\ dpcList[c] = <<>>
        /\ w \in {"none", "wait", "check"} /\ dpcWorker[c] # "none"
        /\ w = "wait" => dpcSignaled[c] \/ dpcList[c] = <<>>
        /\ w = "check" => dpcSignaled[c] /\ dpcSignaled' = dpcSignaled
        /\ UNCHANGED <<dpcList, dpcStop, dpcCaller, dpcUnplug, dpcOnline, dpcUnplugs,
                       dpcAccepted, dpcInvoked, dpcMoved>>
    BY <1>0, <1>2, <2>w, ZenonT(40)
    DEF DpcTypeOK, DpcAwakeSignaled, DpcWork, WorkerWake, WorkerCheck, WorkerDone,
        dpcHotplug, dpcCounts
  <2>2. DpcTypeOK'
    <3>1. dpcWorker' \in [DpcCpus -> {"none", "wait", "check", "run"}]
          /\ dpcSignaled' \in [DpcCpus -> BOOLEAN]
      BY <1>0, <2>1, Zenon DEF DpcTypeOK
    <3> QED
      BY <1>0, <2>1, <3>1, Zenon DEF DpcTypeOK
  <2>3. DpcInvokedOnce'
    BY <1>0, <2>1, SameLists DEF dpcCounts
  <2>4. DpcNoneOffline' /\ DpcUnplugging'
    BY <1>0, <2>1 DEF DpcTypeOK, DpcNoneOffline, DpcUnplugging
  <2>5. DpcWorkerWoken' /\ DpcAwakeSignaled'
    <3>1. /\ \A e \in DpcCpus : e # c => /\ dpcWorker'[e] = dpcWorker[e]
                                          /\ dpcSignaled'[e] = dpcSignaled[e]
          /\ dpcWorker'[c] = w /\ w # "run"
          /\ w = "wait" /\ dpcList[c] # <<>> => dpcSignaled'[c]
          /\ w = "check" => dpcSignaled'[c]
      BY <1>0, <2>1, <2>w DEF DpcTypeOK
    <3>2. DpcAwakeSignaled'
      BY <1>0, <3>1, ZenonT(40) DEF DpcAwakeSignaled
    <3>3. ASSUME NEW e \in DpcCpus \ dpcMoved, dpcList[e] # <<>>, dpcWorker'[e] = "wait"
          PROVE  dpcSignaled'[e] \/ \E t \in DpcCallers : dpcCaller[t] = e
      <4>1. CASE e = c
        BY <3>1, <3>3, <4>1, Zenon
      <4>2. CASE e # c
        BY <1>0, <3>1, <3>3, <4>2, ZenonT(40) DEF DpcWorkerWoken
      <4> QED
        BY <4>1, <4>2
    <3> QED
      BY <2>1, <3>2, <3>3, ZenonT(40) DEF DpcWorkerWoken
  <2> QED
    BY <2>2, <2>3, <2>4, <2>5 DEF DpcIInv
<1> QED
  BY <1>1, <1>2

\* The unplugging thread up to TransitionOffCpu, and plugging a CPU in.
LEMMA HotplugKeeps ==
  ASSUME DpcIInv,
         \/ \E c \in DpcCpus : DpcShutdown(c) \/ DpcInitForCurrentCpu(c)
         \/ DpcShutdownSignal \/ DpcJoin \/ DpcUnplugError \/ DpcOffline
  PROVE  DpcIInv'
<1>0. /\ DpcTypeOK /\ DpcInvokedOnce /\ DpcNoneOffline /\ DpcWorkerWoken
      /\ DpcUnplugging /\ DpcAwakeSignaled
  BY SMTT(30) DEF DpcIInv
<1>1. DpcInvokedOnce'
  BY <1>0, SameLists DEF DpcShutdown, DpcInitForCurrentCpu, DpcShutdownSignal, DpcJoin,
     DpcUnplugError, DpcOffline
<1>2. ASSUME NEW c \in DpcCpus, DpcShutdown(c)
      PROVE  DpcIInv'
  <2>1. DpcTypeOK'
    BY <1>0, <1>2, DpcAssumption, SMTT(30) DEF DpcTypeOK, DpcShutdown, dpcCounts
  <2>2. DpcNoneOffline' /\ DpcWorkerWoken' /\ DpcUnplugging' /\ DpcAwakeSignaled'
    BY <1>0, <1>2, SMTT(30) DEF DpcTypeOK, DpcShutdown, DpcNoneOffline, DpcWorkerWoken,
       DpcUnplugging,
                      DpcAwakeSignaled
  <2> QED
    BY <1>1, <2>1, <2>2, SMTT(30) DEF DpcIInv
<1>3. ASSUME NEW c \in DpcCpus, DpcInitForCurrentCpu(c)
      PROVE  DpcIInv'
  <2>1. DpcTypeOK'
    BY <1>0, <1>3, SMTT(30) DEF DpcTypeOK, DpcInitForCurrentCpu, dpcCounts
  <2>2. dpcList[c] = <<>>
    BY <1>0, <1>3, SMTT(30) DEF DpcNoneOffline, DpcInitForCurrentCpu
  <2>3. DpcNoneOffline' /\ DpcWorkerWoken' /\ DpcUnplugging' /\ DpcAwakeSignaled'
    BY <1>0, <1>3, <2>2, SMTT(90) DEF DpcTypeOK, DpcInitForCurrentCpu, DpcNoneOffline,
       DpcWorkerWoken,
                            DpcUnplugging, DpcAwakeSignaled
  <2> QED
    BY <1>1, <2>1, <2>3 DEF DpcIInv
<1>4. CASE DpcShutdownSignal \/ DpcJoin \/ DpcUnplugError \/ DpcOffline
  <2>c. PICK c : c = dpcUnplug[2]
    OBVIOUS
  <2>1. c \in DpcCpus /\ c # DpcBoot /\ dpcUnplug[1] \in {"signal", "join", "offline"}
    BY <1>0, <1>4, <2>c DEF DpcTypeOK, DpcShutdownSignal, DpcJoin, DpcUnplugError,
       DpcOffline
  <2>2. /\ \/ dpcUnplug' = <<"join", c>> \/ dpcUnplug' = <<"idle", c>>
           \/ dpcUnplug' = <<"offline", c>> /\ dpcWorker[c] = "none"
           \/ dpcUnplug' = <<"move", c>> /\ dpcWorker[c] = "none"
        /\ \/ dpcOnline' = dpcOnline /\ dpcUnplug'[1] # "move"
           \/ dpcOnline' = dpcOnline \ {c} /\ dpcUnplug' = <<"move", c>>
        /\ dpcSignaled' = dpcSignaled \/ dpcSignaled' = [dpcSignaled EXCEPT ![c] = TRUE]
        /\ UNCHANGED <<dpcList, dpcStop, dpcWorker, dpcCaller, dpcUnplugs, dpcAccepted,
                       dpcInvoked, dpcMoved>>
    <3>1. CASE DpcShutdownSignal
      BY <2>c, <3>1 DEF DpcShutdownSignal, dpcCounts
    <3>2. CASE DpcJoin
      BY <2>c, <3>2 DEF DpcJoin, dpcCounts
    <3>3. CASE DpcOffline
      BY <1>0, <2>c, <3>3 DEF DpcOffline, DpcUnplugging, dpcCounts
    <3>4. CASE DpcUnplugError
      BY <2>c, <3>4 DEF DpcUnplugError, dpcCounts
    <3> QED
      BY <1>4, <3>1, <3>2, <3>3, <3>4
  <2>3. DpcTypeOK'
    <3>1. dpcUnplug' \in {"idle", "signal", "join", "offline", "move"}
                           \X (DpcCpus \ {DpcBoot}) \cup {<<"idle", DpcBoot>>}
      BY <2>1, <2>2
    <3>2. dpcSignaled' \in [DpcCpus -> BOOLEAN] /\ dpcOnline' \subseteq DpcCpus
          /\ DpcBoot \in dpcOnline'
      BY <1>0, <2>1, <2>2, ZenonT(40) DEF DpcTypeOK
    <3> QED
      BY <1>0, <2>2, <3>1, <3>2, Zenon DEF DpcTypeOK
  <2>4. DpcNoneOffline' /\ DpcUnplugging'
    BY <1>0, <2>1, <2>2, SMTT(30) DEF DpcTypeOK, DpcNoneOffline, DpcUnplugging
  <2>5. DpcWorkerWoken' /\ DpcAwakeSignaled'
    <3>1. \A e \in DpcCpus : dpcSignaled[e] => dpcSignaled'[e]
      BY <1>0, <2>1, <2>2, ZenonT(40) DEF DpcTypeOK
    <3> QED
      BY <1>0, <2>2, <3>1, ZenonT(40) DEF DpcWorkerWoken, DpcAwakeSignaled
  <2> QED
    BY <1>1, <2>3, <2>4, <2>5 DEF DpcIInv
<1> QED
  BY <1>2, <1>3, <1>4

\* Every step keeps the invariant.
LEMMA DpcNextKeeps == DpcIInv /\ [DpcNext]_dpcVars => DpcIInv'
<1> SUFFICES ASSUME DpcIInv, [DpcNext]_dpcVars
             PROVE  DpcIInv'
  OBVIOUS
<1>1. CASE UNCHANGED dpcVars
  <2>0. /\ DpcTypeOK /\ DpcInvokedOnce /\ DpcNoneOffline /\ DpcWorkerWoken
        /\ DpcUnplugging /\ DpcAwakeSignaled
    BY DEF DpcIInv
  <2>1. UNCHANGED <<dpcList, dpcSignaled, dpcStop, dpcWorker, dpcCaller, dpcUnplug, dpcOnline,
                    dpcUnplugs, dpcCounts, dpcAccepted, dpcInvoked, dpcMoved>>
    BY <1>1, Zenon DEF dpcVars, dpcHotplug, dpcCounts
  <2>2. DpcInvokedOnce'
    BY <2>0, <2>1, SameLists, ZenonT(40)
  <2>3. DpcTypeOK' /\ DpcNoneOffline' /\ DpcWorkerWoken' /\ DpcUnplugging' /\ DpcAwakeSignaled'
    BY <2>0, <2>1, SMTT(30)
    DEF DpcTypeOK, DpcNoneOffline, DpcWorkerWoken, DpcUnplugging, DpcAwakeSignaled
  <2> QED
    BY <2>2, <2>3 DEF DpcIInv
<1>2. CASE DpcNext
  BY <1>2, EnqueueKeeps, SignalKeeps, WorkKeeps, MoveKeeps, HotplugKeeps, Zenon
  DEF DpcNext, DpcUnplugStep
<1> QED
  BY <1>1, <1>2

\* The invariant holds initially.
LEMMA DpcInitIInv == DpcInit => DpcIInv
<1> SUFFICES ASSUME DpcInit
             PROVE  DpcIInv
  OBVIOUS
<1>1. \A c \in DpcCpus : dpcList[c] = <<>> /\ Len(dpcList[c]) = 0
  BY ZenonT(40) DEF DpcInit
<1>2. DpcTypeOK
  BY DpcAssumption, SMTT(30) DEF DpcInit, DpcTypeOK
<1>3. DpcInvokedOnce
  BY <1>1, SMTT(30) DEF DpcInit, DpcInvokedOnce, InContainer
<1>4. DpcNoneOffline /\ DpcWorkerWoken /\ DpcUnplugging /\ DpcAwakeSignaled
  BY <1>1 DEF DpcInit, DpcNoneOffline, DpcWorkerWoken, DpcUnplugging, DpcAwakeSignaled
<1> QED
  BY <1>2, <1>3, <1>4 DEF DpcIInv

\* The strengthened invariant holds.
THEOREM DpcInvariant == DpcSpec => []DpcIInv
  BY DpcInitIInv, DpcNextKeeps, PTL DEF DpcSpec

\* However callers, workers and an unplugging thread interleave, an accepted
\* Dpc is on one list, once, until it is invoked, once, and none is left on the
\* list of a CPU that is offline.
THEOREM DpcConsistentHolds == DpcSpec => []DpcConsistent
<1>1. DpcIInv => DpcConsistent
  BY DEF DpcIInv, DpcConsistent
<1> QED
  BY <1>1, DpcInvariant, PTL

\* A worker does not sleep on a list of Dpcs whose queueing thread has signaled
\* it: the signal after the lock and the clearing of the event do not cross.
THEOREM DpcWorkerWokenHolds == DpcSpec => []DpcWorkerWoken
<1>1. DpcIInv => DpcWorkerWoken
  BY DEF DpcIInv
<1> QED
  BY <1>1, DpcInvariant, PTL
=============================================================================
