---------------------------- MODULE TasksProofs ----------------------------
(***************************************************************************)
(* Proofs about Tasks, for any tree of jobs and processes and any number   *)
(* of actors.                                                              *)
(***************************************************************************)
EXTENDS Tasks, TLAPS

-----------------------------------------------------------------------------
(* The inductive invariant *)

TkOps == {"kill", "finish", "critical", "die", "leave"}
TkFrames == [op : TkOps, jobs : SUBSET TkJobs, procs : SUBSET TkProcs,
             x : TkTasks \cup {TkNone}]
TkFrameSeq == Seq(TkFrames)
TkStacks == [TkActors -> TkFrameSeq]
TkStates == {"NONE", "INITIAL", "RUNNING", "DYING", "DEAD", "GONE", "READY",
             "KILLING"}

\* An actor has a frame op for x.
Has(op, x) == \E f \in AllFrames : f.op = op /\ f.x = x

\* No two actors, and no two places of one stack, have the same op for x.
AtMostOne(S, op, x) ==
  \A a, b \in TkActors : \A i \in DOMAIN S[a], k \in DOMAIN S[b] :
    /\ S[a][i].op = op /\ S[a][i].x = x
    /\ S[b][k].op = op /\ S[b][k].x = x
    => a = b /\ i = k

TkTypes ==
  /\ tkState \in [TkTasks -> TkStates]
  /\ TasksTypeOK
  /\ tkStack \in TkStacks

\* What an actor knows of the task it is about to act on, other actors
\* notwithstanding.
FrameTrue(f) ==
  /\ f.op # "kill" => f.jobs = {} /\ f.procs = {}
  /\ \A p \in f.procs : TkExists(p)
  /\ f.op = "finish" => f.x \in TkProcs /\ tkState[f.x] = "DEAD" /\ f.x \notin tkDone
  /\ f.op = "critical" => f.x \in TkProcs
  /\ f.op = "die" => /\ f.x \in TkJobs /\ tkState[f.x] = "KILLING"
                     /\ ChildrenOf(f.x) \cap tkIn = {}
  /\ f.op = "leave" => f.x \in TkJobs /\ tkState[f.x] \in {"DEAD", "GONE"}

\* A task is in its parent's list until it is dead, and a dead process that
\* is still listed has an actor to take it out.
ProcTrue(p) ==
  /\ tkState[p] \in {"INITIAL", "RUNNING", "DYING"} => p \in tkIn
  /\ tkState[p] = "DEAD" /\ p \in tkIn => Has("finish", p)
  /\ tkThreads[p] > 0 => tkState[p] \in {"RUNNING", "DYING"}
  /\ p \in tkDone => tkState[p] \in {"DEAD", "GONE"}
  /\ p \in tkHandles => TkExists(p)
JobTrue(j) ==
  /\ tkState[j] \in {"READY", "KILLING"} /\ j # TkRoot => j \in tkIn
  /\ tkState[j] = "DEAD" => ChildrenOf(j) \cap tkIn = {}

\* NoSurvivor and ListedTasksExist in terms of frames.
Survivors ==
  /\ \A p \in TkProcs :
       tkState[p] \in {"INITIAL", "RUNNING"} /\ tkState[TkParent[p]] # "READY"
       => \E f \in AllFrames : p \in f.procs
  /\ \A j \in TkJobs \ {TkRoot} :
       tkState[j] = "READY" /\ tkState[TkParent[j]] # "READY"
       => \E f \in AllFrames : j \in f.jobs
  /\ \A j \in TkJobs : ReadyForDead(j, tkState[j], tkIn) => Has("die", j)
Listing == \A x \in tkIn : TkExists(x) \/ (x \in TkJobs /\ Has("leave", x))

Once ==
  /\ \A p \in TkProcs : AtMostOne(tkStack, "finish", p)
  /\ \A j \in TkJobs : AtMostOne(tkStack, "die", j)

TasksIInv ==
  /\ TkTypes
  /\ \A f \in AllFrames : FrameTrue(f)
  /\ \A p \in TkProcs : ProcTrue(p)
  /\ \A j \in TkJobs : JobTrue(j)
  /\ Survivors
  /\ Listing
  /\ Once
-----------------------------------------------------------------------------
(* Frames and stacks *)

\* The stack of a is fs on top of all but the innermost frame of S[a].
Replaces(S, T, a, fs) ==
  \/ S[a] = <<>> /\ T = [S EXCEPT ![a] = fs]
  \/ S[a] # <<>> /\ T = [S EXCEPT ![a] = fs \o Tail(@)]

\* A frame is one of the entries of a stack.
LEMMA FramesAreEntries ==
  \A f : f \in AllFrames <=> \E a \in TkActors : \E i \in DOMAIN tkStack[a] :
                               f = tkStack[a][i]
BY DEF AllFrames, FramesOf

\* The entries of T: those of S that stay may move, each to a place of its own.
Moves(S, T, a, fs) ==
  /\ T \in TkStacks
  /\ \A b \in TkActors \ {a} : T[b] = S[b]
  /\ \A i \in DOMAIN fs : i \in DOMAIN T[a] /\ T[a][i] = fs[i]
  /\ \E was \in [DOMAIN T[a] \ DOMAIN fs -> DOMAIN S[a]] :
       /\ \A i \in DOMAIN T[a] \ DOMAIN fs : T[a][i] = S[a][was[i]] /\ was[i] # 1
       /\ \A i, k \in DOMAIN T[a] \ DOMAIN fs : was[i] = was[k] => i = k
       /\ \A k \in DOMAIN S[a] \ {1} :
            \E i \in DOMAIN T[a] \ DOMAIN fs : was[i] = k

\* What replacing the top does to the entries.
LEMMA ReplacedEntries ==
  ASSUME NEW S \in TkStacks, NEW T, NEW a \in TkActors,
         NEW fs \in TkFrameSeq, Replaces(S, T, a, fs)
  PROVE  Moves(S, T, a, fs)
<1>1. CASE S[a] = <<>>
  <2>1. T = [S EXCEPT ![a] = fs] /\ T \in TkStacks
    BY <1>1, Zenon DEF Replaces, TkStacks
  <2>2. T[a] = fs /\ DOMAIN S[a] = {}
    BY <1>1, <2>1 DEF TkStacks
  <2> DEFINE was == [i \in {} |-> 1]
  <2>3. was \in [DOMAIN T[a] \ DOMAIN fs -> DOMAIN S[a]]
    BY <2>2, Zenon
  <2> QED
    BY <2>1, <2>2, <2>3, ZenonT(40) DEF TkStacks, Moves
<1>2. CASE S[a] # <<>>
  <2> DEFINE s == S[a]
             t == Tail(s)
             n == Len(fs)
             l == Len(s)
  <2>1. T = [S EXCEPT ![a] = fs \o t]
    BY <1>2, Zenon DEF Replaces
  <2>2. /\ s \in TkFrameSeq /\ l \in Nat /\ l > 0 /\ DOMAIN s = 1..l
        /\ t \in TkFrameSeq /\ Len(t) = l - 1
        /\ \A i \in 1..(l - 1) : t[i] = s[i + 1]
    BY <1>2, SMTT(30) DEF TkStacks, TkFrameSeq
  <2>3. /\ fs \o t \in TkFrameSeq /\ n \in Nat /\ DOMAIN fs = 1..n
        /\ DOMAIN (fs \o t) = 1..(n + l - 1)
        /\ \A i \in 1..n : (fs \o t)[i] = fs[i]
        /\ \A i \in (n + 1)..(n + l - 1) : (fs \o t)[i] = t[i - n]
    BY <2>2, SMTT(30) DEF TkFrameSeq
  <2>4. T[a] = fs \o t /\ T \in TkStacks
    BY <2>1, <2>3, Zenon DEF TkStacks
  <2>5. \A b \in TkActors \ {a} : T[b] = S[b]
    BY <2>1, Zenon DEF TkStacks
  <2> HIDE DEF s, t, n, l
  <2>6. /\ DOMAIN T[a] = 1..(n + l - 1)
        /\ \A i \in 1..n : T[a][i] = fs[i]
        /\ \A i \in (n + 1)..(n + l - 1) : T[a][i] = t[i - n]
    BY <2>3, <2>4, Zenon
  <2>7. DOMAIN T[a] \ DOMAIN fs = (n + 1)..(n + l - 1)
    BY <2>2, <2>3, <2>6, SMTT(30)
  <2>8. ASSUME NEW i \in (n + 1)..(n + l - 1)
        PROVE  i - n + 1 \in 1..l /\ T[a][i] = s[i - n + 1]
    <3>1. i - n \in 1..(l - 1)
      BY <2>2, <2>3, <2>8
    <3>2. t[i - n] = s[i - n + 1]
      BY <3>1, <2>2, Zenon
    <3> QED
      BY <2>2, <2>3, <2>6, <3>1, <3>2, SMTT(30)
  <2> DEFINE was == [i \in (n + 1)..(n + l - 1) |-> i - n + 1]
  <2>9. was \in [DOMAIN T[a] \ DOMAIN fs -> DOMAIN s]
    BY <2>2, <2>7, <2>8, Zenon
  <2>10. \A i \in DOMAIN T[a] \ DOMAIN fs : T[a][i] = s[was[i]] /\ was[i] # 1
    BY <2>2, <2>3, <2>7, <2>8, SMTT(30)
  <2>11. \A i, k \in DOMAIN T[a] \ DOMAIN fs : was[i] = was[k] => i = k
    BY <2>2, <2>3, <2>7, SMTT(90)
  <2>12. ASSUME NEW k \in DOMAIN s \ {1}
         PROVE  \E i \in DOMAIN T[a] \ DOMAIN fs : was[i] = k
    <3>1. k + n - 1 \in (n + 1)..(n + l - 1) /\ was[k + n - 1] = k
      BY <2>2, <2>3, SMTT(90)
    <3> QED
      BY <3>1, <2>7, Zenon
  <2>13. \A i \in DOMAIN fs : i \in DOMAIN T[a] /\ T[a][i] = fs[i]
    BY <2>2, <2>3, <2>6, SMTT(30)
  <2> HIDE DEF was
  <2> QED
    BY <2>4, <2>5, <2>9, <2>10, <2>11, <2>12, <2>13, ZenonT(40) DEF s, Moves
<1> QED
  BY <1>1, <1>2, Zenon

\* Frames after a step of an actor: the new ones, and the old ones but for the
\* innermost.
LEMMA ReplacedFrames ==
  ASSUME tkStack \in TkStacks, NEW a \in TkActors,
         NEW fs \in TkFrameSeq, Replaces(tkStack, tkStack', a, fs)
  PROVE  /\ tkStack' \in TkStacks
         /\ \A f \in AllFrames' : f \in AllFrames \/ \E i \in DOMAIN fs : f = fs[i]
         /\ \A f \in AllFrames : f \in AllFrames' \/ (~TkIdle(a) /\ f = TkTop(a))
         /\ \A i \in DOMAIN fs : fs[i] \in AllFrames'
<1> USE FramesAreEntries
<1>m. Moves(tkStack, tkStack', a, fs)
  BY ReplacedEntries, Zenon
<1>1. /\ tkStack' \in TkStacks
      /\ \A b \in TkActors \ {a} : tkStack'[b] = tkStack[b]
      /\ \A i \in DOMAIN fs : i \in DOMAIN tkStack'[a] /\ tkStack'[a][i] = fs[i]
  BY <1>m, ZenonT(40) DEF Moves
<1>0. PICK was \in [DOMAIN tkStack'[a] \ DOMAIN fs -> DOMAIN tkStack[a]] :
        /\ \A i \in DOMAIN tkStack'[a] \ DOMAIN fs : tkStack'[a][i] = tkStack[a][was[i]]
        /\ \A k \in DOMAIN tkStack[a] \ {1} :
             \E i \in DOMAIN tkStack'[a] \ DOMAIN fs : was[i] = k
  BY <1>m DEF Moves
<1>2. \A f : f \in AllFrames' <=> \E b \in TkActors : \E i \in DOMAIN tkStack'[b] :
                                   f = tkStack'[b][i]
  BY DEF AllFrames, FramesOf
<1>3. ASSUME NEW f \in AllFrames'
      PROVE  f \in AllFrames \/ \E i \in DOMAIN fs : f = fs[i]
  <2>1. PICK b \in TkActors : \E i \in DOMAIN tkStack'[b] : f = tkStack'[b][i]
    BY <1>2, ZenonT(40)
  <2>2. PICK i \in DOMAIN tkStack'[b] : f = tkStack'[b][i]
    BY <2>1, Zenon
  <2>3. CASE b # a
    BY <1>1, <2>2, <2>3, ZenonT(40)
  <2>4. CASE b = a /\ i \in DOMAIN fs
    BY <1>1, <2>2, <2>4, Zenon
  <2>5. CASE b = a /\ i \notin DOMAIN fs
    BY <1>0, <2>2, <2>5, ZenonT(40)
  <2> QED
    BY <2>3, <2>4, <2>5, Zenon
<1>4. ASSUME NEW f \in AllFrames
      PROVE  f \in AllFrames' \/ (~TkIdle(a) /\ f = TkTop(a))
  <2>0. PICK b \in TkActors : \E i \in DOMAIN tkStack[b] : f = tkStack[b][i]
    OBVIOUS
  <2>1. PICK i \in DOMAIN tkStack[b] : f = tkStack[b][i]
    BY <2>0, ZenonT(40)
  <2>2. CASE b # a
    BY <1>1, <1>2, <2>1, <2>2, ZenonT(40)
  <2>3. CASE b = a /\ i # 1
    BY <1>0, <1>2, <2>1, <2>3, ZenonT(120)
  <2>4. CASE b = a /\ i = 1
    BY <2>1, <2>4 DEF TkIdle, TkTop
  <2> QED
    BY <2>2, <2>3, <2>4, Zenon
<1>5. \A i \in DOMAIN fs : fs[i] \in AllFrames'
  BY <1>1, <1>2, ZenonT(40)
<1> QED
  BY <1>1, <1>3, <1>4, <1>5, Zenon

\* Replacing the top by frames without op and x keeps them unique.
LEMMA StaysUnique ==
  ASSUME NEW S \in TkStacks, NEW T, NEW a \in TkActors,
         NEW fs \in TkFrameSeq, Replaces(S, T, a, fs), NEW op, NEW x,
         AtMostOne(S, op, x),
         \A i \in DOMAIN fs : ~(fs[i].op = op /\ fs[i].x = x)
  PROVE  AtMostOne(T, op, x)
<1>m. Moves(S, T, a, fs)
  BY ReplacedEntries, Zenon
<1>1. /\ \A b \in TkActors \ {a} : T[b] = S[b]
      /\ \A i \in DOMAIN fs : i \in DOMAIN T[a] /\ T[a][i] = fs[i]
  BY <1>m, Zenon DEF Moves
<1>2. PICK was \in [DOMAIN T[a] \ DOMAIN fs -> DOMAIN S[a]] :
        /\ \A i \in DOMAIN T[a] \ DOMAIN fs : T[a][i] = S[a][was[i]]
        /\ \A i, k \in DOMAIN T[a] \ DOMAIN fs : was[i] = was[k] => i = k
  BY <1>m DEF Moves
<1> SUFFICES ASSUME NEW b \in TkActors, NEW c \in TkActors,
                    NEW i \in DOMAIN T[b], NEW k \in DOMAIN T[c],
                    T[b][i].op = op, T[b][i].x = x, T[c][k].op = op, T[c][k].x = x
             PROVE  b = c /\ i = k
  BY DEF AtMostOne
<1>3. b = a => /\ i \in DOMAIN T[a] \ DOMAIN fs /\ was[i] \in DOMAIN S[a]
               /\ S[a][was[i]] = T[a][i]
  BY <1>1, <1>2
<1>4. c = a => /\ k \in DOMAIN T[a] \ DOMAIN fs /\ was[k] \in DOMAIN S[a]
               /\ S[a][was[k]] = T[a][k]
  BY <1>1, <1>2
<1>5. CASE b = a /\ c = a
  <2>1. was[i] = was[k]
    BY <1>3, <1>4, <1>5, SMTT(30) DEF AtMostOne
  <2> QED
    BY <2>1, <1>2, <1>3, <1>4, <1>5, ZenonT(40)
<1>6. CASE b = a /\ c # a
  BY <1>1, <1>3, <1>6, SMTT(30) DEF AtMostOne
<1>7. CASE b # a /\ c = a
  BY <1>1, <1>4, <1>7, SMTT(30) DEF AtMostOne
<1>8. CASE b # a /\ c # a
  BY <1>1, <1>8 DEF AtMostOne
<1> QED
  BY <1>5, <1>6, <1>7, <1>8, Zenon

\* The first op for x is unique when it is the first of the new frames.
LEMMA BecomesUnique ==
  ASSUME NEW S \in TkStacks, NEW T, NEW a \in TkActors,
         NEW fs \in TkFrameSeq, Replaces(S, T, a, fs), NEW op, NEW x,
         \A b \in TkActors : \A i \in DOMAIN S[b] : ~(S[b][i].op = op /\ S[b][i].x = x),
         \A i \in DOMAIN fs : fs[i].op = op /\ fs[i].x = x => i = 1
  PROVE  AtMostOne(T, op, x)
<1>m. Moves(S, T, a, fs)
  BY ReplacedEntries, Zenon
<1>1. /\ \A b \in TkActors \ {a} : T[b] = S[b]
      /\ \A i \in DOMAIN fs : i \in DOMAIN T[a] /\ T[a][i] = fs[i]
  BY <1>m, Zenon DEF Moves
<1>2. \A i \in DOMAIN T[a] \ DOMAIN fs : \E k \in DOMAIN S[a] : T[a][i] = S[a][k]
  BY <1>m DEF Moves
<1>3. ASSUME NEW b \in TkActors, NEW i \in DOMAIN T[b],
             T[b][i].op = op, T[b][i].x = x
      PROVE  b = a /\ i = 1
  <2>1. CASE b # a
    BY <1>1, <1>3, <2>1, Zenon
  <2>2. CASE b = a /\ i \notin DOMAIN fs
    BY <1>2, <1>3, <2>2, ZenonT(40)
  <2>3. CASE b = a /\ i \in DOMAIN fs
    BY <1>1, <1>3, <2>3, Zenon
  <2> QED
    BY <2>1, <2>2, <2>3, Zenon
<1> QED
  BY <1>3, ZenonT(40) DEF AtMostOne

\* The only op for x is gone when it was the innermost frame.
LEMMA Disappears ==
  ASSUME NEW S \in TkStacks, NEW T, NEW a \in TkActors,
         NEW fs \in TkFrameSeq, Replaces(S, T, a, fs), NEW op, NEW x,
         S[a] # <<>>, Head(S[a]).op = op, Head(S[a]).x = x, AtMostOne(S, op, x),
         \A i \in DOMAIN fs : ~(fs[i].op = op /\ fs[i].x = x)
  PROVE  \A b \in TkActors : \A i \in DOMAIN T[b] : ~(T[b][i].op = op /\ T[b][i].x = x)
<1>m. Moves(S, T, a, fs)
  BY ReplacedEntries, Zenon
<1>0. S[a] \in Seq(TkFrames)
  BY Zenon DEF TkStacks, TkFrameSeq
<1>1. 1 \in DOMAIN S[a] /\ S[a][1].op = op /\ S[a][1].x = x
  BY <1>0
<1>2. /\ \A b \in TkActors \ {a} : T[b] = S[b]
      /\ \A i \in DOMAIN fs : i \in DOMAIN T[a] /\ T[a][i] = fs[i]
  BY <1>m, ZenonT(40) DEF Moves
<1>3. \A i \in DOMAIN T[a] \ DOMAIN fs : \E k \in DOMAIN S[a] \ {1} : T[a][i] = S[a][k]
  BY <1>m, SMTT(30) DEF Moves
<1> SUFFICES ASSUME NEW b \in TkActors, NEW i \in DOMAIN T[b],
                    T[b][i].op = op, T[b][i].x = x
             PROVE  FALSE
  BY SMTT(30)
<1>4. CASE b # a
  BY <1>1, <1>2, <1>4 DEF AtMostOne
<1>5. CASE b = a /\ i \in DOMAIN fs
  BY <1>2, <1>5, ZenonT(40)
<1>6. CASE b = a /\ i \notin DOMAIN fs
  <2>1. PICK k \in DOMAIN S[a] \ {1} : T[a][i] = S[a][k]
    BY <1>3, <1>6, Zenon
  <2> QED
    BY <1>1, <1>6, <2>1 DEF AtMostOne
<1> QED
  BY <1>4, <1>5, <1>6, Zenon

\* What a step of an actor does to the frames: N are the new ones, M those of
\* them that are not the innermost.
Changes(a, N, M) ==
  /\ tkStack' \in TkStacks
  /\ N \subseteq AllFrames' /\ AllFrames' \subseteq AllFrames \cup N
  /\ \A f \in AllFrames : f \in AllFrames' \/ (~TkIdle(a) /\ f = TkTop(a))
  /\ \A op \in TkOps, x \in TkTasks :
       \/ AtMostOne(tkStack, op, x) /\ \A f \in N : ~(f.op = op /\ f.x = x)
       \/ ~Has(op, x) /\ \A f \in M : f.op # op
       => AtMostOne(tkStack', op, x)
  /\ \A op \in TkOps, x \in TkTasks :
       /\ AtMostOne(tkStack, op, x) /\ \A f \in N : ~(f.op = op /\ f.x = x)
       /\ ~TkIdle(a) /\ TkTop(a).op = op /\ TkTop(a).x = x
       => ~Has(op, x)'

\* A task without a frame has no entry.
LEMMA HasNone ==
  ASSUME NEW op, NEW x, ~Has(op, x)
  PROVE  \A b \in TkActors : \A i \in DOMAIN tkStack[b] :
           ~(tkStack[b][i].op = op /\ tkStack[b][i].x = x)
BY FramesAreEntries, Zenon DEF Has

\* The converse, after a step.
LEMMA NoneHas ==
  ASSUME NEW op, NEW x,
         \A b \in TkActors : \A i \in DOMAIN tkStack'[b] :
           ~(tkStack'[b][i].op = op /\ tkStack'[b][i].x = x)
  PROVE  ~Has(op, x)'
<1>1. \A f : f \in AllFrames' <=> \E b \in TkActors : \E i \in DOMAIN tkStack'[b] :
                                   f = tkStack'[b][i]
  BY DEF AllFrames, FramesOf
<1> QED
  BY <1>1 DEF Has

\* An actor goes on without a new frame.
LEMMA Pushes0 ==
  ASSUME tkStack \in TkStacks, NEW a \in TkActors,
         Replaces(tkStack, tkStack', a, <<>>)
  PROVE  Changes(a, {}, {})
<1>1. <<>> \in TkFrameSeq /\ DOMAIN <<>> = {}
  BY DEF TkFrameSeq
<1>2. \A op, x : AtMostOne(tkStack, op, x) => AtMostOne(tkStack', op, x)
  BY <1>1, StaysUnique, ZenonT(40)
<1>3. \A op, x : ~Has(op, x) => AtMostOne(tkStack, op, x)
  BY HasNone DEF AtMostOne
<1>4. /\ tkStack' \in TkStacks /\ AllFrames' \subseteq AllFrames
      /\ \A f \in AllFrames : f \in AllFrames' \/ (~TkIdle(a) /\ f = TkTop(a))
  BY <1>1, ReplacedFrames, Zenon
<1>5. ASSUME NEW op, NEW x, AtMostOne(tkStack, op, x), ~TkIdle(a),
             TkTop(a).op = op, TkTop(a).x = x
      PROVE  ~Has(op, x)'
  <2>1. \A b \in TkActors : \A i \in DOMAIN tkStack'[b] :
           ~(tkStack'[b][i].op = op /\ tkStack'[b][i].x = x)
    BY <1>1, <1>5, Disappears, SMTT(30) DEF TkIdle, TkTop
  <2> QED
    BY <2>1, NoneHas, ZenonT(40)
<1> QED
  BY <1>2, <1>3, <1>4, <1>5, Zenon DEF Changes

\* An actor goes on with one new frame.
LEMMA Pushes1 ==
  ASSUME tkStack \in TkStacks, NEW a \in TkActors, NEW f \in TkFrames,
         Replaces(tkStack, tkStack', a, <<f>>)
  PROVE  Changes(a, {f}, {})
<1>1. /\ <<f>> \in TkFrameSeq /\ DOMAIN <<f>> = {1} /\ <<f>>[1] = f
  BY DEF TkFrameSeq
<1>2. /\ tkStack' \in TkStacks
      /\ {f} \subseteq AllFrames' /\ AllFrames' \subseteq AllFrames \cup {f}
      /\ \A g \in AllFrames : g \in AllFrames' \/ (~TkIdle(a) /\ g = TkTop(a))
  BY <1>1, ReplacedFrames
<1>3. \A op, x : AtMostOne(tkStack, op, x) /\ ~(f.op = op /\ f.x = x)
                 => AtMostOne(tkStack', op, x)
  BY <1>1, StaysUnique
<1>4. ASSUME NEW op, NEW x, ~Has(op, x)
      PROVE  AtMostOne(tkStack', op, x)
  <2>1. \A b \in TkActors : \A i \in DOMAIN tkStack[b] :
          ~(tkStack[b][i].op = op /\ tkStack[b][i].x = x)
    BY <1>4, HasNone, ZenonT(40)
  <2> QED
    BY <1>1, <2>1, BecomesUnique, ZenonT(40)
<1>5. ASSUME NEW op, NEW x, AtMostOne(tkStack, op, x), ~TkIdle(a),
             TkTop(a).op = op, TkTop(a).x = x,
             ~(f.op = op /\ f.x = x)
      PROVE  ~Has(op, x)'
  <2>1. \A b \in TkActors : \A i \in DOMAIN tkStack'[b] :
           ~(tkStack'[b][i].op = op /\ tkStack'[b][i].x = x)
    BY <1>1, <1>5, Disappears, SMTT(30) DEF TkIdle, TkTop
  <2> QED
    BY <2>1, NoneHas, ZenonT(40)
<1> QED
  BY <1>2, <1>3, <1>4, <1>5, ZenonT(40) DEF Changes

\* An actor goes on with two new frames.
LEMMA Pushes2 ==
  ASSUME tkStack \in TkStacks, NEW a \in TkActors,
         NEW f \in TkFrames, NEW g \in TkFrames,
         Replaces(tkStack, tkStack', a, <<f, g>>)
  PROVE  Changes(a, {f, g}, {g})
<1>1. /\ <<f, g>> \in TkFrameSeq /\ DOMAIN <<f, g>> = {1, 2}
      /\ <<f, g>>[1] = f /\ <<f, g>>[2] = g
  BY DEF TkFrameSeq
<1>2. /\ tkStack' \in TkStacks
      /\ {f, g} \subseteq AllFrames' /\ AllFrames' \subseteq AllFrames \cup {f, g}
      /\ \A h \in AllFrames : h \in AllFrames' \/ (~TkIdle(a) /\ h = TkTop(a))
  BY <1>1, ReplacedFrames, SMTT(30)
<1>3. \A op, x : /\ AtMostOne(tkStack, op, x)
                 /\ ~(f.op = op /\ f.x = x) /\ ~(g.op = op /\ g.x = x)
                 => AtMostOne(tkStack', op, x)
  BY <1>1, StaysUnique, SMTT(30)
<1>4. ASSUME NEW op, NEW x, ~Has(op, x), g.op # op
      PROVE  AtMostOne(tkStack', op, x)
  <2>1. \A b \in TkActors : \A i \in DOMAIN tkStack[b] :
          ~(tkStack[b][i].op = op /\ tkStack[b][i].x = x)
    BY <1>4, HasNone, Zenon
  <2> QED
    BY <1>1, <1>4, <2>1, BecomesUnique
<1>5. ASSUME NEW op, NEW x, AtMostOne(tkStack, op, x), ~TkIdle(a),
             TkTop(a).op = op, TkTop(a).x = x,
             ~(f.op = op /\ f.x = x), ~(g.op = op /\ g.x = x)
      PROVE  ~Has(op, x)'
  <2>1. \A b \in TkActors : \A i \in DOMAIN tkStack'[b] :
           ~(tkStack'[b][i].op = op /\ tkStack'[b][i].x = x)
    BY <1>1, <1>5, Disappears, SMTT(30) DEF TkIdle, TkTop
  <2> QED
    BY <2>1, NoneHas, ZenonT(40)
<1> QED
  BY <1>2, <1>3, <1>4, <1>5, ZenonT(40) DEF Changes

\* One frame on top of another.
LEMMA TwoFrames ==
  ASSUME NEW f \in TkFrames, NEW g \in TkFrames
  PROVE  <<f>> \o <<g>> = <<f, g>> /\ <<>> \o <<g>> = <<g>>
<1> DEFINE s == <<f>> \o <<g>>
           u == <<f, g>>
<1>1. s \in [1..2 -> TkFrames] /\ s[1] = f /\ s[2] = g
  <2>1. s \in Seq(TkFrames) /\ Len(s) = 2 /\ s[1] = f /\ s[2] = g
    OBVIOUS
  <2>2. \A q \in Seq(TkFrames) : q \in [1..Len(q) -> TkFrames]
    OBVIOUS
  <2> QED
    BY <2>1, <2>2, Zenon
<1>2. u \in [1..2 -> TkFrames] /\ u[1] = f /\ u[2] = g
  OBVIOUS
<1> HIDE DEF s, u
<1>3. \A i \in 1..2 : s[i] = u[i]
  BY <1>1, <1>2
<1>4. s = u
  BY <1>1, <1>2, <1>3
<1>5. <<>> \o <<g>> = <<g>>
  OBVIOUS
<1> QED
  BY <1>4, <1>5, Zenon DEF s, u

\* The fields of a frame.
LEMMA FrameFields ==
  /\ \A op \in TkOps, x \in TkTasks :
       /\ TkFrame(op, x) \in TkFrames
       /\ TkFrame(op, x).op = op /\ TkFrame(op, x).x = x
       /\ TkFrame(op, x).jobs = {} /\ TkFrame(op, x).procs = {}
  /\ \A j \in TkJobs :
       /\ KillFrame({j}, {}) \in TkFrames
       /\ KillFrame({j}, {}).op = "kill" /\ KillFrame({j}, {}).x = TkNone
       /\ KillFrame({j}, {}).jobs = {j} /\ KillFrame({j}, {}).procs = {}
<1>1. ASSUME NEW op \in TkOps, NEW x \in TkTasks
      PROVE  /\ TkFrame(op, x) \in TkFrames
             /\ TkFrame(op, x).op = op /\ TkFrame(op, x).x = x
             /\ TkFrame(op, x).jobs = {} /\ TkFrame(op, x).procs = {}
  BY Zenon DEF TkFrame, TkFrames
<1>2. ASSUME NEW j \in TkJobs
      PROVE  /\ KillFrame({j}, {}) \in TkFrames
             /\ KillFrame({j}, {}).op = "kill" /\ KillFrame({j}, {}).x = TkNone
             /\ KillFrame({j}, {}).jobs = {j} /\ KillFrame({j}, {}).procs = {}
  BY Zenon DEF KillFrame, TkFrames, TkOps
<1> QED
  BY <1>1, <1>2, ZenonT(40)

\* Frames are typed, and the innermost is one of them.
LEMMA FramesTyped ==
  ASSUME tkStack \in TkStacks
  PROVE  /\ AllFrames \subseteq TkFrames
         /\ \A a \in TkActors : ~TkIdle(a) => TkTop(a) \in AllFrames
<1>1. \A a \in TkActors : tkStack[a] \in Seq(TkFrames)
  BY Zenon DEF TkStacks, TkFrameSeq
<1>2. AllFrames \subseteq TkFrames
  BY <1>1, FramesAreEntries
<1>3. ASSUME NEW a \in TkActors, ~TkIdle(a)
      PROVE  TkTop(a) \in AllFrames
  <2>1. 1 \in DOMAIN tkStack[a] /\ TkTop(a) = tkStack[a][1]
    BY <1>1, <1>3 DEF TkIdle, TkTop
  <2> QED
    BY <2>1, FramesAreEntries, ZenonT(40)
<1> QED
  BY <1>2, <1>3, Zenon

\* What Changes does to the frames of a task.
LEMMA ChangesHas ==
  ASSUME NEW a \in TkActors, NEW N, NEW M, Changes(a, N, M), NEW op, NEW x
  PROVE  /\ Has(op, x) =>
              Has(op, x)' \/ (~TkIdle(a) /\ TkTop(a).op = op /\ TkTop(a).x = x)
         /\ (\E f \in N : f.op = op /\ f.x = x) => Has(op, x)'
BY Zenon DEF Changes, Has
-----------------------------------------------------------------------------
(* The invariant holds *)

\* The invariant holds in the initial states.
LEMMA TasksInitIInv == TasksInit => TasksIInv
<1> SUFFICES ASSUME TasksInit PROVE TasksIInv
  OBVIOUS
<1> USE TkTree DEF TasksInit
<1>1. TkTypes
  BY DEF TkTypes, TkStates, TasksTypeOK, TkTasks, TkStacks, TkFrameSeq
<1>2. AllFrames = {}
  BY FramesAreEntries
<1>3. \A p \in TkProcs : ProcTrue(p)
  BY DEF ProcTrue, TkTasks
<1>4. \A j \in TkJobs : JobTrue(j)
  BY Zenon DEF JobTrue, TkTasks
<1>5. Survivors
  BY Zenon DEF Survivors, ReadyForDead, TkTasks
<1>6. Listing
  BY ZenonT(40) DEF Listing
<1>7. Once
  BY DEF Once, AtMostOne
<1> QED
  BY <1>1, <1>2, <1>3, <1>4, <1>5, <1>6, <1>7, ZenonT(40) DEF TasksIInv

\* An unchanged stack has the same frames.
LEMMA SameFrames ==
  ASSUME UNCHANGED tkStack
  PROVE  /\ AllFrames' = AllFrames
         /\ \A op, x : Has(op, x)' <=> Has(op, x)
         /\ Once => Once'
<1>1. AllFrames' = AllFrames
  BY DEF AllFrames, FramesOf
<1>2. \A op, x : Has(op, x)' <=> Has(op, x)
  BY <1>1, ZenonT(40) DEF Has
<1>3. Once => Once'
  BY DEF Once, AtMostOne
<1> QED
  BY <1>1, <1>2, <1>3, ZenonT(40)

\* A task is created only in a READY job, which no frame is about to finish.
LEMMA AddChildStep ==
  ASSUME TasksIInv, NEW c \in TkTasks, AddChild(c)
  PROVE  TasksIInv'
<1> USE TkTree
<1> DEFINE st == IF c \in TkJobs THEN "READY" ELSE "INITIAL"
<1>1. /\ tkState[c] = "NONE" /\ c # TkRoot /\ tkState[TkParent[c]] = "READY"
      /\ TkParent[c] \in TkJobs
      /\ tkState' = [tkState EXCEPT ![c] = st]
      /\ tkIn' = tkIn \cup {c} /\ tkHandles' = tkHandles \cup {c}
      /\ UNCHANGED <<tkThreads, tkDone, tkStack>>
  BY Zenon DEF AddChild, TkSet
<1>2. /\ AllFrames' = AllFrames
      /\ \A op, x : Has(op, x)' <=> Has(op, x)
      /\ Once'
  BY <1>1, SameFrames, Zenon DEF TasksIInv
<1>3. /\ TkTypes
      /\ \A f \in AllFrames : FrameTrue(f)
      /\ \A p \in TkProcs : ProcTrue(p)
      /\ \A j \in TkJobs : JobTrue(j)
      /\ Survivors /\ Listing
  BY ZenonT(40) DEF TasksIInv
<1>4. TkTypes'
  BY <1>1, <1>3 DEF TkTypes, TkStates, TasksTypeOK, TkTasks
<1>5. /\ tkState'[c] = st
      /\ \A x \in TkTasks \ {c} : tkState'[x] = tkState[x]
      /\ \A x \in TkTasks : TkExists(x) => TkExists(x)'
      /\ st = "READY" \/ st = "INITIAL"
  BY <1>1, <1>3, Zenon DEF TkTypes, TkExists
<1>6. ASSUME NEW f \in AllFrames'
      PROVE  FrameTrue(f)'
  <2>1. FrameTrue(f) /\ f \in TkFrames
    BY <1>2, <1>3, FramesTyped, ZenonT(40) DEF TkTypes
  <2>2. f.op = "die" => ChildrenOf(f.x) \cap tkIn' = {}
    BY <1>1, <2>1, ZenonT(40) DEF FrameTrue, ChildrenOf
  <2> QED
    BY <1>1, <1>5, <2>1, <2>2, ZenonT(40) DEF FrameTrue, TkTasks, TkFrames, ChildrenOf
<1>7. ASSUME NEW p \in TkProcs
      PROVE  ProcTrue(p)'
  BY <1>1, <1>2, <1>3, <1>5, ZenonT(40) DEF ProcTrue, TkTasks, TkExists
<1>8. ASSUME NEW j \in TkJobs
      PROVE  JobTrue(j)'
  BY <1>1, <1>3, <1>5 DEF JobTrue, TkTasks, ChildrenOf
<1>9. Survivors'
  <2>1. \A p \in TkProcs : TkParent[p] \in TkJobs
    BY ZenonT(40) DEF TkTasks
  <2>2. \A j \in TkJobs : ReadyForDead(j, tkState'[j], tkIn') =>
          ReadyForDead(j, tkState[j], tkIn)
    BY <1>1, <1>5, ZenonT(40) DEF ReadyForDead, TkTasks, ChildrenOf
  <2> QED
    BY <1>1, <1>2, <1>3, <1>5, <2>1, <2>2, ZenonT(40) DEF Survivors, TkTasks
<1>10. Listing'
  BY <1>1, <1>2, <1>3, <1>5, ZenonT(40) DEF Listing, TkExists, TkTypes, TasksTypeOK
<1> QED
  BY <1>2, <1>4, <1>6, <1>7, <1>8, <1>9, <1>10, ZenonT(40) DEF TasksIInv

\* The first thread of a process starts it.
LEMMA AddInitializedThreadStep ==
  ASSUME TasksIInv, NEW p \in TkProcs, AddInitializedThread(p)
  PROVE  TasksIInv'
<1> USE TkTree
<1>1. /\ tkState[p] \in {"INITIAL", "RUNNING"} /\ tkThreads[p] < MaxTkThreads
      /\ tkThreads' = [tkThreads EXCEPT ![p] = @ + 1]
      /\ tkState' = [tkState EXCEPT ![p] = "RUNNING"]
      /\ UNCHANGED <<tkIn, tkHandles, tkDone, tkStack>>
  BY Zenon DEF AddInitializedThread, TkSet
<1>2. /\ AllFrames' = AllFrames
      /\ \A op, x : Has(op, x)' <=> Has(op, x)
      /\ Once'
  BY <1>1, SameFrames, ZenonT(40) DEF TasksIInv
<1>3. /\ TkTypes
      /\ \A f \in AllFrames : FrameTrue(f)
      /\ \A q \in TkProcs : ProcTrue(q)
      /\ \A j \in TkJobs : JobTrue(j)
      /\ Survivors /\ Listing
  BY ZenonT(40) DEF TasksIInv
<1>4. TkTypes'
  BY <1>1, <1>3 DEF TkTypes, TkStates, TasksTypeOK, TkTasks
<1>5. /\ tkState'[p] = "RUNNING"
      /\ \A x \in TkTasks \ {p} : tkState'[x] = tkState[x]
      /\ \A x \in TkTasks : TkExists(x) => TkExists(x)'
      /\ \A j \in TkJobs : j # p
  BY <1>1, <1>3, Zenon DEF TkTypes, TkExists, TkTasks
<1>6. ASSUME NEW f \in AllFrames'
      PROVE  FrameTrue(f)'
  <2>1. FrameTrue(f) /\ f \in TkFrames
    BY <1>2, <1>3, FramesTyped, ZenonT(40) DEF TkTypes
  <2> QED
    BY <1>1, <1>5, <2>1, ZenonT(40) DEF FrameTrue, TkTasks, TkFrames, ChildrenOf
<1>7. ASSUME NEW q \in TkProcs
      PROVE  ProcTrue(q)'
  <2>1. q # p => tkThreads'[q] = tkThreads[q]
    BY <1>1, <1>3, ZenonT(40) DEF TkTypes, TasksTypeOK
  <2> QED
    BY <1>1, <1>2, <1>3, <1>5, <2>1, ZenonT(40) DEF ProcTrue, TkTasks, TkExists
<1>8. ASSUME NEW j \in TkJobs
      PROVE  JobTrue(j)'
  BY <1>1, <1>3, <1>5, ZenonT(40) DEF JobTrue, TkTasks, ChildrenOf
<1>9. Survivors'
  <2>1. \A q \in TkProcs : TkParent[q] \in TkJobs
    BY ZenonT(40) DEF TkTasks
  <2> QED
    BY <1>1, <1>2, <1>3, <1>5, <2>1, ZenonT(40)
    DEF Survivors, TkTasks, ReadyForDead, ChildrenOf
<1>10. Listing'
  BY <1>1, <1>2, <1>3, <1>5, ZenonT(40) DEF Listing, TkTypes, TasksTypeOK
<1> QED
  BY <1>2, <1>4, <1>6, <1>7, <1>8, <1>9, <1>10, Zenon DEF TasksIInv

\* A listed task gets a handle again: it exists.
LEMMA ObjectGetChildStep ==
  ASSUME TasksIInv, NEW c \in TkTasks, ObjectGetChild(c)
  PROVE  TasksIInv'
<1>1. /\ TkExists(c) /\ tkHandles' = tkHandles \cup {c}
      /\ UNCHANGED <<tkState, tkIn, tkThreads, tkDone, tkStack>>
  BY Zenon DEF ObjectGetChild
<1>2. /\ AllFrames' = AllFrames
      /\ \A op, x : Has(op, x)' <=> Has(op, x)
      /\ Once'
  BY <1>1, SameFrames, Zenon DEF TasksIInv
<1>3. TkTypes' /\ \A f \in AllFrames' : FrameTrue(f)'
  BY <1>1, <1>2, ZenonT(40) DEF TasksIInv, TkTypes, TasksTypeOK, FrameTrue, TkExists
<1>4. (\A q \in TkProcs : ProcTrue(q)') /\ \A j \in TkJobs : JobTrue(j)'
  BY <1>1, <1>2, ZenonT(40) DEF TasksIInv, ProcTrue, JobTrue, TkExists
<1>5. Survivors' /\ Listing'
  BY <1>1, <1>2, ZenonT(40) DEF TasksIInv, Survivors, Listing, TkExists
<1> QED
  BY <1>2, <1>3, <1>4, <1>5, ZenonT(40) DEF TasksIInv

\* A process begins to exit: it stays listed, for its threads to end.
LEMMA ProcessExitStep ==
  ASSUME TasksIInv, NEW p \in TkProcs, ProcessExit(p)
  PROVE  TasksIInv'
<1> USE TkTree
<1>1. /\ tkState[p] = "RUNNING" /\ tkState' = [tkState EXCEPT ![p] = "DYING"]
      /\ UNCHANGED <<tkIn, tkHandles, tkThreads, tkDone, tkStack>>
  BY Zenon DEF ProcessExit, TkSet
<1>2. /\ AllFrames' = AllFrames
      /\ \A op, x : Has(op, x)' <=> Has(op, x)
      /\ Once'
  BY <1>1, SameFrames, ZenonT(40) DEF TasksIInv
<1>3. /\ TkTypes
      /\ \A f \in AllFrames : FrameTrue(f)
      /\ \A q \in TkProcs : ProcTrue(q)
      /\ \A j \in TkJobs : JobTrue(j)
      /\ Survivors /\ Listing
  BY ZenonT(40) DEF TasksIInv
<1>4. TkTypes'
  BY <1>1, <1>3, ZenonT(40) DEF TkTypes, TkStates, TasksTypeOK, TkTasks
<1>5. /\ tkState'[p] = "DYING"
      /\ \A x \in TkTasks \ {p} : tkState'[x] = tkState[x]
      /\ \A x \in TkTasks : TkExists(x) => TkExists(x)'
      /\ \A j \in TkJobs : j # p
  BY <1>1, <1>3, ZenonT(40) DEF TkTypes, TkExists, TkTasks
<1>6. ASSUME NEW f \in AllFrames'
      PROVE  FrameTrue(f)'
  <2>1. FrameTrue(f) /\ f \in TkFrames
    BY <1>2, <1>3, FramesTyped, Zenon DEF TkTypes
  <2> QED
    BY <1>1, <1>5, <2>1, ZenonT(40) DEF FrameTrue, TkTasks, TkFrames, ChildrenOf
<1>7. ASSUME NEW q \in TkProcs
      PROVE  ProcTrue(q)'
  BY <1>1, <1>2, <1>3, <1>5, ZenonT(40) DEF ProcTrue, TkTasks, TkExists
<1>8. ASSUME NEW j \in TkJobs
      PROVE  JobTrue(j)'
  BY <1>1, <1>3, <1>5, ZenonT(40) DEF JobTrue, TkTasks, ChildrenOf
<1>9. Survivors'
  <2>1. \A q \in TkProcs : TkParent[q] \in TkJobs
    BY ZenonT(40) DEF TkTasks
  <2> QED
    BY <1>1, <1>2, <1>3, <1>5, <2>1, ZenonT(40)
    DEF Survivors, TkTasks, ReadyForDead, ChildrenOf
<1>10. Listing'
  BY <1>1, <1>2, <1>3, <1>5, ZenonT(40) DEF Listing, TkTypes, TasksTypeOK
<1> QED
  BY <1>2, <1>4, <1>6, <1>7, <1>8, <1>9, <1>10, Zenon DEF TasksIInv

\* The destruction of a process: it has left the lists, since one still
\* listed has a frame that refers to it.
LEMMA DestroyProcessStep ==
  ASSUME TasksIInv, NEW p \in TkProcs, DestroyProcess(p)
  PROVE  TasksIInv'
<1> USE TkTree
<1>1. /\ tkState[p] = "DEAD" /\ tkThreads[p] = 0 /\ p \notin tkHandles
      /\ \A f \in AllFrames : p # f.x /\ p \notin f.procs
      /\ tkState' = [tkState EXCEPT ![p] = "GONE"]
      /\ UNCHANGED <<tkIn, tkHandles, tkThreads, tkDone, tkStack>>
  BY Zenon DEF DestroyProcess, TkSet, Unreferenced, TkHeld
<1>2. /\ AllFrames' = AllFrames
      /\ \A op, x : Has(op, x)' <=> Has(op, x)
      /\ Once'
  BY <1>1, SameFrames, ZenonT(40) DEF TasksIInv
<1>3. /\ TkTypes
      /\ \A f \in AllFrames : FrameTrue(f)
      /\ \A q \in TkProcs : ProcTrue(q)
      /\ \A j \in TkJobs : JobTrue(j)
      /\ Survivors /\ Listing
  BY Zenon DEF TasksIInv
<1>4. TkTypes'
  BY <1>1, <1>3, ZenonT(40) DEF TkTypes, TkStates, TasksTypeOK, TkTasks
<1>5. /\ tkState'[p] = "GONE"
      /\ \A x \in TkTasks \ {p} : tkState'[x] = tkState[x]
      /\ \A x \in TkTasks \ {p} : TkExists(x) => TkExists(x)'
      /\ \A j \in TkJobs : j # p
  BY <1>1, <1>3, ZenonT(120) DEF TkTypes, TkExists, TkTasks
<1>6. ASSUME NEW f \in AllFrames'
      PROVE  FrameTrue(f)'
  <2>1. FrameTrue(f) /\ f \in TkFrames /\ p # f.x /\ p \notin f.procs
    BY <1>1, <1>2, <1>3, FramesTyped, Zenon DEF TkTypes
  <2> QED
    BY <1>1, <1>5, <2>1, ZenonT(40) DEF FrameTrue, TkTasks, TkFrames, ChildrenOf
<1>7. ASSUME NEW q \in TkProcs
      PROVE  ProcTrue(q)'
  BY <1>1, <1>2, <1>3, <1>5, ZenonT(40) DEF ProcTrue, TkTasks, TkExists
<1>8. ASSUME NEW j \in TkJobs
      PROVE  JobTrue(j)'
  BY <1>1, <1>3, <1>5, ZenonT(40) DEF JobTrue, TkTasks, ChildrenOf
<1>9. Survivors'
  <2>1. \A q \in TkProcs : TkParent[q] \in TkJobs
    BY Zenon DEF TkTasks
  <2> QED
    BY <1>1, <1>2, <1>3, <1>5, <2>1, ZenonT(40)
    DEF Survivors, TkTasks, ReadyForDead, ChildrenOf
<1>10. Listing'
  <2>1. p \notin tkIn
    BY <1>1, <1>3, ZenonT(40) DEF ProcTrue, Has
  <2> QED
    BY <1>1, <1>2, <1>3, <1>5, <2>1, ZenonT(40) DEF Listing, TkTypes, TasksTypeOK
<1> QED
  BY <1>2, <1>4, <1>6, <1>7, <1>8, <1>9, <1>10, Zenon DEF TasksIInv

\* A kill of a job begins or a critical process has killed its job: no state
\* changes, and the actor goes on with kill frames M for its top, which is not
\* one the invariant counts on.
LEMMA QuietStep ==
  ASSUME TasksIInv, NEW a \in TkActors, NEW M \in SUBSET TkFrames,
         Changes(a, M, {}),
         \A f \in M : f.op = "kill" /\ f.procs = {},
         ~TkIdle(a) => /\ TkTop(a).op \in {"kill", "critical"}
                       /\ TkTop(a).jobs = {} /\ TkTop(a).procs = {},
         UNCHANGED <<tkState, tkIn, tkHandles, tkThreads, tkDone>>
  PROVE  TasksIInv'
<1> USE TkTree
<1>3. /\ TkTypes
      /\ \A f \in AllFrames : FrameTrue(f)
      /\ \A q \in TkProcs : ProcTrue(q)
      /\ \A j \in TkJobs : JobTrue(j)
      /\ Survivors /\ Listing /\ Once
  BY Zenon DEF TasksIInv
<1>1. \A op, x : op \notin {"kill", "critical"} /\ Has(op, x) => Has(op, x)'
  BY ChangesHas, ZenonT(40)
<1>2. /\ AllFrames' \subseteq AllFrames \cup M
      /\ \A f \in AllFrames : f.jobs # {} \/ f.procs # {} => f \in AllFrames'
  BY Zenon DEF Changes
<1>4. TkTypes'
  BY <1>3, Zenon DEF TkTypes, TasksTypeOK, Changes
<1>6. ASSUME NEW f \in AllFrames'
      PROVE  FrameTrue(f)'
  BY <1>2, <1>3, ZenonT(40) DEF FrameTrue, TkExists
<1>7. ASSUME NEW q \in TkProcs
      PROVE  ProcTrue(q)'
  BY <1>1, <1>3, ZenonT(40) DEF ProcTrue, TkExists
<1>8. ASSUME NEW j \in TkJobs
      PROVE  JobTrue(j)'
  BY <1>3, ZenonT(40) DEF JobTrue
<1>9. Survivors'
  BY <1>1, <1>2, <1>3, ZenonT(40) DEF Survivors
<1>10. Listing'
  BY <1>1, <1>3, ZenonT(40) DEF Listing, TkExists
<1>11. Once'
  BY <1>3, Zenon DEF Once, Changes, TkOps, TkTasks
<1> QED
  BY <1>4, <1>6, <1>7, <1>8, <1>9, <1>10, <1>11, ZenonT(40) DEF TasksIInv

\* zx_task_kill on a job.
LEMMA KillJobStep ==
  ASSUME TasksIInv, NEW a \in TkActors, NEW j \in TkJobs, KillJob(a, j)
  PROVE  TasksIInv'
<1> DEFINE f == KillFrame({j}, {})
<1>1. f \in TkFrames /\ f.op = "kill" /\ f.procs = {}
  BY FrameFields, Zenon
<1>2. /\ TkIdle(a) /\ Replaces(tkStack, tkStack', a, <<f>>)
      /\ UNCHANGED <<tkState, tkIn, tkHandles, tkThreads, tkDone>>
  BY Zenon DEF KillJob, TkBegin, TkIdle, Replaces
<1>3. tkStack \in TkStacks
  BY Zenon DEF TasksIInv, TkTypes
<1> HIDE DEF f
<1>4. Changes(a, {f}, {})
  BY <1>1, <1>2, <1>3, Pushes1, ZenonT(40)
<1> QED
  BY <1>1, <1>2, <1>4, QuietStep, ZenonT(40)

\* CriticalProcessKill.
LEMMA CriticalProcessKillStep ==
  ASSUME TasksIInv, NEW a \in TkActors, CriticalProcessKill(a)
  PROVE  TasksIInv'
<1> DEFINE j == TkCritical[TkTop(a).x]
           f == KillFrame({j}, {})
<1>1. /\ ~TkIdle(a) /\ TkTop(a).op = "critical"
      /\ UNCHANGED <<tkState, tkIn, tkHandles, tkThreads, tkDone>>
      /\ (j # TkNone /\ TkGoOn(a, <<f>>)) \/ TkGoOn(a, <<>>)
  BY Zenon DEF CriticalProcessKill, TkDoing, TkTop
<1>2. tkStack \in TkStacks
  BY Zenon DEF TasksIInv, TkTypes
<1>3. FrameTrue(TkTop(a))
  BY <1>1, <1>2, FramesTyped, ZenonT(40) DEF TasksIInv
<1>4. TkTop(a).jobs = {} /\ TkTop(a).procs = {} /\ TkTop(a).x \in TkProcs
  BY <1>1, <1>3, ZenonT(40) DEF FrameTrue
<1>5. CASE j # TkNone /\ TkGoOn(a, <<f>>)
  <2>1. j \in TkJobs
    BY <1>4, <1>5, TkTree, ZenonT(40)
  <2>2. f \in TkFrames /\ f.op = "kill" /\ f.procs = {}
    BY <2>1, FrameFields, ZenonT(40)
  <2>3. Replaces(tkStack, tkStack', a, <<f>>)
    BY <1>1, <1>5, ZenonT(40) DEF TkGoOn, TkIdle, Replaces
  <2> HIDE DEF f
  <2>4. Changes(a, {f}, {})
    BY <1>2, <2>2, <2>3, Pushes1, ZenonT(40)
  <2> QED
    BY <1>1, <1>4, <2>2, <2>4, QuietStep, ZenonT(40)
<1>6. CASE TkGoOn(a, <<>>)
  <2>1. Replaces(tkStack, tkStack', a, <<>>)
    BY <1>1, <1>6, ZenonT(40) DEF TkGoOn, TkIdle, Replaces
  <2>2. Changes(a, {}, {})
    BY <1>2, <2>1, Pushes0, ZenonT(40)
  <2> QED
    BY <1>1, <1>4, <2>2, QuietStep, ZenonT(40)
<1> QED
  BY <1>1, <1>5, <1>6, ZenonT(40)

\* A process makes its dead transition, whoever ends it: the actor has M on its
\* stack in place of its kill frame, if it has one, and finishes p before it.
Dies(a, p, M) ==
  /\ TkExists(p) /\ tkState[p] # "DEAD"
  /\ Changes(a, {TkFrame("finish", p)} \cup M, M)
  /\ \A f \in M : f.op = "kill" /\ \A q \in f.procs : TkExists(q)
  /\ ~TkIdle(a) => /\ TkTop(a).op = "kill" /\ TkTop(a).jobs = {}
                   /\ \A q \in TkTop(a).procs \ {p} : \E f \in M : q \in f.procs
  /\ tkState' = [tkState EXCEPT ![p] = "DEAD"]
  /\ tkThreads' \in [TkProcs -> 0..MaxTkThreads] /\ tkThreads'[p] = 0
  /\ \A q \in TkProcs \ {p} : tkThreads'[q] = tkThreads[q]
  /\ tkHandles' \subseteq tkHandles
  /\ UNCHANGED <<tkIn, tkDone>>
LEMMA ProcessDies ==
  ASSUME TasksIInv, NEW a \in TkActors, NEW p \in TkProcs,
         NEW M \in SUBSET TkFrames, Dies(a, p, M)
  PROVE  TasksIInv'
<1> DEFINE fin == TkFrame("finish", p)
<1>1. /\ fin \in TkFrames /\ fin.op = "finish" /\ fin.x = p
      /\ fin.jobs = {} /\ fin.procs = {}
  <2>1. p \in TkTasks /\ "finish" \in TkOps
    BY Zenon DEF TkOps, TkTasks
  <2> QED
    BY <2>1, FrameFields, ZenonT(40)
<1> HIDE DEF fin
<1> USE TkTree DEF Dies
<1>2. /\ TkTypes
      /\ \A f \in AllFrames : FrameTrue(f)
      /\ \A q \in TkProcs : ProcTrue(q)
      /\ \A j \in TkJobs : JobTrue(j)
      /\ Survivors /\ Listing /\ Once
  BY Zenon DEF TasksIInv
<1>3. Changes(a, {fin} \cup M, M)
  BY Zenon DEF fin
<1>4. /\ \A op, x : op # "kill" /\ Has(op, x) => Has(op, x)'
      /\ Has("finish", p)'
  BY <1>1, <1>3, ChangesHas
<1>5. /\ AllFrames' \subseteq AllFrames \cup {fin} \cup M
      /\ \A f \in AllFrames, q \in TkProcs : q \in f.procs /\ q # p =>
           \E g \in AllFrames' : q \in g.procs
      /\ \A f \in AllFrames : f.jobs # {} => f \in AllFrames'
  BY <1>3, Zenon DEF Changes
<1>6. /\ tkState'[p] = "DEAD"
      /\ \A x \in TkTasks \ {p} : tkState'[x] = tkState[x]
      /\ \A x \in TkTasks : TkExists(x) => TkExists(x)'
      /\ \A j \in TkJobs : j # p
      /\ \A q \in TkProcs : TkParent[q] \in TkJobs
  BY <1>2, ZenonT(40) DEF TkTypes, TkExists, TkTasks
<1>7. TkTypes'
  <2>1. tkState' \in [TkTasks -> TkStates] /\ tkStack' \in TkStacks
    BY <1>2, <1>3, Zenon DEF TkTypes, TkStates, TkTasks, Changes
  <2>2. TasksTypeOK
    BY <1>2, ZenonT(40) DEF TkTypes
  <2>3. TasksTypeOK'
    BY <1>6, <2>2, ZenonT(40) DEF TasksTypeOK, TkTasks
  <2> QED
    BY <2>1, <2>3, Zenon DEF TkTypes
<1>8. p \notin tkDone /\ ~Has("finish", p)
  BY <1>2 DEF ProcTrue, TkExists, Has, FrameTrue
<1>9. ASSUME NEW f \in AllFrames'
      PROVE  FrameTrue(f)'
  <2>1. CASE f \in AllFrames
    <3>1. FrameTrue(f) /\ f \in TkFrames
      BY <1>2, <2>1, FramesTyped, Zenon DEF TkTypes
    <3> QED
      BY <1>6, <3>1, ZenonT(40) DEF FrameTrue, TkTasks, TkFrames, ChildrenOf
  <2>2. CASE f = fin
    BY <1>1, <1>6, <1>8, <2>2, ZenonT(40) DEF FrameTrue
  <2>3. CASE f \in M
    BY <1>6, <2>3, ZenonT(40) DEF FrameTrue, TkTasks, TkFrames
  <2> QED
    BY <1>5, <2>1, <2>2, <2>3, ZenonT(40)
<1>10. ASSUME NEW q \in TkProcs
       PROVE  ProcTrue(q)'
  <2>1. CASE q = p
    BY <1>4, <1>6, <1>8, <2>1, SMTT(30) DEF ProcTrue, TkExists
  <2>2. CASE q # p
    BY <1>2, <1>4, <1>6, <2>2, ZenonT(40) DEF ProcTrue, TkTasks, TkExists
  <2> QED
    BY <2>1, <2>2, ZenonT(40)
<1>11. ASSUME NEW j \in TkJobs
       PROVE  JobTrue(j)'
  BY <1>2, <1>6, ZenonT(40) DEF JobTrue, TkTasks, ChildrenOf
<1>12. Survivors'
  <2>1. ASSUME NEW q \in TkProcs, tkState'[q] \in {"INITIAL", "RUNNING"},
               tkState'[TkParent[q]] # "READY"
        PROVE  \E f \in AllFrames' : q \in f.procs
    <3>1. q # p /\ tkState'[q] = tkState[q] /\ tkState'[TkParent[q]] = tkState[TkParent[q]]
      BY <1>6, <2>1, ZenonT(40) DEF TkTasks
    <3> QED
      BY <1>2, <1>5, <2>1, <3>1, ZenonT(40) DEF Survivors
  <2>2. ASSUME NEW j \in TkJobs \ {TkRoot}, tkState'[j] = "READY",
               tkState'[TkParent[j]] # "READY"
        PROVE  \E f \in AllFrames' : j \in f.jobs
    <3>1. tkState'[j] = tkState[j] /\ tkState'[TkParent[j]] = tkState[TkParent[j]]
      BY <1>6, <2>2, ZenonT(40) DEF TkTasks
    <3> QED
      BY <1>2, <1>5, <2>2, <3>1, Zenon DEF Survivors
  <2>3. ASSUME NEW j \in TkJobs, ReadyForDead(j, tkState'[j], tkIn')
        PROVE  Has("die", j)'
    <3>1. ReadyForDead(j, tkState[j], tkIn)
      BY <1>6, <2>3, ZenonT(40) DEF ReadyForDead, TkTasks
    <3> QED
      BY <1>2, <1>4, <3>1, Zenon DEF Survivors
  <2> QED
    BY <2>1, <2>2, <2>3, Zenon DEF Survivors
<1>13. Listing'
  BY <1>2, <1>4, <1>6, ZenonT(40) DEF Listing, TkTypes, TasksTypeOK
<1>14. Once'
  <2>1. ASSUME NEW q \in TkProcs
        PROVE  AtMostOne(tkStack', "finish", q)
    BY <1>1, <1>2, <1>3, <1>8, ZenonT(120) DEF Once, Changes, TkOps, TkTasks
  <2>2. ASSUME NEW j \in TkJobs
        PROVE  AtMostOne(tkStack', "die", j)
    BY <1>1, <1>2, <1>3, ZenonT(120) DEF Once, Changes, TkOps, TkTasks
  <2> QED
    BY <2>1, <2>2, Zenon DEF Once
<1> QED
  BY <1>7, <1>9, <1>10, <1>11, <1>12, <1>13, <1>14, ZenonT(40) DEF TasksIInv

\* A kill finds a process DEAD or leaves it DYING for its threads to end, or
\* has nothing left to kill (P is empty).
Marks(a, P, M) ==
  /\ Changes(a, M, {})
  /\ \A f \in M : f.op = "kill" /\ \A q \in f.procs : TkExists(q)
  /\ ~TkIdle(a) => /\ TkTop(a).op = "kill" /\ TkTop(a).jobs = {}
                   /\ \A q \in TkTop(a).procs \ P : \E f \in M : q \in f.procs
  /\ tkState' \in [TkTasks -> TkStates]
  /\ \A x \in TkTasks \ P : tkState'[x] = tkState[x]
  /\ \A p \in P : \/ tkState[p] = "DEAD" /\ tkState'[p] = "DEAD"
                  \/ /\ TkExists(p) /\ tkState[p] # "DEAD"
                     /\ tkThreads[p] > 0 /\ tkState'[p] = "DYING"
  /\ UNCHANGED <<tkIn, tkHandles, tkThreads, tkDone>>
LEMMA ProcessMarked ==
  ASSUME TasksIInv, NEW a \in TkActors, NEW P \in SUBSET TkProcs,
         NEW M \in SUBSET TkFrames, Marks(a, P, M)
  PROVE  TasksIInv'
<1> USE TkTree DEF Marks
<1>2. /\ TkTypes
      /\ \A f \in AllFrames : FrameTrue(f)
      /\ \A q \in TkProcs : ProcTrue(q)
      /\ \A j \in TkJobs : JobTrue(j)
      /\ Survivors /\ Listing /\ Once
  BY Zenon DEF TasksIInv
<1>4. \A op, x : op # "kill" /\ Has(op, x) => Has(op, x)'
  BY ChangesHas, ZenonT(40)
<1>5. /\ AllFrames' \subseteq AllFrames \cup M
      /\ \A f \in AllFrames, q \in TkProcs \ P : q \in f.procs =>
           \E g \in AllFrames' : q \in g.procs
      /\ \A f \in AllFrames : f.jobs # {} => f \in AllFrames'
  BY Zenon DEF Changes
<1>6. /\ \A x \in TkTasks : TkExists(x) => TkExists(x)'
      /\ \A j \in TkJobs : j \notin P /\ tkState'[j] = tkState[j]
      /\ \A q \in TkProcs : TkParent[q] \in TkJobs
      /\ \A q \in TkProcs : tkState[q] \in {"DEAD", "GONE"} => tkState'[q] = tkState[q]
      /\ \A q \in TkProcs : tkState'[q] \in {"NONE", "INITIAL", "RUNNING", "DEAD", "GONE"}
                            => tkState'[q] = tkState[q]
  BY <1>2, ZenonT(40) DEF TkTypes, TkExists, TkTasks
<1>7. TkTypes'
  BY <1>2, <1>6, ZenonT(40) DEF TkTypes, TkStates, TasksTypeOK, TkTasks, Changes
<1>9. ASSUME NEW f \in AllFrames'
      PROVE  FrameTrue(f)'
  <2>1. CASE f \in AllFrames
    <3>1. FrameTrue(f) /\ f \in TkFrames
      BY <1>2, <2>1, FramesTyped, Zenon DEF TkTypes
    <3> QED
      BY <1>6, <3>1, ZenonT(40) DEF FrameTrue, TkTasks, TkFrames, ChildrenOf
  <2>3. CASE f \in M
    BY <1>6, <2>3, ZenonT(40) DEF FrameTrue, TkTasks, TkFrames
  <2> QED
    BY <1>5, <2>1, <2>3, ZenonT(40)
<1>10. ASSUME NEW q \in TkProcs
       PROVE  ProcTrue(q)'
  <2>1. CASE q \in P
    BY <1>2, <1>4, <1>6, <2>1, ZenonT(40) DEF ProcTrue, TkTasks, TkExists
  <2>2. CASE q \notin P
    BY <1>2, <1>4, <1>6, <2>2, ZenonT(40) DEF ProcTrue, TkTasks, TkExists
  <2> QED
    BY <2>1, <2>2, ZenonT(40)
<1>11. ASSUME NEW j \in TkJobs
       PROVE  JobTrue(j)'
  BY <1>2, <1>6, ZenonT(40) DEF JobTrue, TkTasks, ChildrenOf
<1>12. Survivors'
  <2>1. \A q \in TkProcs : tkState'[q] \in {"INITIAL", "RUNNING"} =>
          q \notin P /\ tkState[q] \in {"INITIAL", "RUNNING"}
    BY <1>6, Zenon
  <2> QED
    BY <1>2, <1>4, <1>5, <1>6, <2>1, ZenonT(40)
    DEF Survivors, TkTasks, ReadyForDead, ChildrenOf
<1>13. Listing'
  BY <1>2, <1>4, <1>6, ZenonT(40) DEF Listing, TkTypes, TasksTypeOK
<1>14. Once'
  BY <1>2, ZenonT(40) DEF Once, Changes, TkOps, TkTasks
<1> QED
  BY <1>7, <1>9, <1>10, <1>11, <1>12, <1>13, <1>14, Zenon DEF TasksIInv

\* A thread leaves its process, the last one ending it.
LEMMA RemoveThreadStep ==
  ASSUME TasksIInv, NEW a \in TkActors, NEW p \in TkProcs, RemoveThread(a, p)
  PROVE  TasksIInv'
<1> DEFINE fin == TkFrame("finish", p)
<1>1. /\ tkThreads[p] > 0 /\ tkThreads' = [tkThreads EXCEPT ![p] = @ - 1]
      /\ UNCHANGED <<tkIn, tkHandles, tkDone>> /\ TkIdle(a)
  BY Zenon DEF RemoveThread, TkBegin
<1>2. TkTypes /\ tkStack \in TkStacks /\ ProcTrue(p)
  BY ZenonT(40) DEF TasksIInv, TkTypes
<1>3. /\ tkThreads' \in [TkProcs -> 0..MaxTkThreads]
      /\ tkThreads'[p] = tkThreads[p] - 1
      /\ \A q \in TkProcs \ {p} : tkThreads'[q] = tkThreads[q]
  BY <1>1, <1>2, TkTree, SMTT(30) DEF TkTypes, TasksTypeOK
<1>4. TkExists(p) /\ tkState[p] # "DEAD"
  BY <1>1, <1>2, ZenonT(40) DEF ProcTrue, TkExists
<1>5. CASE tkThreads[p] = 1
  <2>1. tkState' = [tkState EXCEPT ![p] = "DEAD"] /\ Replaces(tkStack, tkStack', a, <<fin>>)
    BY <1>1, <1>5 DEF RemoveThread, TkBegin, TkIdle, TkSet, Replaces
  <2>2. fin \in TkFrames
    BY FrameFields, ZenonT(40) DEF TkOps, TkTasks
  <2> HIDE DEF fin
  <2>3. Changes(a, {fin}, {})
    BY <1>2, <2>1, <2>2, Pushes1, ZenonT(40)
  <2>4. {fin} \cup {} = {fin} /\ {} \in SUBSET TkFrames
    OBVIOUS
  <2>5. Changes(a, {TkFrame("finish", p)} \cup {}, {})
    BY <2>3, <2>4, ZenonT(40) DEF fin
  <2>6. Dies(a, p, {})
    BY <1>1, <1>3, <1>4, <1>5, <2>1, <2>5, SMTT(30) DEF Dies
  <2> QED
    BY <2>4, <2>6, ProcessDies, ZenonT(40)
<1>6. CASE tkThreads[p] > 1
  <2>1. UNCHANGED <<tkState, tkStack>>
    BY <1>6, SMTT(30) DEF RemoveThread
  <2>2. /\ AllFrames' = AllFrames
        /\ \A op, x : Has(op, x)' <=> Has(op, x)
        /\ Once'
    BY <2>1, SameFrames, ZenonT(40) DEF TasksIInv
  <2>3. TkTypes'
    BY <1>1, <1>2, <1>3, <2>1, ZenonT(40) DEF TkTypes, TasksTypeOK
  <2>4. \A f \in AllFrames' : FrameTrue(f)'
    BY <1>1, <2>1, <2>2, ZenonT(40) DEF TasksIInv, FrameTrue, TkExists
  <2>5. \A q \in TkProcs : ProcTrue(q)'
    BY <1>1, <1>3, <1>2, <2>1, <2>2, ZenonT(40) DEF TasksIInv, ProcTrue, TkExists
  <2>6. \A j \in TkJobs : JobTrue(j)'
    BY <1>1, <2>1, ZenonT(40) DEF TasksIInv, JobTrue
  <2>7. Survivors' /\ Listing'
    BY <1>1, <2>1, <2>2, ZenonT(40) DEF TasksIInv, Survivors, Listing, TkExists
  <2> QED
    BY <2>2, <2>3, <2>4, <2>5, <2>6, <2>7, ZenonT(40) DEF TasksIInv
<1> QED
  BY <1>1, <1>2, <1>5, <1>6, TkTree, SMTT(30) DEF TkTypes, TasksTypeOK

\* zx_task_kill on a process.
LEMMA KillProcessStep ==
  ASSUME TasksIInv, NEW a \in TkActors, NEW p \in TkProcs, KillProcess(a, p)
  PROVE  TasksIInv'
<1> DEFINE fin == TkFrame("finish", p)
<1>1. /\ p \in tkHandles /\ TkIdle(a)
      /\ UNCHANGED <<tkIn, tkHandles, tkThreads, tkDone>>
      /\ \/ tkState[p] = "DEAD" /\ TkBegin(a, <<>>) /\ UNCHANGED tkState
         \/ /\ tkState[p] # "DEAD" /\ tkThreads[p] = 0
            /\ TkSet(p, "DEAD") /\ TkBegin(a, <<fin>> \o <<>>)
         \/ /\ tkState[p] # "DEAD" /\ tkThreads[p] > 0
            /\ TkSet(p, "DYING") /\ TkBegin(a, <<>>)
  BY Zenon DEF KillProcess, KillProcessLocked, TkBegin, TkNextFrames
<1>2. TkTypes /\ tkStack \in TkStacks /\ ProcTrue(p)
  BY Zenon DEF TasksIInv, TkTypes
<1>3. TkExists(p)
  BY <1>1, <1>2, ZenonT(40) DEF ProcTrue
<1>4. tkThreads \in [TkProcs -> 0..MaxTkThreads] /\ tkState \in [TkTasks -> TkStates]
  BY <1>2, ZenonT(40) DEF TkTypes, TasksTypeOK
<1>5. ASSUME TkBegin(a, <<>>)
      PROVE  Changes(a, {}, {})
  <2>1. Replaces(tkStack, tkStack', a, <<>>)
    BY <1>5, Zenon DEF TkBegin, TkIdle, Replaces
  <2> QED
    BY <1>2, <2>1, Pushes0, ZenonT(40)
<1>6. {} \in SUBSET TkFrames /\ {p} \in SUBSET TkProcs
  OBVIOUS
<1>7. CASE tkState[p] = "DEAD" /\ TkBegin(a, <<>>) /\ UNCHANGED tkState
  <2>1. Marks(a, {p}, {})
    BY <1>1, <1>4, <1>5, <1>7, ZenonT(40) DEF Marks
  <2> QED
    BY <1>6, <2>1, ProcessMarked, ZenonT(40)
<1>8. CASE /\ tkState[p] # "DEAD" /\ tkThreads[p] = 0
           /\ TkSet(p, "DEAD") /\ TkBegin(a, <<fin>> \o <<>>)
  <2>1. tkState' = [tkState EXCEPT ![p] = "DEAD"]
    BY <1>8, ZenonT(40) DEF TkSet
  <2>2. fin \in TkFrames
    BY FrameFields, Zenon DEF TkOps, TkTasks
  <2> HIDE DEF fin
  <2>3. <<fin>> \o <<>> = <<fin>>
    BY <2>2
  <2>4. Replaces(tkStack, tkStack', a, <<fin>>)
    BY <1>8, <2>3, ZenonT(40) DEF TkBegin, TkIdle, Replaces
  <2>5. Changes(a, {fin}, {})
    BY <1>2, <2>2, <2>4, Pushes1, ZenonT(40)
  <2>6. {fin} \cup {} = {fin}
    OBVIOUS
  <2>7. Changes(a, {TkFrame("finish", p)} \cup {}, {})
    BY <2>5, <2>6, ZenonT(40) DEF fin
  <2>8. /\ tkThreads' \in [TkProcs -> 0..MaxTkThreads] /\ tkThreads'[p] = 0
        /\ \A q \in TkProcs \ {p} : tkThreads'[q] = tkThreads[q]
        /\ tkHandles' \subseteq tkHandles
    BY <1>1, <1>4, <1>8, ZenonT(40)
  <2>9. Dies(a, p, {})
    BY <1>1, <1>3, <1>8, <2>1, <2>7, <2>8, ZenonT(40) DEF Dies
  <2> QED
    BY <1>6, <2>9, ProcessDies, ZenonT(40)
<1>9. CASE /\ tkState[p] # "DEAD" /\ tkThreads[p] > 0
           /\ TkSet(p, "DYING") /\ TkBegin(a, <<>>)
  <2>1. /\ tkState' \in [TkTasks -> TkStates]
        /\ \A x \in TkTasks \ {p} : tkState'[x] = tkState[x]
        /\ tkState'[p] = "DYING"
    BY <1>4, <1>9, Zenon DEF TkSet, TkStates, TkTasks
  <2>2. Marks(a, {p}, {})
    BY <1>1, <1>3, <1>5, <1>9, <2>1, ZenonT(40) DEF Marks
  <2> QED
    BY <1>6, <2>2, ProcessMarked, Zenon
<1> QED
  BY <1>1, <1>7, <1>8, <1>9, ZenonT(40)

\* Kill goes through its list of processes.
LEMMA KillProcsStep ==
  ASSUME TasksIInv, NEW a \in TkActors, KillProcs(a)
  PROVE  TasksIInv'
<1> DEFINE top == TkTop(a)
<1>1. /\ ~TkIdle(a) /\ top.op = "kill" /\ top.jobs = {}
      /\ UNCHANGED <<tkIn, tkHandles, tkThreads, tkDone>>
  BY Zenon DEF KillProcs, TkDoing, TkTop
<1>2. /\ TkTypes /\ tkStack \in TkStacks
      /\ tkThreads \in [TkProcs -> 0..MaxTkThreads] /\ tkState \in [TkTasks -> TkStates]
  BY Zenon DEF TasksIInv, TkTypes, TasksTypeOK
<1>3. top \in TkFrames /\ FrameTrue(top)
  BY <1>1, <1>2, FramesTyped, ZenonT(40) DEF TasksIInv
<1>4. ASSUME NEW p \in top.procs,
             KillProcessLocked(a, p, <<[top EXCEPT !.procs = @ \ {p}]>>)
      PROVE  TasksIInv'
  <2> DEFINE fin == TkFrame("finish", p)
             rest == [top EXCEPT !.procs = @ \ {p}]
  <2>1. p \in TkProcs /\ TkExists(p)
    BY <1>3, Zenon DEF FrameTrue, TkFrames
  <2>2. /\ rest \in TkFrames /\ rest.op = "kill" /\ rest.procs = top.procs \ {p}
        /\ fin \in TkFrames
    BY <1>1, <1>3, <2>1, FrameFields, ZenonT(40) DEF TkFrames, TkOps, TkTasks
  <2>3. \/ tkState[p] = "DEAD" /\ TkGoOn(a, <<rest>>) /\ UNCHANGED tkState
        \/ /\ tkState[p] # "DEAD" /\ tkThreads[p] = 0
           /\ TkSet(p, "DEAD") /\ TkGoOn(a, <<fin>> \o <<rest>>)
        \/ /\ tkState[p] # "DEAD" /\ tkThreads[p] > 0
           /\ TkSet(p, "DYING") /\ TkGoOn(a, <<rest>>)
    BY <1>1, <1>4, Zenon DEF KillProcessLocked, TkNextFrames, TkBegin
  <2> HIDE DEF rest, fin
  <2>4. ASSUME TkGoOn(a, <<rest>>)
        PROVE  Changes(a, {rest}, {})
    <3>1. Replaces(tkStack, tkStack', a, <<rest>>)
      BY <1>1, <2>4, ZenonT(40) DEF TkGoOn, TkIdle, Replaces
    <3> QED
      BY <1>2, <2>2, <3>1, Pushes1, ZenonT(40)
  <2>5. /\ {rest} \in SUBSET TkFrames /\ {p} \in SUBSET TkProcs
        /\ \A f \in {rest} : f.op = "kill" /\ \A q \in f.procs : TkExists(q)
        /\ \A q \in top.procs \ {p} : \E f \in {rest} : q \in f.procs
    BY <1>3, <2>1, <2>2, ZenonT(40) DEF FrameTrue
  <2>6. CASE tkState[p] = "DEAD" /\ TkGoOn(a, <<rest>>) /\ UNCHANGED tkState
    <3>1. Changes(a, {rest}, {})
      BY <2>4, <2>6, ZenonT(40)
    <3>2. Marks(a, {p}, {rest})
      BY <1>1, <1>2, <2>5, <2>6, <3>1, ZenonT(40) DEF Marks
    <3> QED
      BY <2>5, <3>2, ProcessMarked, ZenonT(40)
  <2>7. CASE /\ tkState[p] # "DEAD" /\ tkThreads[p] = 0
             /\ TkSet(p, "DEAD") /\ TkGoOn(a, <<fin>> \o <<rest>>)
    <3>1. tkState' = [tkState EXCEPT ![p] = "DEAD"]
      BY <2>7, ZenonT(40) DEF TkSet
    <3>2. <<fin>> \o <<rest>> = <<fin, rest>>
      BY <2>2, TwoFrames, ZenonT(40)
    <3>3. Replaces(tkStack, tkStack', a, <<fin, rest>>)
      BY <1>1, <2>7, <3>2, ZenonT(40) DEF TkGoOn, TkIdle, Replaces
    <3>4. Changes(a, {fin, rest}, {rest})
      BY <1>2, <2>2, <3>3, Pushes2, ZenonT(40)
    <3>5. {fin} \cup {rest} = {fin, rest}
      OBVIOUS
    <3>6. Changes(a, {TkFrame("finish", p)} \cup {rest}, {rest})
      BY <3>4, <3>5, ZenonT(40) DEF fin
    <3>7. /\ tkThreads' \in [TkProcs -> 0..MaxTkThreads] /\ tkThreads'[p] = 0
          /\ \A q \in TkProcs \ {p} : tkThreads'[q] = tkThreads[q]
          /\ tkHandles' \subseteq tkHandles
      BY <1>1, <1>2, <2>7, ZenonT(40)
    <3>8. Dies(a, p, {rest})
      BY <1>1, <2>1, <2>5, <2>7, <3>1, <3>6, <3>7, ZenonT(40) DEF Dies
    <3> QED
      BY <2>1, <2>5, <3>8, ProcessDies, ZenonT(40)
  <2>8. CASE /\ tkState[p] # "DEAD" /\ tkThreads[p] > 0
             /\ TkSet(p, "DYING") /\ TkGoOn(a, <<rest>>)
    <3>1. Changes(a, {rest}, {})
      BY <2>4, <2>8, ZenonT(40)
    <3>2. /\ tkState' \in [TkTasks -> TkStates]
          /\ \A x \in TkTasks \ {p} : tkState'[x] = tkState[x]
          /\ tkState'[p] = "DYING"
      BY <1>2, <2>1, <2>8, ZenonT(40) DEF TkSet, TkStates, TkTasks
    <3>3. Marks(a, {p}, {rest})
      BY <1>1, <2>1, <2>5, <2>8, <3>1, <3>2, ZenonT(40) DEF Marks
    <3> QED
      BY <2>5, <3>3, ProcessMarked, Zenon
  <2> QED
    BY <2>3, <2>6, <2>7, <2>8, ZenonT(40)
<1>5. ASSUME top.procs = {}, TkGoOn(a, <<>>), UNCHANGED tkState
      PROVE  TasksIInv'
  <2>1. Replaces(tkStack, tkStack', a, <<>>)
    BY <1>1, <1>5, Zenon DEF TkGoOn, TkIdle, Replaces
  <2>2. Changes(a, {}, {})
    BY <1>2, <2>1, Pushes0, ZenonT(40)
  <2> QED
    BY <1>1, <1>5, <2>2, QuietStep, ZenonT(40)
<1> QED
  BY <1>4, <1>5, Zenon DEF KillProcs

\* The last handle of a task closes.
LEMMA CloseLastHandleStep ==
  ASSUME TasksIInv, NEW a \in TkActors, NEW x \in TkTasks, CloseLastHandle(a, x)
  PROVE  TasksIInv'
<1> DEFINE fin == TkFrame("finish", x)
<1>1. /\ TkIdle(a) /\ tkHandles' = tkHandles \ {x}
      /\ UNCHANGED <<tkIn, tkThreads, tkDone>>
  BY Zenon DEF CloseLastHandle
<1>2. /\ TkTypes /\ tkStack \in TkStacks
      /\ tkThreads \in [TkProcs -> 0..MaxTkThreads]
  BY Zenon DEF TasksIInv, TkTypes, TasksTypeOK
<1>3. CASE tkState[x] = "INITIAL"
  <2>1. tkState' = [tkState EXCEPT ![x] = "DEAD"] /\ Replaces(tkStack, tkStack', a, <<fin>>)
    BY <1>3, Zenon DEF CloseLastHandle, TkBegin, TkIdle, TkSet, Replaces
  <2>2. x \in TkProcs
    BY <1>2, <1>3, ZenonT(40) DEF TkTypes, TasksTypeOK, TkTasks
  <2>3. TkExists(x) /\ tkState[x] # "DEAD" /\ ~(tkThreads[x] > 0)
    BY <1>3, <2>2, ZenonT(40) DEF TasksIInv, ProcTrue, TkExists
  <2>4. /\ tkThreads' \in [TkProcs -> 0..MaxTkThreads] /\ tkThreads'[x] = 0
        /\ \A q \in TkProcs \ {x} : tkThreads'[q] = tkThreads[q]
        /\ tkHandles' \subseteq tkHandles
    BY <1>1, <1>2, <2>2, <2>3, TkTree, SMTT(30)
  <2>5. fin \in TkFrames
    BY FrameFields, ZenonT(40) DEF TkOps
  <2> HIDE DEF fin
  <2>6. Changes(a, {fin}, {})
    BY <1>2, <2>1, <2>5, Pushes1, ZenonT(40)
  <2>7. {fin} \cup {} = {fin} /\ {} \in SUBSET TkFrames
    OBVIOUS
  <2>8. Changes(a, {TkFrame("finish", x)} \cup {}, {})
    BY <2>6, <2>7, Zenon DEF fin
  <2>9. Dies(a, x, {})
    BY <1>1, <2>1, <2>2, <2>3, <2>4, <2>8, ZenonT(40) DEF Dies
  <2> QED
    BY <2>2, <2>7, <2>9, ProcessDies, ZenonT(40)
<1>4. CASE tkState[x] # "INITIAL"
  <2>1. UNCHANGED <<tkState, tkStack>>
    BY <1>4, Zenon DEF CloseLastHandle
  <2>2. /\ AllFrames' = AllFrames
        /\ \A op, y : Has(op, y)' <=> Has(op, y)
        /\ Once'
    BY <2>1, SameFrames, Zenon DEF TasksIInv
  <2>3. TkTypes'
    BY <1>1, <1>2, <2>1, ZenonT(40) DEF TkTypes, TasksTypeOK
  <2>4. \A f \in AllFrames' : FrameTrue(f)'
    BY <1>1, <2>1, <2>2, ZenonT(40) DEF TasksIInv, FrameTrue, TkExists
  <2>5. \A q \in TkProcs : ProcTrue(q)'
    BY <1>1, <2>1, <2>2, Zenon DEF TasksIInv, ProcTrue, TkExists
  <2>6. \A j \in TkJobs : JobTrue(j)'
    BY <1>1, <2>1, ZenonT(40) DEF TasksIInv, JobTrue
  <2>7. Survivors' /\ Listing'
    BY <1>1, <2>1, <2>2, ZenonT(40) DEF TasksIInv, Survivors, Listing, TkExists
  <2> QED
    BY <2>2, <2>3, <2>4, <2>5, <2>6, <2>7, ZenonT(40) DEF TasksIInv
<1> QED
  BY <1>3, <1>4, ZenonT(40)

\* A process leaves its job; if that was the last child of a killed job, the
\* actor finishes the job, and nobody else does.
LEMMA FinishProcessStep ==
  ASSUME TasksIInv, NEW a \in TkActors, FinishProcess(a)
  PROVE  TasksIInv'
<1> USE TkTree
<1>0. /\ ~TkIdle(a) /\ TkTop(a).op = "finish"
      /\ tkStack \in TkStacks /\ \A f \in AllFrames : FrameTrue(f)
  BY Zenon DEF FinishProcess, TkDoing, TkTop, TasksIInv, TkTypes
<1> PICK p \in TkProcs : p = TkTop(a).x
  BY <1>0, FramesTyped, ZenonT(40) DEF FrameTrue
<1> DEFINE j == TkParent[p]
           last == p \in tkIn /\ ReadyForDead(j, tkState[j], tkIn')
           die == TkFrame("die", j)
           crit == TkFrame("critical", p)
           N == IF last THEN {die, crit} ELSE {crit}
           M == IF last THEN {crit} ELSE {}
<1>1. /\ ~TkIdle(a) /\ TkTop(a).op = "finish"
      /\ tkDone' = tkDone \cup {p} /\ tkIn' = tkIn \ {p}
      /\ TkGoOn(a, (IF last THEN <<die>> ELSE <<>>) \o <<crit>>)
      /\ UNCHANGED <<tkState, tkHandles, tkThreads>>
  BY Zenon DEF FinishProcess, TkDoing, TkTop
<1>2. /\ TkTypes /\ tkStack \in TkStacks
      /\ \A f \in AllFrames : FrameTrue(f)
      /\ \A q \in TkProcs : ProcTrue(q)
      /\ \A k \in TkJobs : JobTrue(k)
      /\ Survivors /\ Listing /\ Once
  BY Zenon DEF TasksIInv, TkTypes
<1>3. /\ p \in TkProcs /\ tkState[p] = "DEAD" /\ p \notin tkDone
      /\ TkTop(a).jobs = {} /\ TkTop(a).procs = {}
  BY <1>1, <1>2, FramesTyped, ZenonT(40) DEF FrameTrue
<1>4. j \in TkJobs /\ p \in TkTasks /\ j \in TkTasks
  BY <1>3, ZenonT(40) DEF TkTasks
<1>5. /\ die \in TkFrames /\ die.op = "die" /\ die.x = j /\ die.jobs = {} /\ die.procs = {}
      /\ crit \in TkFrames /\ crit.op = "critical" /\ crit.x = p
      /\ crit.jobs = {} /\ crit.procs = {}
  BY <1>4, FrameFields, ZenonT(40) DEF TkOps
<1> HIDE DEF die, crit
<1>6. Changes(a, N, M)
  <2>1. CASE last
    <3>1. <<die>> \o <<crit>> = <<die, crit>>
      BY <1>5, TwoFrames, Zenon
    <3>2. Replaces(tkStack, tkStack', a, <<die, crit>>)
      BY <1>1, <2>1, <3>1, ZenonT(40) DEF TkGoOn, TkIdle, Replaces
    <3> QED
      BY <1>2, <1>5, <2>1, <3>2, Pushes2, Zenon
  <2>2. CASE ~last
    <3>1. <<>> \o <<crit>> = <<crit>>
      BY <1>5, TwoFrames, ZenonT(40)
    <3>2. Replaces(tkStack, tkStack', a, <<crit>>)
      BY <1>1, <2>2, <3>1, ZenonT(40) DEF TkGoOn, TkIdle, Replaces
    <3> QED
      BY <1>2, <1>5, <2>2, <3>2, Pushes1, ZenonT(40)
  <2> QED
    BY <2>1, <2>2, Zenon
<1> HIDE DEF j, last, N, M
<1>7. /\ \A op, x : Has(op, x) /\ ~(op = "finish" /\ x = p) => Has(op, x)'
      /\ last => Has("die", j)'
  <2>1. \A op, x : Has(op, x) => \/ Has(op, x)'
                                 \/ TkTop(a).op = op /\ TkTop(a).x = x
    BY <1>6, ChangesHas, ZenonT(40)
  <2>2. last => die \in AllFrames'
    BY <1>6, ZenonT(40) DEF Changes, N
  <2>3. last => Has("die", j)'
    BY <1>5, <2>2, Zenon DEF Has
  <2>4. \A op, x : Has(op, x) /\ ~(op = "finish" /\ x = p) => Has(op, x)'
    BY <1>1, <2>1, ZenonT(40)
  <2> QED
    BY <2>3, <2>4, Zenon
<1>8. /\ AllFrames' \subseteq AllFrames \cup N
      /\ \A f \in AllFrames : f.jobs # {} \/ f.procs # {} => f \in AllFrames'
  BY <1>3, <1>6, Zenon DEF Changes
<1>9. ~Has("finish", p)'
  <2>1. AtMostOne(tkStack, "finish", p) /\ TkTop(a).x = p /\ "finish" \in TkOps
    BY <1>2, <1>3, ZenonT(40) DEF Once, TkOps
  <2>2. \A f \in N : ~(f.op = "finish" /\ f.x = p)
    BY <1>5, ZenonT(40) DEF N
  <2> QED
    BY <1>1, <1>4, <1>6, <2>1, <2>2, ZenonT(40) DEF Changes
<1>10. last => tkState[j] = "KILLING" /\ ChildrenOf(j) \cap tkIn' = {} /\ ~Has("die", j)
  <2>1. last => p \in ChildrenOf(j) \cap tkIn
    BY <1>4, ZenonT(40) DEF last, ChildrenOf, j
  <2> QED
    BY <1>2, <2>1, ZenonT(40) DEF last, ReadyForDead, Has, FrameTrue
<1>11. TkTypes'
  BY <1>1, <1>2, <1>3, <1>6, ZenonT(40) DEF TkTypes, TasksTypeOK, Changes
<1>12. ASSUME NEW f \in AllFrames'
       PROVE  FrameTrue(f)'
  <2>1. CASE f \in AllFrames
    <3>1. f.op = "finish" => f.x # p
      BY <1>9, Zenon DEF Has
    <3> QED
      BY <1>1, <1>2, <2>1, <3>1, ZenonT(40) DEF FrameTrue, TkExists
  <2>2. CASE f = crit
    BY <1>3, <1>5, <2>2, ZenonT(40) DEF FrameTrue
  <2>3. CASE last /\ f = die
    BY <1>1, <1>4, <1>5, <1>10, <2>3, ZenonT(40) DEF FrameTrue
  <2> QED
    BY <1>8, <2>1, <2>2, <2>3, ZenonT(40) DEF N
<1>13. ASSUME NEW q \in TkProcs
       PROVE  ProcTrue(q)'
  BY <1>1, <1>2, <1>3, <1>7, ZenonT(40) DEF ProcTrue, TkExists
<1>14. ASSUME NEW k \in TkJobs
       PROVE  JobTrue(k)'
  BY <1>1, <1>2, <1>3, ZenonT(40) DEF JobTrue
<1>15. Survivors'
  <2>1. ASSUME NEW k \in TkJobs, ReadyForDead(k, tkState[k], tkIn')
        PROVE  Has("die", k)'
    <3>1. CASE ReadyForDead(k, tkState[k], tkIn)
      BY <1>2, <1>7, <3>1, ZenonT(40) DEF Survivors
    <3>2. CASE ~ReadyForDead(k, tkState[k], tkIn)
      <4>1. p \in tkIn /\ k = j
        BY <1>1, <2>1, <3>2, SMTT(30) DEF ReadyForDead, ChildrenOf, j
      <4> QED
        BY <1>7, <2>1, <4>1, ZenonT(40) DEF last
    <3> QED
      BY <3>1, <3>2, ZenonT(40)
  <2>2. \A k \in TkJobs : ReadyForDead(k, tkState[k], tkIn)' => Has("die", k)'
    BY <1>1, <2>1, ZenonT(40) DEF ReadyForDead
  <2> QED
    BY <1>1, <1>2, <1>8, <2>2, ZenonT(40) DEF Survivors
<1>16. Listing'
  BY <1>1, <1>2, <1>7, ZenonT(40) DEF Listing, TkExists
<1>17. Once'
  <2>1. ASSUME NEW q \in TkProcs
        PROVE  AtMostOne(tkStack', "finish", q)
    BY <1>2, <1>5, <1>6, ZenonT(40) DEF Once, Changes, TkOps, TkTasks, N
  <2>2. ASSUME NEW k \in TkJobs
        PROVE  AtMostOne(tkStack', "die", k)
    BY <1>2, <1>5, <1>6, <1>10, ZenonT(120) DEF Once, Changes, TkOps, TkTasks, N, M
  <2> QED
    BY <2>1, <2>2, ZenonT(40) DEF Once
<1> QED
  BY <1>11, <1>12, <1>13, <1>14, <1>15, <1>16, <1>17, ZenonT(40) DEF TasksIInv

\* A job leaves its parent, likewise.
LEMMA LeaveParentStep ==
  ASSUME TasksIInv, NEW a \in TkActors, LeaveParent(a)
  PROVE  TasksIInv'
<1> USE TkTree
<1>0. /\ ~TkIdle(a) /\ TkTop(a).op = "leave"
      /\ tkStack \in TkStacks /\ \A f \in AllFrames : FrameTrue(f)
  BY Zenon DEF LeaveParent, TkDoing, TkTop, TasksIInv, TkTypes
<1> PICK j \in TkJobs : j = TkTop(a).x
  BY <1>0, FramesTyped, Zenon DEF FrameTrue
<1> DEFINE up == TkParent[j]
           last == j \in tkIn /\ ReadyForDead(up, tkState[up], tkIn')
           die == TkFrame("die", up)
           N == IF last THEN {die} ELSE {}
<1>1. /\ ~TkIdle(a) /\ TkTop(a).op = "leave" /\ tkIn' = tkIn \ {j}
      /\ TkGoOn(a, IF last THEN <<die>> ELSE <<>>)
      /\ UNCHANGED <<tkState, tkHandles, tkThreads, tkDone>>
  BY Zenon DEF LeaveParent, TkDoing, TkTop
<1>2. /\ TkTypes /\ tkStack \in TkStacks
      /\ \A f \in AllFrames : FrameTrue(f)
      /\ \A q \in TkProcs : ProcTrue(q)
      /\ \A k \in TkJobs : JobTrue(k)
      /\ Survivors /\ Listing /\ Once
  BY Zenon DEF TasksIInv, TkTypes
<1>3. /\ j \in TkJobs /\ tkState[j] \in {"DEAD", "GONE"}
      /\ TkTop(a).jobs = {} /\ TkTop(a).procs = {}
  BY <1>1, <1>2, FramesTyped, Zenon DEF FrameTrue
<1>4. j \in TkTasks /\ (last => up \in TkJobs /\ up \in TkTasks)
  BY <1>2, <1>3, Zenon DEF TkTasks, TkTypes, TasksTypeOK
<1>5. last => /\ die \in TkFrames /\ die.op = "die" /\ die.x = up
              /\ die.jobs = {} /\ die.procs = {}
  BY <1>4, FrameFields, ZenonT(40) DEF TkOps
<1> HIDE DEF die
<1>6. Changes(a, N, {})
  <2>1. CASE last
    <3>1. Replaces(tkStack, tkStack', a, <<die>>)
      BY <1>1, <2>1, ZenonT(40) DEF TkGoOn, TkIdle, Replaces
    <3> QED
      BY <1>2, <1>5, <2>1, <3>1, Pushes1, ZenonT(40)
  <2>2. CASE ~last
    <3>1. Replaces(tkStack, tkStack', a, <<>>)
      BY <1>1, <2>2, ZenonT(40) DEF TkGoOn, TkIdle, Replaces
    <3> QED
      BY <1>2, <2>2, <3>1, Pushes0, ZenonT(40)
  <2> QED
    BY <2>1, <2>2, Zenon
<1> HIDE DEF up, last, N
<1>7. /\ \A op, x : Has(op, x) /\ ~(op = "leave" /\ x = j) => Has(op, x)'
      /\ last => Has("die", up)'
  <2>1. \A op, x : Has(op, x) => \/ Has(op, x)'
                                 \/ TkTop(a).op = op /\ TkTop(a).x = x
    BY <1>6, ChangesHas, ZenonT(40)
  <2>3. N \subseteq AllFrames'
    BY <1>6, ZenonT(40) DEF Changes
  <2>2. last => die \in AllFrames'
    BY <2>3, ZenonT(40) DEF N
  <2>4. last => Has("die", up)'
    BY <1>5, <2>2, Zenon DEF Has
  <2> QED
    BY <1>1, <2>1, <2>4, ZenonT(40)
<1>8. /\ AllFrames' \subseteq AllFrames \cup N
      /\ \A f \in AllFrames : f.jobs # {} \/ f.procs # {} => f \in AllFrames'
  BY <1>3, <1>6, ZenonT(40) DEF Changes
<1>10. last => tkState[up] = "KILLING" /\ ChildrenOf(up) \cap tkIn' = {} /\ ~Has("die", up)
  <2>1. last => j \in ChildrenOf(up) \cap tkIn
    BY <1>4, ZenonT(40) DEF last, ChildrenOf, up
  <2> QED
    BY <1>2, <2>1, ZenonT(40) DEF last, ReadyForDead, Has, FrameTrue
<1>11. TkTypes'
  BY <1>1, <1>2, <1>3, <1>6, ZenonT(40) DEF TkTypes, TasksTypeOK, Changes
<1>12. ASSUME NEW f \in AllFrames'
       PROVE  FrameTrue(f)'
  <2>1. CASE f \in AllFrames
    BY <1>1, <1>2, <2>1, ZenonT(40) DEF FrameTrue, TkExists
  <2>3. CASE last /\ f = die
    BY <1>1, <1>4, <1>5, <1>10, <2>3, ZenonT(40) DEF FrameTrue
  <2> QED
    BY <1>8, <2>1, <2>3, ZenonT(40) DEF N
<1>13. ASSUME NEW q \in TkProcs
       PROVE  ProcTrue(q)'
  BY <1>1, <1>2, <1>3, <1>7, ZenonT(40) DEF ProcTrue, TkExists
<1>14. ASSUME NEW k \in TkJobs
       PROVE  JobTrue(k)'
  BY <1>1, <1>2, <1>3, ZenonT(40) DEF JobTrue
<1>15. Survivors'
  <2>1. ASSUME NEW k \in TkJobs, ReadyForDead(k, tkState[k], tkIn')
        PROVE  Has("die", k)'
    <3>1. CASE ReadyForDead(k, tkState[k], tkIn)
      BY <1>2, <1>7, <3>1, ZenonT(40) DEF Survivors
    <3>2. CASE ~ReadyForDead(k, tkState[k], tkIn)
      <4>1. j \in tkIn /\ k = up
        BY <1>1, <2>1, <3>2, SMTT(30) DEF ReadyForDead, ChildrenOf, up
      <4> QED
        BY <1>7, <2>1, <4>1, ZenonT(40) DEF last
    <3> QED
      BY <3>1, <3>2, ZenonT(40)
  <2>2. \A k \in TkJobs : ReadyForDead(k, tkState[k], tkIn)' => Has("die", k)'
    BY <1>1, <2>1, Zenon DEF ReadyForDead
  <2> QED
    BY <1>1, <1>2, <1>8, <2>2, ZenonT(40) DEF Survivors
<1>16. Listing'
  BY <1>1, <1>2, <1>7, ZenonT(40) DEF Listing, TkExists
<1>17. Once'
  <2>1. ASSUME NEW q \in TkProcs
        PROVE  AtMostOne(tkStack', "finish", q)
    BY <1>2, <1>5, <1>6, ZenonT(40) DEF Once, Changes, TkOps, TkTasks, N
  <2>2. ASSUME NEW k \in TkJobs
        PROVE  AtMostOne(tkStack', "die", k)
    BY <1>2, <1>5, <1>6, <1>10, ZenonT(40) DEF Once, Changes, TkOps, TkTasks, N
  <2> QED
    BY <2>1, <2>2, ZenonT(40) DEF Once
<1> QED
  BY <1>11, <1>12, <1>13, <1>14, <1>15, <1>16, <1>17, Zenon DEF TasksIInv

\* A job without children dies.
LEMMA FinishDeadStep ==
  ASSUME TasksIInv, NEW a \in TkActors, FinishDead(a)
  PROVE  TasksIInv'
<1> USE TkTree
<1>0. /\ ~TkIdle(a) /\ TkTop(a).op = "die"
      /\ tkStack \in TkStacks /\ \A f \in AllFrames : FrameTrue(f)
  BY Zenon DEF FinishDead, TkDoing, TkTop, TasksIInv, TkTypes
<1> PICK j \in TkJobs : j = TkTop(a).x
  BY <1>0, FramesTyped, Zenon DEF FrameTrue
<1> DEFINE lv == TkFrame("leave", j)
<1>1. /\ ~TkIdle(a) /\ TkTop(a).op = "die"
      /\ tkState' = [tkState EXCEPT ![j] = "DEAD"]
      /\ TkGoOn(a, <<lv>>)
      /\ UNCHANGED <<tkIn, tkHandles, tkThreads, tkDone>>
  BY Zenon DEF FinishDead, TkDoing, TkTop, TkSet
<1>2. /\ TkTypes /\ tkStack \in TkStacks
      /\ \A f \in AllFrames : FrameTrue(f)
      /\ \A q \in TkProcs : ProcTrue(q)
      /\ \A k \in TkJobs : JobTrue(k)
      /\ Survivors /\ Listing /\ Once
  BY Zenon DEF TasksIInv, TkTypes
<1>3. /\ j \in TkJobs /\ tkState[j] = "KILLING" /\ ChildrenOf(j) \cap tkIn = {}
      /\ TkTop(a).jobs = {} /\ TkTop(a).procs = {} /\ j \in TkTasks
  BY <1>1, <1>2, FramesTyped, ZenonT(40) DEF FrameTrue, TkTasks
<1>5. /\ lv \in TkFrames /\ lv.op = "leave" /\ lv.x = j
      /\ lv.jobs = {} /\ lv.procs = {}
  BY <1>3, FrameFields, ZenonT(40) DEF TkOps
<1> HIDE DEF lv
<1>6. Changes(a, {lv}, {})
  <2>1. Replaces(tkStack, tkStack', a, <<lv>>)
    BY <1>1, Zenon DEF TkGoOn, TkIdle, Replaces
  <2> QED
    BY <1>2, <1>5, <2>1, Pushes1, Zenon
<1>7. \A op, x : Has(op, x) /\ ~(op = "die" /\ x = j) => Has(op, x)'
  BY <1>1, <1>6, ChangesHas, Zenon
<1>8. /\ AllFrames' \subseteq AllFrames \cup {lv}
      /\ \A f \in AllFrames : f.jobs # {} \/ f.procs # {} => f \in AllFrames'
  BY <1>3, <1>6, Zenon DEF Changes
<1>9. ~Has("die", j)'
  <2>1. AtMostOne(tkStack, "die", j) /\ TkTop(a).x = j /\ "die" \in TkOps
    BY <1>2, <1>3, ZenonT(40) DEF Once, TkOps
  <2>2. \A f \in {lv} : ~(f.op = "die" /\ f.x = j)
    BY <1>5, ZenonT(40)
  <2> QED
    BY <1>1, <1>3, <1>6, <2>1, <2>2, Zenon DEF Changes
<1>10. /\ tkState'[j] = "DEAD"
       /\ \A x \in TkTasks \ {j} : tkState'[x] = tkState[x]
       /\ \A x \in TkTasks : TkExists(x) => TkExists(x)'
       /\ \A q \in TkProcs : q # j /\ TkParent[q] \in TkJobs
  BY <1>1, <1>2, <1>3, ZenonT(40) DEF TkTypes, TkExists, TkTasks
<1>11. TkTypes'
  BY <1>1, <1>2, <1>3, <1>6, <1>10, ZenonT(40)
  DEF TkTypes, TasksTypeOK, Changes, TkStates, TkTasks
<1>12. ASSUME NEW f \in AllFrames'
       PROVE  FrameTrue(f)'
  <2>1. CASE f \in AllFrames
    <3>1. f.op = "die" => f.x # j
      BY <1>9, ZenonT(40) DEF Has
    <3>2. FrameTrue(f) /\ f \in TkFrames
      BY <1>2, <2>1, FramesTyped, ZenonT(40)
    <3> QED
      BY <1>1, <1>10, <3>1, <3>2, ZenonT(40) DEF FrameTrue, TkTasks, TkFrames
  <2>2. CASE f = lv
    BY <1>3, <1>5, <1>10, <2>2, ZenonT(40) DEF FrameTrue
  <2> QED
    BY <1>8, <2>1, <2>2, ZenonT(40)
<1>13. ASSUME NEW q \in TkProcs
       PROVE  ProcTrue(q)'
  BY <1>1, <1>2, <1>7, <1>10, ZenonT(40) DEF ProcTrue, TkExists, TkTasks
<1>14. ASSUME NEW k \in TkJobs
       PROVE  JobTrue(k)'
  BY <1>1, <1>2, <1>3, <1>10, ZenonT(40) DEF JobTrue, TkTasks
<1>15. Survivors'
  BY <1>1, <1>2, <1>3, <1>7, <1>8, <1>10, ZenonT(40) DEF Survivors, ReadyForDead, TkTasks
<1>16. Listing'
  BY <1>1, <1>2, <1>7, <1>10, Zenon DEF Listing, TkTypes, TasksTypeOK
<1>17. Once'
  BY <1>2, <1>5, <1>6, Zenon DEF Once, Changes, TkOps, TkTasks
<1> QED
  BY <1>11, <1>12, <1>13, <1>14, <1>15, <1>16, <1>17, Zenon DEF TasksIInv

\* The destruction of a job: nothing refers to it, so nobody is about to
\* finish it and its children are gone.
LEMMA DestroyJobStep ==
  ASSUME TasksIInv, NEW a \in TkActors, NEW j \in TkJobs, DestroyJob(a, j)
  PROVE  TasksIInv'
<1> USE TkTree
<1> DEFINE lv == TkFrame("leave", j)
<1>1. /\ TkIdle(a) /\ tkStack' = [tkStack EXCEPT ![a] = <<lv>>]
      /\ tkState' = [tkState EXCEPT ![j] = "GONE"]
      /\ UNCHANGED <<tkIn, tkHandles, tkThreads, tkDone>>
  BY Zenon DEF DestroyJob, TkBegin, TkSet
<1>2. /\ TkTypes /\ tkStack \in TkStacks
      /\ \A f \in AllFrames : FrameTrue(f)
      /\ \A q \in TkProcs : ProcTrue(q)
      /\ \A k \in TkJobs : JobTrue(k)
      /\ Survivors /\ Listing /\ Once
  BY Zenon DEF TasksIInv, TkTypes
<1>3. /\ \A f \in AllFrames : f.x # j
      /\ \A y \in ChildrenOf(j) : ~TkExists(y)
      /\ j \in TkTasks
  BY Zenon DEF DestroyJob, Unreferenced, TkHeld, TkTasks
<1>5. /\ lv \in TkFrames /\ lv.op = "leave" /\ lv.x = j
      /\ lv.jobs = {} /\ lv.procs = {}
  BY <1>3, FrameFields, ZenonT(40) DEF TkOps
<1> HIDE DEF lv
<1>6. Changes(a, {lv}, {})
  <2>1. Replaces(tkStack, tkStack', a, <<lv>>)
    BY <1>1, Zenon DEF TkIdle, Replaces
  <2> QED
    BY <1>2, <1>5, <2>1, Pushes1, ZenonT(40)
<1>7. /\ \A op, x : Has(op, x) => Has(op, x)'
      /\ Has("leave", j)'
  BY <1>1, <1>5, <1>6, ChangesHas, ZenonT(40)
<1>8. AllFrames' \subseteq AllFrames \cup {lv} /\ AllFrames \subseteq AllFrames'
  BY <1>1, <1>6, ZenonT(40) DEF Changes
<1>10. /\ tkState'[j] = "GONE"
       /\ \A x \in TkTasks \ {j} : tkState'[x] = tkState[x]
       /\ \A x \in TkTasks \ {j} : TkExists(x) => TkExists(x)'
       /\ \A q \in TkProcs : q # j /\ TkParent[q] \in TkJobs
  BY <1>1, <1>2, <1>3, ZenonT(40) DEF TkTypes, TkExists, TkTasks
<1>11. TkTypes'
  BY <1>1, <1>2, <1>3, <1>6, <1>10, ZenonT(40)
  DEF TkTypes, TasksTypeOK, Changes, TkStates, TkTasks
<1>12. ASSUME NEW f \in AllFrames'
       PROVE  FrameTrue(f)'
  <2>1. CASE f \in AllFrames
    <3>1. FrameTrue(f) /\ f \in TkFrames /\ f.x # j
      BY <1>2, <1>3, <2>1, FramesTyped, ZenonT(40)
    <3> QED
      BY <1>1, <1>10, <3>1, ZenonT(40) DEF FrameTrue, TkTasks, TkFrames
  <2>2. CASE f = lv
    BY <1>3, <1>5, <1>10, <2>2, ZenonT(40) DEF FrameTrue
  <2> QED
    BY <1>8, <2>1, <2>2, ZenonT(40)
<1>13. ASSUME NEW q \in TkProcs
       PROVE  ProcTrue(q)'
  BY <1>1, <1>2, <1>7, <1>10, ZenonT(40) DEF ProcTrue, TkExists, TkTasks
<1>14. ASSUME NEW k \in TkJobs
       PROVE  JobTrue(k)'
  BY <1>1, <1>2, <1>3, <1>10, ZenonT(40) DEF JobTrue, TkTasks
<1>15. Survivors'
  <2>1. \A x \in TkTasks : TkParent[x] = j => tkState[x] \in {"NONE", "GONE"}
    BY <1>3, ZenonT(40) DEF ChildrenOf, TkExists
  <2>2. ASSUME NEW p \in TkProcs, tkState'[p] \in {"INITIAL", "RUNNING"},
               tkState'[TkParent[p]] # "READY"
        PROVE  \E f \in AllFrames' : p \in f.procs
    <3>1. p \in TkTasks /\ TkParent[p] \in TkTasks /\ TkParent[p] # j
      BY <1>10, <2>1, <2>2, ZenonT(40) DEF TkTasks
    <3> QED
      BY <1>2, <1>8, <1>10, <2>2, <3>1, ZenonT(40) DEF Survivors
  <2>3. ASSUME NEW k \in TkJobs \ {TkRoot}, tkState'[k] = "READY",
               tkState'[TkParent[k]] # "READY"
        PROVE  \E f \in AllFrames' : k \in f.jobs
    <3>1. k \in TkTasks \ {j} /\ TkParent[k] \in TkTasks \ {j}
      BY <1>10, <2>1, <2>3, ZenonT(40) DEF TkTasks
    <3> QED
      BY <1>2, <1>8, <1>10, <2>3, <3>1, ZenonT(40) DEF Survivors
  <2>4. ASSUME NEW k \in TkJobs, ReadyForDead(k, tkState'[k], tkIn')
        PROVE  Has("die", k)'
    <3>1. ReadyForDead(k, tkState[k], tkIn)
      BY <1>1, <1>10, <2>4, ZenonT(40) DEF ReadyForDead, TkTasks
    <3> QED
      BY <1>2, <1>7, <3>1, ZenonT(40) DEF Survivors
  <2> QED
    BY <2>2, <2>3, <2>4, ZenonT(40) DEF Survivors
<1>16. Listing'
  BY <1>1, <1>2, <1>7, <1>10, ZenonT(40) DEF Listing, TkTypes, TasksTypeOK
<1>17. Once'
  BY <1>2, <1>5, <1>6, ZenonT(40) DEF Once, Changes, TkOps, TkTasks
<1> QED
  BY <1>11, <1>12, <1>13, <1>14, <1>15, <1>16, <1>17, ZenonT(40) DEF TasksIInv

\* Kill takes a job from its list; the children of one it marks are on its
\* lists before the job's lock is let go.
LEMMA MarkKillingStep ==
  ASSUME TasksIInv, NEW a \in TkActors, MarkKilling(a)
  PROVE  TasksIInv'
<1> USE TkTree
<1> DEFINE top == TkTop(a)
           rest(j) == [top EXCEPT !.jobs = @ \ {j}]
           taken(j) == {x \in ChildrenOf(j) \cap tkIn : TkExists(x)}
           more(j) == [rest(j) EXCEPT !.jobs = @ \cup (taken(j) \cap TkJobs),
                                      !.procs = @ \cup (taken(j) \cap TkProcs)]
           last(j) == ReadyForDead(j, "KILLING", tkIn)
<1>1. /\ ~TkIdle(a) /\ top.op = "kill"
      /\ UNCHANGED <<tkIn, tkHandles, tkThreads, tkDone>>
  BY Zenon DEF MarkKilling, TkDoing, TkTop
<1>2. PICK j \in top.jobs :
        \/ /\ tkState[j] = "READY"
           /\ TkSet(j, "KILLING")
           /\ TkGoOn(a, (IF last(j) THEN <<TkFrame("die", j)>> ELSE <<>>) \o <<more(j)>>)
        \/ /\ tkState[j] # "READY"
           /\ TkGoOn(a, <<rest(j)>>)
           /\ UNCHANGED tkState
  BY ZenonT(40) DEF MarkKilling
<1>3. /\ TkTypes /\ tkStack \in TkStacks
      /\ \A f \in AllFrames : FrameTrue(f)
      /\ \A q \in TkProcs : ProcTrue(q)
      /\ \A k \in TkJobs : JobTrue(k)
      /\ Survivors /\ Listing /\ Once
  BY ZenonT(40) DEF TasksIInv, TkTypes
<1>4. top \in TkFrames /\ FrameTrue(top) /\ j \in TkJobs /\ j \in TkTasks
  BY <1>1, <1>3, FramesTyped, ZenonT(40) DEF TkFrames, TkTasks
<1>5. /\ rest(j) \in TkFrames /\ rest(j).op = "kill" /\ rest(j).x = top.x
      /\ rest(j).jobs = top.jobs \ {j} /\ rest(j).procs = top.procs
  BY <1>1, <1>4, Zenon DEF TkFrames
<1>6. /\ more(j) \in TkFrames /\ more(j).op = "kill" /\ more(j).x = top.x
      /\ more(j).jobs = (top.jobs \ {j}) \cup (taken(j) \cap TkJobs)
      /\ more(j).procs = top.procs \cup (taken(j) \cap TkProcs)
  BY <1>1, <1>4, ZenonT(40) DEF TkFrames
<1>7. CASE /\ tkState[j] = "READY"
           /\ TkSet(j, "KILLING")
           /\ TkGoOn(a, (IF last(j) THEN <<TkFrame("die", j)>> ELSE <<>>) \o <<more(j)>>)
  <2> DEFINE m == more(j)
             die == TkFrame("die", j)
             N == IF last(j) THEN {die, m} ELSE {m}
             M == IF last(j) THEN {m} ELSE {}
  <2>1. /\ die \in TkFrames /\ die.op = "die" /\ die.x = j
        /\ die.jobs = {} /\ die.procs = {}
    BY <1>4, FrameFields, ZenonT(40) DEF TkOps
  <2>2. /\ m \in TkFrames /\ m.op = "kill"
        /\ m.jobs = (top.jobs \ {j}) \cup (taken(j) \cap TkJobs)
        /\ m.procs = top.procs \cup (taken(j) \cap TkProcs)
    BY <1>6, Zenon
  <2>3. TkGoOn(a, (IF last(j) THEN <<die>> ELSE <<>>) \o <<m>>)
    BY <1>7, Zenon
  <2> HIDE DEF m, die
  <2>4. Changes(a, N, M)
    <3>1. CASE last(j)
      <4>1. <<die>> \o <<m>> = <<die, m>>
        BY <2>1, <2>2, TwoFrames, ZenonT(40)
      <4>2. Replaces(tkStack, tkStack', a, <<die, m>>)
        BY <1>1, <2>3, <3>1, <4>1, ZenonT(40) DEF TkGoOn, TkIdle, Replaces
      <4> QED
        BY <1>3, <2>1, <2>2, <3>1, <4>2, Pushes2, ZenonT(40)
    <3>2. CASE ~last(j)
      <4>1. <<>> \o <<m>> = <<m>>
        BY <2>2, TwoFrames, ZenonT(40)
      <4>2. Replaces(tkStack, tkStack', a, <<m>>)
        BY <1>1, <2>3, <3>2, <4>1, ZenonT(40) DEF TkGoOn, TkIdle, Replaces
      <4> QED
        BY <1>3, <2>2, <3>2, <4>2, Pushes1, ZenonT(40)
    <3> QED
      BY <3>1, <3>2, ZenonT(40)
  <2>5. /\ \A op, x : Has(op, x) /\ op # "kill" => Has(op, x)'
        /\ last(j) => Has("die", j)'
    <3>1. \A op, x : Has(op, x) => \/ Has(op, x)'
                                   \/ TkTop(a).op = op /\ TkTop(a).x = x
      BY <2>4, ChangesHas, Zenon
    <3>2. last(j) => die \in AllFrames'
      BY <2>4, Zenon DEF Changes
    <3> QED
      BY <1>1, <2>1, <3>1, <3>2, ZenonT(40) DEF Has
  <2>6. /\ AllFrames' \subseteq AllFrames \cup N /\ m \in AllFrames'
        /\ \A f \in AllFrames : f \in AllFrames' \/ f = top
    BY <2>4, Zenon DEF Changes
  <2>7. /\ tkState'[j] = "KILLING"
        /\ \A x \in TkTasks \ {j} : tkState'[x] = tkState[x]
        /\ \A x \in TkTasks : TkExists(x) => TkExists(x)'
        /\ \A q \in TkProcs : q # j /\ TkParent[q] \in TkJobs /\ q \in TkTasks
        /\ TkJobs \subseteq TkTasks
    BY <1>3, <1>4, <1>7, ZenonT(120) DEF TkTypes, TkExists, TkTasks, TkSet
  <2>8. TkTypes'
    BY <1>1, <1>3, <1>4, <1>7, <2>4, <2>7
      , Zenon DEF TkTypes, TasksTypeOK, Changes, TkStates, TkTasks, TkSet
  <2>9. ~Has("die", j)
    BY <1>3, <1>7, Zenon DEF Has, FrameTrue
  <2>10. ASSUME NEW f \in AllFrames'
         PROVE  FrameTrue(f)'
    <3>1. CASE f \in AllFrames
      <4>1. FrameTrue(f) /\ f \in TkFrames
        BY <1>3, <3>1, FramesTyped, Zenon
      <4> QED
        BY <1>1, <1>7, <2>7, <4>1, ZenonT(40) DEF FrameTrue, TkTasks, TkFrames
    <3>2. CASE f = m
      BY <1>4, <2>2, <2>7, <3>2, Zenon DEF FrameTrue, TkFrames
    <3>3. CASE last(j) /\ f = die
      BY <1>1, <1>4, <2>1, <2>7, <3>3, ZenonT(40) DEF FrameTrue, ReadyForDead
    <3> QED
      BY <2>6, <3>1, <3>2, <3>3, Zenon
  <2>11. ASSUME NEW q \in TkProcs
         PROVE  ProcTrue(q)'
    BY <1>1, <1>3, <2>5, <2>7, ZenonT(40) DEF ProcTrue, TkExists
  <2>12. ASSUME NEW k \in TkJobs
         PROVE  JobTrue(k)'
    BY <1>1, <1>3, <1>7, <2>7, ZenonT(40) DEF JobTrue
  <2>13. Survivors'
    <3>1. ASSUME NEW p \in TkProcs, tkState'[p] \in {"INITIAL", "RUNNING"},
                 tkState'[TkParent[p]] # "READY"
          PROVE  \E f \in AllFrames' : p \in f.procs
      <4>1. tkState[p] \in {"INITIAL", "RUNNING"} /\ p \in tkIn /\ TkExists(p)
        BY <1>3, <2>7, <3>1, ZenonT(40) DEF ProcTrue, TkExists
      <4>2. CASE TkParent[p] = j
        <5>1. p \in taken(j)
          BY <2>7, <4>1, <4>2, ZenonT(40) DEF ChildrenOf
        <5> QED
          BY <2>2, <2>6, <5>1, ZenonT(40)
      <4>3. CASE TkParent[p] # j
        <5>1. \E f \in AllFrames : p \in f.procs
          BY <1>3, <2>7, <3>1, <4>1, <4>3, ZenonT(40) DEF Survivors
        <5> QED
          BY <2>2, <2>6, <5>1, ZenonT(40)
      <4> QED
        BY <4>2, <4>3, ZenonT(40)
    <3>2. ASSUME NEW k \in TkJobs \ {TkRoot}, tkState'[k] = "READY",
                 tkState'[TkParent[k]] # "READY"
          PROVE  \E f \in AllFrames' : k \in f.jobs
      <4>1. k # j /\ tkState[k] = "READY" /\ k \in tkIn /\ TkExists(k)
        BY <1>3, <2>7, <3>2, ZenonT(40) DEF JobTrue, TkExists
      <4>2. CASE TkParent[k] = j
        <5>1. k \in taken(j)
          BY <2>7, <4>1, <4>2, ZenonT(40) DEF ChildrenOf
        <5> QED
          BY <2>2, <2>6, <5>1, ZenonT(40)
      <4>3. CASE TkParent[k] # j
        <5>1. TkParent[k] \in TkTasks
          BY <2>7, ZenonT(40)
        <5>2. \E f \in AllFrames : k \in f.jobs
          BY <1>3, <2>7, <3>2, <4>1, <4>3, <5>1, ZenonT(40) DEF Survivors
        <5> QED
          BY <2>2, <2>6, <4>1, <5>2, ZenonT(40)
      <4> QED
        BY <4>2, <4>3, ZenonT(40)
    <3>3. ASSUME NEW k \in TkJobs, ReadyForDead(k, tkState'[k], tkIn')
          PROVE  Has("die", k)'
      <4>1. CASE k = j
        BY <1>1, <2>5, <2>7, <3>3, <4>1, ZenonT(40) DEF ReadyForDead
      <4>2. CASE k # j
        <5>1. ReadyForDead(k, tkState[k], tkIn)
          BY <1>1, <2>7, <3>3, <4>2, ZenonT(40) DEF ReadyForDead
        <5> QED
          BY <1>3, <2>5, <5>1, ZenonT(40) DEF Survivors
      <4> QED
        BY <4>1, <4>2, ZenonT(40)
    <3> QED
      BY <3>1, <3>2, <3>3, ZenonT(40) DEF Survivors
  <2>14. Listing'
    BY <1>1, <1>3, <2>5, <2>7, ZenonT(40) DEF Listing, TkTypes, TasksTypeOK
  <2>15. Once'
    <3>1. ASSUME NEW q \in TkProcs
          PROVE  AtMostOne(tkStack', "finish", q)
      BY <1>3, <2>1, <2>2, <2>4, ZenonT(40) DEF Once, Changes, TkOps, TkTasks
    <3>2. ASSUME NEW k \in TkJobs
          PROVE  AtMostOne(tkStack', "die", k)
      <4>1. CASE k = j
        <5>1. ~Has("die", k) /\ \A f \in M : f.op # "die"
          BY <2>2, <2>9, <4>1, ZenonT(40)
        <5> QED
          BY <2>4, <5>1, ZenonT(40) DEF Changes, TkOps, TkTasks
      <4>2. CASE k # j
        <5>1. \A f \in N : ~(f.op = "die" /\ f.x = k)
          BY <2>1, <2>2, <4>2, ZenonT(40)
        <5> QED
          BY <1>3, <2>4, <5>1, ZenonT(40) DEF Once, Changes, TkOps, TkTasks
      <4> QED
        BY <4>1, <4>2, ZenonT(40)
    <3> QED
      BY <3>1, <3>2, ZenonT(40) DEF Once
  <2> QED
    BY <2>8, <2>10, <2>11, <2>12, <2>13, <2>14, <2>15, ZenonT(40) DEF TasksIInv
<1>8. CASE /\ tkState[j] # "READY"
           /\ TkGoOn(a, <<rest(j)>>)
           /\ UNCHANGED tkState
  <2> DEFINE m == rest(j)
  <2>1. /\ m \in TkFrames /\ m.op = "kill"
        /\ m.jobs = top.jobs \ {j} /\ m.procs = top.procs
    BY <1>5, Zenon
  <2>2. TkGoOn(a, <<m>>)
    BY <1>8, ZenonT(40)
  <2> HIDE DEF m
  <2>3. Replaces(tkStack, tkStack', a, <<m>>)
    BY <1>1, <2>2, ZenonT(40) DEF TkGoOn, TkIdle, Replaces
  <2>4. Changes(a, {m}, {})
    BY <1>3, <2>1, <2>3, Pushes1, ZenonT(40)
  <2>5. \A op, x : Has(op, x) /\ op # "kill" => Has(op, x)'
    BY <1>1, <2>4, ChangesHas, ZenonT(40)
  <2>6. /\ AllFrames' \subseteq AllFrames \cup {m} /\ m \in AllFrames'
        /\ \A f \in AllFrames : f \in AllFrames' \/ f = top
    BY <2>4, ZenonT(40) DEF Changes
  <2>7. TkTypes'
    BY <1>1, <1>3, <1>8, <2>4, ZenonT(40) DEF TkTypes, TasksTypeOK, Changes
  <2>8. \A f \in AllFrames' : FrameTrue(f)'
    BY <1>1, <1>3, <1>4, <1>8, <2>1, <2>6, ZenonT(40) DEF FrameTrue, TkExists
  <2>9. \A q \in TkProcs : ProcTrue(q)'
    BY <1>1, <1>3, <1>8, <2>5, ZenonT(40) DEF ProcTrue, TkExists
  <2>10. \A k \in TkJobs : JobTrue(k)'
    BY <1>1, <1>3, <1>8, ZenonT(40) DEF JobTrue
  <2>11. Survivors'
    BY <1>1, <1>3, <1>8, <2>1, <2>5, <2>6, ZenonT(40) DEF Survivors
  <2>12. Listing'
    BY <1>1, <1>3, <1>8, <2>5, ZenonT(40) DEF Listing, TkExists
  <2>13. Once'
    BY <1>3, <2>1, <2>4, ZenonT(40) DEF Once, Changes, TkOps, TkTasks
  <2> QED
    BY <2>7, <2>8, <2>9, <2>10, <2>11, <2>12, <2>13, ZenonT(40) DEF TasksIInv
<1> QED
  BY <1>2, <1>7, <1>8, ZenonT(40)

\* Every step keeps the invariant.
LEMMA TasksNextIInv == TasksIInv /\ [TasksNext]_tkVars => TasksIInv'
<1> SUFFICES ASSUME TasksIInv, [TasksNext]_tkVars PROVE TasksIInv'
  OBVIOUS
<1>1. CASE \E x \in TkTasks : AddChild(x) \/ ObjectGetChild(x)
  BY <1>1, AddChildStep, ObjectGetChildStep, ZenonT(40)
<1>2. CASE \E p \in TkProcs :
             AddInitializedThread(p) \/ ProcessExit(p) \/ DestroyProcess(p)
  BY <1>2, AddInitializedThreadStep, ProcessExitStep, DestroyProcessStep, ZenonT(40)
<1>3. CASE \E a \in TkActors : TkStep(a)
  BY <1>3, FinishProcessStep, CriticalProcessKillStep, MarkKillingStep, KillProcsStep,
     FinishDeadStep, LeaveParentStep, ZenonT(40) DEF TkStep
<1>4. CASE \E a \in TkActors, p \in TkProcs :
             ThreadLeaves(a, p) \/ ThreadLetGo(a, p) \/ KillProcess(a, p)
  BY <1>4, RemoveThreadStep, KillProcessStep, ZenonT(40) DEF ThreadLeaves, ThreadLetGo
<1>5. CASE \E a \in TkActors, j \in TkJobs : KillJob(a, j) \/ DestroyJob(a, j)
  BY <1>5, KillJobStep, DestroyJobStep, ZenonT(40)
<1>6. CASE \E a \in TkActors, x \in TkTasks : CloseLastHandle(a, x)
  BY <1>6, CloseLastHandleStep, Zenon
<1>7. CASE (\E p \in TkProcs : ExitingCurrent(p)) \/ UNCHANGED tkVars
  <2>0. UNCHANGED <<tkState, tkIn, tkHandles, tkThreads, tkDone, tkStack>>
    BY <1>7, ZenonT(40) DEF ExitingCurrent, tkVars
  <2>1. /\ AllFrames' = AllFrames
        /\ \A op, x : Has(op, x)' <=> Has(op, x)
        /\ Once'
    BY <2>0, SameFrames, ZenonT(40) DEF TasksIInv
  <2>2. TkTypes' /\ \A f \in AllFrames' : FrameTrue(f)'
    BY <2>0, <2>1, ZenonT(40) DEF TasksIInv, TkTypes, TasksTypeOK, FrameTrue,
       TkExists
  <2>3. (\A q \in TkProcs : ProcTrue(q)') /\ \A k \in TkJobs : JobTrue(k)'
    BY <2>0, <2>1, Zenon DEF TasksIInv, ProcTrue, JobTrue, TkExists
  <2>4. Survivors' /\ Listing'
    BY <2>0, <2>1, ZenonT(40) DEF TasksIInv, Survivors, Listing, TkExists
  <2> QED
    BY <2>1, <2>2, <2>3, <2>4, ZenonT(40) DEF TasksIInv
<1> QED
  BY <1>1, <1>2, <1>3, <1>4, <1>5, <1>6, <1>7, ZenonT(40) DEF TasksNext

\* The invariant holds throughout.
THEOREM TasksInvariant == TasksSpec => []TasksIInv
BY TasksInitIInv, TasksNextIInv, PTL DEF TasksSpec

\* A process has as many threads as exit by themselves, at least: these leave
\* one by one, and the others do not leave in their place.
ExitingCounts ==
  /\ tkExiting \in [TkProcs -> Nat]
  /\ \A p \in TkProcs : tkExiting[p] <= tkThreads[p]

\* Every step keeps these counts.
LEMMA ExitingCountsStep ==
  ASSUME TasksIInv, ExitingCounts, [TasksNext]_tkVars
  PROVE  ExitingCounts'
<1>1. tkThreads \in [TkProcs -> Nat] /\ MaxTkThreads \in Nat
  <2>1. tkThreads \in [TkProcs -> 0..MaxTkThreads] /\ MaxTkThreads \in Nat
    BY TkTree, Zenon DEF TasksIInv, TkTypes, TasksTypeOK
  <2> QED
    BY <2>1, SMTT(30)
<1>2. CASE UNCHANGED <<tkThreads, tkExiting>>
  BY <1>2, ZenonT(40) DEF ExitingCounts
<1>3. CASE \E p \in TkProcs : AddInitializedThread(p)
  <2>1. PICK p \in TkProcs : AddInitializedThread(p)
    BY <1>3, Zenon
  <2>2. tkThreads' = [tkThreads EXCEPT ![p] = @ + 1] /\ UNCHANGED tkExiting
    BY <2>1, ZenonT(40) DEF AddInitializedThread
  <2> QED
    BY <1>1, <2>2, SMTT(30) DEF ExitingCounts
<1>4. CASE \E p \in TkProcs : ExitingCurrent(p)
  <2>1. PICK p \in TkProcs : ExitingCurrent(p)
    BY <1>4, Zenon
  <2>2. /\ tkExiting[p] < tkThreads[p] /\ UNCHANGED tkThreads
        /\ tkExiting' = [tkExiting EXCEPT ![p] = @ + 1]
    BY <2>1, ZenonT(40) DEF ExitingCurrent
  <2> QED
    BY <1>1, <2>2, SMTT(30) DEF ExitingCounts
<1>5. CASE \E a \in TkActors, p \in TkProcs : ThreadLeaves(a, p) \/ ThreadLetGo(a, p)
  <2>1. PICK a \in TkActors, p \in TkProcs : ThreadLeaves(a, p) \/ ThreadLetGo(a, p)
    BY <1>5, ZenonT(40)
  <2>2. /\ tkThreads[p] > 0 /\ tkThreads' = [tkThreads EXCEPT ![p] = @ - 1]
        /\ \/ tkThreads[p] > tkExiting[p] /\ UNCHANGED tkExiting
           \/ tkExiting[p] > 0 /\ tkExiting' = [tkExiting EXCEPT ![p] = @ - 1]
    BY <2>1, ZenonT(40) DEF ThreadLeaves, ThreadLetGo, RemoveThread
  <2> QED
    BY <1>1, <2>2, SMTT(30) DEF ExitingCounts
<1>6. CASE \/ \E x \in TkTasks : AddChild(x) \/ ObjectGetChild(x)
           \/ \E p \in TkProcs : ProcessExit(p) \/ DestroyProcess(p)
  BY <1>2, <1>6, ZenonT(40) DEF AddChild, ObjectGetChild, ProcessExit, DestroyProcess
<1>7. CASE \E a \in TkActors : TkStep(a)
  BY <1>2, <1>7, ZenonT(40) DEF TkStep, FinishProcess, CriticalProcessKill, MarkKilling,
     KillProcs, FinishDead, LeaveParent
<1>8. CASE \E a \in TkActors :
             \/ \E p \in TkProcs : KillProcess(a, p)
             \/ \E j \in TkJobs : KillJob(a, j) \/ DestroyJob(a, j)
             \/ \E x \in TkTasks : CloseLastHandle(a, x)
  BY <1>2, <1>8, ZenonT(40) DEF KillProcess, KillJob, DestroyJob, CloseLastHandle
<1>9. CASE UNCHANGED tkVars
  BY <1>2, <1>9, ZenonT(40) DEF tkVars
<1> QED
  BY <1>3, <1>4, <1>5, <1>6, <1>7, <1>8, <1>9, ZenonT(40) DEF TasksNext

\* The counts hold throughout.
LEMMA ExitingCountsHold == TasksSpec => []ExitingCounts
<1>1. TasksInit => ExitingCounts
  BY SMTT(30) DEF TasksInit, ExitingCounts
<1> QED
  BY <1>1, ExitingCountsStep, TasksInvariant, PTL DEF TasksSpec
-----------------------------------------------------------------------------
(* What follows from it *)

\* A task has a frame where InFrames finds one.
LEMMA HasInFrames == \A op, x : Has(op, x) <=> InFrames(op, x) # {}
<1> SUFFICES ASSUME NEW op, NEW x PROVE Has(op, x) <=> InFrames(op, x) # {}
  BY ZenonT(40)
<1>1. ASSUME Has(op, x)
      PROVE  InFrames(op, x) # {}
  <2>1. PICK f \in AllFrames : f.op = op /\ f.x = x
    BY <1>1, Zenon DEF Has
  <2>2. PICK b \in TkActors : \E i \in DOMAIN tkStack[b] : f = tkStack[b][i]
    BY FramesAreEntries, ZenonT(40)
  <2>3. PICK i \in DOMAIN tkStack[b] : f = tkStack[b][i]
    BY <2>2, ZenonT(40)
  <2>4. <<b, i>> \in TkPositions
    BY DEF TkPositions
  <2> QED
    BY <2>1, <2>3, <2>4 DEF InFrames
<1>2. ASSUME NEW ai \in InFrames(op, x)
      PROVE  Has(op, x)
  <2>1. ai[1] \in TkActors /\ ai[2] \in DOMAIN tkStack[ai[1]]
    BY <1>2 DEF InFrames, TkPositions
  <2>2. tkStack[ai[1]][ai[2]].op = op /\ tkStack[ai[1]][ai[2]].x = x
    BY <1>2, Zenon DEF InFrames
  <2> QED
    BY <2>1, <2>2, FramesAreEntries, ZenonT(40) DEF Has
<1> QED
  BY <1>1, <1>2, Zenon

\* At most one entry is a set of at most one.
LEMMA AtMostOneEntry ==
  ASSUME NEW op, NEW x, AtMostOne(tkStack, op, x)
  PROVE  AtMostOneIn(InFrames(op, x))
<1>1. ASSUME NEW u \in InFrames(op, x), NEW v \in InFrames(op, x)
      PROVE  u = v
  <2>1. /\ u[1] \in TkActors /\ u[2] \in DOMAIN tkStack[u[1]] /\ u = <<u[1], u[2]>>
        /\ tkStack[u[1]][u[2]].op = op /\ tkStack[u[1]][u[2]].x = x
    BY <1>1, SMTT(30) DEF InFrames, TkPositions
  <2>2. /\ v[1] \in TkActors /\ v[2] \in DOMAIN tkStack[v[1]] /\ v = <<v[1], v[2]>>
        /\ tkStack[v[1]][v[2]].op = op /\ tkStack[v[1]][v[2]].x = x
    BY <1>1, SMTT(30) DEF InFrames, TkPositions
  <2>3. u[1] = v[1] /\ u[2] = v[2]
    BY <2>1, <2>2, SMTT(30) DEF AtMostOne
  <2> QED
    BY <2>1, <2>2, <2>3, ZenonT(40)
<1> QED
  BY <1>1, Zenon DEF AtMostOneIn

\* job_dispatcher.cc, process_dispatcher.cc: for every tree, any number of
\* kernel threads in these functions and any number of threads per process, a
\* task dies once, a killed job leaves no child behind, the lists hold only
\* objects that exist, and a process does not end before a thread that a
\* debugger holds.
THEOREM TasksConsistentHolds == TasksSpec => []TasksConsistent
<1>1. ASSUME TasksIInv, ExitingCounts
      PROVE  TasksConsistent
  <2>1. /\ TasksTypeOK
        /\ \A f \in AllFrames : FrameTrue(f)
        /\ \A j \in TkJobs : JobTrue(j)
        /\ Survivors /\ Listing /\ Once
    BY <1>1, ZenonT(40) DEF TasksIInv, TkTypes
  <2>2. NoSurvivor
    BY <2>1, HasInFrames, ZenonT(40) DEF Survivors, NoSurvivor
  <2>3. ListedTasksExist
    BY <2>1, HasInFrames, ZenonT(40) DEF Listing, ListedTasksExist
  <2>4. ASSUME NEW p \in TkProcs
        PROVE  /\ AtMostOneIn(InFrames("finish", p))
               /\ p \in tkDone => InFrames("finish", p) = {}
    <3>1. AtMostOneIn(InFrames("finish", p))
      BY <2>1, AtMostOneEntry, ZenonT(40) DEF Once
    <3>2. p \in tkDone => ~Has("finish", p)
      BY <2>1, ZenonT(40) DEF Has, FrameTrue
    <3> QED
      BY <3>1, <3>2, HasInFrames, ZenonT(40)
  <2>5. ASSUME NEW j \in TkJobs
        PROVE  /\ AtMostOneIn(InFrames("die", j))
               /\ InFrames("die", j) # {} =>
                    tkState[j] = "KILLING" /\ ChildrenOf(j) \cap tkIn = {}
               /\ InFrames("die", j) # {} /\ j # TkRoot => tkState[TkParent[j]] # "DEAD"
    <3>1. AtMostOneIn(InFrames("die", j))
      BY <2>1, AtMostOneEntry, ZenonT(40) DEF Once
    <3>2. InFrames("die", j) # {} => tkState[j] = "KILLING" /\ ChildrenOf(j) \cap tkIn = {}
      BY <2>1, HasInFrames DEF Has, FrameTrue
    <3>3. ASSUME InFrames("die", j) # {}, j # TkRoot
          PROVE  tkState[TkParent[j]] # "DEAD"
      <4>1. j \in tkIn /\ TkParent[j] \in TkJobs /\ j \in ChildrenOf(TkParent[j])
        BY <2>1, <3>2, <3>3, TkTree, ZenonT(40) DEF JobTrue, ChildrenOf, TkTasks
      <4> QED
        BY <2>1, <4>1, ZenonT(40) DEF JobTrue
    <3> QED
      BY <3>1, <3>2, <3>3, ZenonT(40)
  <2>6. ASSUME NEW p \in TkProcs
        PROVE  /\ tkExiting[p] \in 0..tkThreads[p]
               /\ tkExiting[p] > 0 => tkState[p] \in {"RUNNING", "DYING"} /\ p \in tkIn
    <3>1. /\ tkThreads[p] \in 0..MaxTkThreads /\ MaxTkThreads \in Nat
          /\ tkExiting[p] \in Nat /\ tkExiting[p] <= tkThreads[p]
      BY <1>1, <2>1, TkTree, ZenonT(40) DEF ExitingCounts, TasksTypeOK
    <3>2. tkExiting[p] \in 0..tkThreads[p] /\ (tkExiting[p] > 0 => tkThreads[p] > 0)
      BY <3>1, SMTT(30)
    <3>3. tkThreads[p] > 0 => tkState[p] \in {"RUNNING", "DYING"} /\ p \in tkIn
      BY <1>1, Zenon DEF TasksIInv, ProcTrue
    <3> QED
      BY <3>2, <3>3, ZenonT(40)
  <2> QED
    BY <2>1, <2>2, <2>3, <2>4, <2>5, <2>6, ZenonT(40)
    DEF TasksConsistent, DeadTransitionsOnce, ExitingThreadsStay
<1> QED
  BY <1>1, TasksInvariant, ExitingCountsHold, PTL
=============================================================================
