------------------------------ MODULE Handles ------------------------------
(***************************************************************************)
(* Handles: the arena and its generations (object/handle.cc), the handle   *)
(* tables of processes with their cursors (object/handle_table.cc), the    *)
(* system calls that make, duplicate, replace and close handles            *)
(* (lib/syscalls/handle_ops.cc), and the handle count of the objects.      *)
(*                                                                         *)
(* A table's lock covers each lookup with what is done to the table, so    *)
(* that is one action.  Deleting a handle takes three more: the object's   *)
(* count goes down, the slot is freed and, at zero, the object is told.    *)
(* zx_handle_close_many and zx_handle_replace make them before they drop   *)
(* the lock, and zx_handle_close and HandleTable::Clean after: here they   *)
(* always come any time later, which also allows what the lock excludes.   *)
(* A handle taken out of a table and not deleted is in transit, in a       *)
(* channel message.  A handle's value is its slot and generation; mixing   *)
(* it with the table's secret is left out.                                 *)
(***************************************************************************)
EXTENDS Integers, Sequences, FiniteSets, SequencesExt

CONSTANTS HSlots,        \* slots of the arena
          HProcs,        \* processes
          HObjects,      \* dispatchers
          HTasks,        \* the jobs, processes and threads among them
          HGenerations,  \* generation numbers before they wrap, 2^12
          HWatched,      \* processes whose tables a cursor may go through
          MaxHAllocs     \* bound: handles made in a behaviour

VARIABLES hGen,          \* generation in base_value_ of each slot
          hObj,          \* dispatcher_ of each slot, or "none"
          hStage,        \* "free", "table", "transit", "delete", "release"
                         \* or, when it was the object's last, "last"
          hTable,        \* handles_ of each process, newest first
          hCount,        \* count_
          hDead,         \* processes whose table was cleaned
          hObjCount,     \* handle_count_ of each object
          hTelling,      \* deletions of its last handle that freed the slot
                         \* and have not yet called on_zero_handles
          hZeroed,       \* times on_zero_handles was called
          hRises,        \* history: times the count went from 0 to 1
          hCursor,       \* iter_ of a cursor of each process, "end" or "none"
          hSeen, hMust,  \* history: handles the cursor gave; those there
                         \* when it was made and not removed since
          hAllocs,       \* history: times each slot was allocated
          hIssued        \* history: values given out: process, slot,
                         \* generation, and which use of the slot it was

hArena == <<hGen, hObj, hAllocs>>
hIter == <<hCursor, hSeen, hMust>>
hTold == <<hTelling, hZeroed>>
hVars == <<hArena, hStage, hTable, hCount, hDead, hObjCount, hTold, hRises, hIter,
           hIssued>>

HandlesTypeOK ==
  /\ hGen \in [HSlots -> 0..(HGenerations - 1)]
  /\ hObj \in [HSlots -> HObjects \cup {"none"}]
  /\ hStage \in [HSlots -> {"free", "table", "transit", "delete", "release",
                          "last"}]
  /\ \A p \in HProcs : ToSet(hTable[p]) \subseteq HSlots
  /\ hCount \in [HProcs -> 0..Cardinality(HSlots)]
  /\ hDead \subseteq HProcs
  /\ hObjCount \in [HObjects -> 0..Cardinality(HSlots)]
  /\ hTelling \in [HObjects -> 0..MaxHAllocs]
  /\ hZeroed \in [HObjects -> 0..MaxHAllocs]
  /\ hRises \in [HObjects -> 0..MaxHAllocs]
  /\ hCursor \in [HProcs -> HSlots \cup {"end", "none"}]
  /\ hSeen \in [HProcs -> SUBSET HSlots] /\ hMust \in [HProcs -> SUBSET HSlots]
  /\ hAllocs \in [HSlots -> 0..MaxHAllocs]

HandlesInit ==
  /\ hGen = [s \in HSlots |-> 0] /\ hObj = [s \in HSlots |-> "none"]
  /\ hStage = [s \in HSlots |-> "free"]
  /\ hTable = [p \in HProcs |-> <<>>] /\ hCount = [p \in HProcs |-> 0]
  /\ hDead = {}
  /\ hObjCount = [o \in HObjects |-> 0] /\ hTelling = [o \in HObjects |-> 0]
  /\ hZeroed = [o \in HObjects |-> 0] /\ hRises = [o \in HObjects |-> 0]
  /\ hCursor = [p \in HProcs |-> "none"]
  /\ hSeen = [p \in HProcs |-> {}] /\ hMust = [p \in HProcs |-> {}]
  /\ hAllocs = [s \in HSlots |-> 0] /\ hIssued = {}
-----------------------------------------------------------------------------
\* GetHandleLocked of the value <<s, g>>: FromU32 compares the generation,
\* and the handle must be in this process's table.
GetHandleLocked(p, s, g) == hGen[s] = g /\ s \in ToSet(hTable[p])

\* Where s is in the list l, and what iter_++ moves on to from there.
PlaceOf(l, s) == CHOOSE i \in DOMAIN l : l[i] = s
After(l, s) == IF s = Last(l) THEN "end" ELSE l[PlaceOf(l, s) + 1]

\* HandleTableArena::Alloc of slot s for o, with its new generation.
HandleAlloc(s, o) ==
  /\ hStage[s] = "free"
  /\ MapThenSumSet(LAMBDA x : hAllocs[x], HSlots) < MaxHAllocs
  /\ hGen' = [hGen EXCEPT ![s] = (@ + 1) % HGenerations]
  /\ hAllocs' = [hAllocs EXCEPT ![s] = @ + 1]
  /\ hObj' = [hObj EXCEPT ![s] = o]
  /\ hObjCount' = [hObjCount EXCEPT ![o] = @ + 1]
  /\ hRises' = [hRises EXCEPT ![o] = IF hObjCount[o] = 0 THEN @ + 1 ELSE @]

\* The value of s, as it is after this step, becomes known to p.
HandleIssue(p, s) ==
  hIssued' = hIssued \cup
               {[proc |-> p, slot |-> s, gen |-> hGen'[s], use |-> hAllocs'[s]]}

\* RemoveHandleLocked of the handles in gone; a cursor there moves on.
HandleRemove(p, gone) ==
  LET rest == SelectSeq(hTable[p], LAMBDA s : s \notin gone)
      next[i \in 1..(Len(hTable[p]) + 1)] ==
        IF i > Len(hTable[p]) THEN "end"
        ELSE IF hTable[p][i] \in gone THEN next[i + 1] ELSE hTable[p][i]
  IN  /\ hTable' = [hTable EXCEPT ![p] = rest]
      /\ hCount' = [hCount EXCEPT ![p] = @ - Cardinality(gone)]
      /\ hCursor' = [hCursor EXCEPT ![p] =
           IF @ \in gone THEN next[PlaceOf(hTable[p], @)] ELSE @]
      /\ hMust' = [hMust EXCEPT ![p] = @ \ gone]
      /\ UNCHANGED hSeen

\* AddHandleLocked.
HandleAdd(p, s) ==
  /\ hTable' = [hTable EXCEPT ![p] = <<s>> \o @]
  /\ hCount' = [hCount EXCEPT ![p] = @ + 1]

\* MakeAndAddHandle: of a new object, its first handle; of a job, process or
\* thread that zx_object_get_child finds through its parent, another one,
\* though all the others may be closed, and on_zero_handles running.
HandleMake(p, s, o) ==
  /\ p \notin hDead
  /\ o \in HTasks \/ hRises[o] = 0
  /\ HandleAlloc(s, o) /\ HandleAdd(p, s) /\ HandleIssue(p, s)
  /\ hStage' = [hStage EXCEPT ![s] = "table"]
  /\ UNCHANGED <<hDead, hTold, hIter>>

\* zx_handle_duplicate of the value <<s, g>> into slot n.
HandleDuplicate(p, s, g, n) ==
  /\ GetHandleLocked(p, s, g)
  /\ HandleAlloc(n, hObj[s]) /\ HandleAdd(p, n) /\ HandleIssue(p, n)
  /\ hStage' = [hStage EXCEPT ![n] = "table"]
  /\ UNCHANGED <<hDead, hTold, hIter>>

\* zx_handle_replace: the copy in slot n takes the place of s.  (When no slot
\* can be allocated nothing changes.)
HandleReplace(p, s, g, n) ==
  /\ GetHandleLocked(p, s, g)
  /\ HandleAlloc(n, hObj[s]) /\ HandleIssue(p, n)
  /\ hTable' = [hTable EXCEPT ![p] = <<n>> \o SelectSeq(@, LAMBDA x : x # s)]
  /\ hCursor' = [hCursor EXCEPT ![p] =
       IF @ = s THEN After(hTable[p], s) ELSE @]
  /\ hMust' = [hMust EXCEPT ![p] = @ \ {s}]
  /\ hStage' = [hStage EXCEPT ![n] = "table", ![s] = "delete"]
  /\ UNCHANGED <<hCount, hDead, hTold, hSeen>>

\* zx_handle_close_many, and zx_handle_close of one value: those that resolve
\* go, whatever the others do.  zx_handle_replace with rights the source does
\* not have closes it likewise.
HandleClose(p, vals) ==
  LET gone == {s \in HSlots : \E v \in vals : v[1] = s /\ GetHandleLocked(p, s, v[2])}
  IN  /\ gone # {}
      /\ HandleRemove(p, gone)
      /\ hStage' = [s \in HSlots |-> IF s \in gone THEN "delete" ELSE hStage[s]]
      /\ UNCHANGED <<hArena, hDead, hObjCount, hTold, hRises, hIssued>>

\* zx_channel_write takes a handle; zx_channel_read gives it to its process;
\* a message nobody reads is destroyed with its handles.
HandleSend(p, s, g) ==
  /\ GetHandleLocked(p, s, g)
  /\ HandleRemove(p, {s})
  /\ hStage' = [hStage EXCEPT ![s] = "transit"]
  /\ UNCHANGED <<hArena, hDead, hObjCount, hTold, hRises, hIssued>>

HandleReceive(p, s) ==
  /\ p \notin hDead /\ hStage[s] = "transit"
  /\ UNCHANGED hArena
  /\ HandleAdd(p, s)
  /\ HandleIssue(p, s)
  /\ hStage' = [hStage EXCEPT ![s] = "table"]
  /\ UNCHANGED <<hDead, hObjCount, hTold, hRises, hIter>>

HandleDrop(s) ==
  /\ hStage[s] = "transit"
  /\ hStage' = [hStage EXCEPT ![s] = "delete"]
  /\ UNCHANGED <<hArena, hTable, hCount, hDead, hObjCount, hTold, hRises,
                 hIter, hIssued>>

\* Mutant: the handle before the last is taken for the last.
HandleDeleteEarly(s) ==
  LET o == hObj[s]
  IN  /\ hStage[s] = "delete"
      /\ hObjCount' = [hObjCount EXCEPT ![o] = @ - 1]
      /\ hStage' = [hStage EXCEPT ![s] = IF hObjCount'[o] = 1 THEN "last" ELSE "release"]
      /\ UNCHANGED <<hArena, hTable, hCount, hDead, hTold, hRises, hIter,
                     hIssued>>

\* HandleTableArena::Delete up to the object's count.
HandleDelete(s) ==
  LET o == hObj[s]
  IN  /\ hStage[s] = "delete"
      /\ hObjCount' = [hObjCount EXCEPT ![o] = @ - 1]
      /\ hStage' = [hStage EXCEPT ![s] =
           IF hObjCount[o] = 1 THEN "last" ELSE "release"]
      /\ UNCHANGED <<hArena, hTable, hCount, hDead, hTold, hRises, hIter,
                     hIssued>>

\* The slot goes back to the arena with its generation.
HandleFree(s) ==
  /\ hStage[s] \in {"release", "last"}
  /\ hTelling' = [hTelling EXCEPT ![hObj[s]] =
       IF hStage[s] = "last" THEN @ + 1 ELSE @]
  /\ hObj' = [hObj EXCEPT ![s] = "none"]
  /\ hStage' = [hStage EXCEPT ![s] = "free"]
  /\ UNCHANGED <<hGen, hAllocs, hTable, hCount, hDead, hObjCount, hZeroed, hRises,
                 hIter, hIssued>>

\* The object is told that its last handle is gone.
HandleTell(o) ==
  /\ hTelling[o] > 0
  /\ hTelling' = [hTelling EXCEPT ![o] = @ - 1]
  /\ hZeroed' = [hZeroed EXCEPT ![o] = @ + 1]
  /\ UNCHANGED <<hArena, hStage, hTable, hCount, hDead, hObjCount, hRises, hIter,
                 hIssued>>

\* HandleTable::Clean, when the process is dead.
HandleTableClean(p) ==
  /\ p \notin hDead
  /\ hDead' = hDead \cup {p}
  /\ hStage' = [s \in HSlots |->
       IF s \in ToSet(hTable[p]) THEN "delete" ELSE hStage[s]]
  /\ hTable' = [hTable EXCEPT ![p] = <<>>]
  /\ hCount' = [hCount EXCEPT ![p] = 0]
  /\ hCursor' = [hCursor EXCEPT ![p] = IF @ = "none" THEN @ ELSE "end"]
  /\ hMust' = [hMust EXCEPT ![p] = {}]
  /\ UNCHANGED <<hArena, hObjCount, hTold, hRises, hSeen, hIssued>>

\* ForEachHandleBatched: a cursor, and Next.
HandleCursorNew(p) ==
  /\ hCursor[p] = "none"
  /\ hCursor' = [hCursor EXCEPT ![p] =
       IF hTable[p] = <<>> THEN "end" ELSE Head(hTable[p])]
  /\ hSeen' = [hSeen EXCEPT ![p] = {}]
  /\ hMust' = [hMust EXCEPT ![p] = ToSet(hTable[p])]
  /\ UNCHANGED <<hArena, hStage, hTable, hCount, hDead, hObjCount, hTold, hRises,
                 hIssued>>

HandleCursorNext(p) ==
  /\ hCursor[p] \in HSlots
  /\ hSeen' = [hSeen EXCEPT ![p] = @ \cup {hCursor[p]}]
  /\ hCursor' = [hCursor EXCEPT ![p] = After(hTable[p], @)]
  /\ UNCHANGED <<hArena, hStage, hTable, hCount, hDead, hObjCount, hTold, hRises,
                 hMust, hIssued>>

HandleCursorEnd(p) ==
  /\ hCursor[p] = "end"
  /\ hCursor' = [hCursor EXCEPT ![p] = "none"]
  /\ hSeen' = [hSeen EXCEPT ![p] = {}]
  /\ hMust' = [hMust EXCEPT ![p] = {}]
  /\ UNCHANGED <<hArena, hStage, hTable, hCount, hDead, hObjCount, hTold, hRises,
                 hIssued>>
-----------------------------------------------------------------------------
\* Values a process may pass: those it was given, at any time.
HandleKnown(p) == {<<r.slot, r.gen>> : r \in {r \in hIssued : r.proc = p}}

HandlesNext ==
  \/ \E p \in HProcs :
       \/ \E s \in HSlots, o \in HObjects : HandleMake(p, s, o)
       \/ \E v \in HandleKnown(p) :
            \/ \E n \in HSlots : \/ HandleDuplicate(p, v[1], v[2], n)
                                 \/ HandleReplace(p, v[1], v[2], n)
            \/ HandleSend(p, v[1], v[2])
       \/ \E vals \in {{v, w} : v, w \in HandleKnown(p)} : HandleClose(p, vals)
       \/ \E s \in HSlots : HandleReceive(p, s)
       \/ HandleTableClean(p)
       \/ p \in HWatched /\ HandleCursorNew(p)
       \/ HandleCursorNext(p) \/ HandleCursorEnd(p)
  \/ \E s \in HSlots : HandleDrop(s) \/ HandleDelete(s) \/ HandleFree(s)
  \/ \E o \in HObjects : HandleTell(o)

HandlesSpec == HandlesInit /\ [][HandlesNext]_hVars
-----------------------------------------------------------------------------
\* A value a process was once given names, later, either the same handle or
\* none, until its slot has been reused as often as there are generations: a
\* stale value does not reach another object.
HandleValueNotReused ==
  \A r \in hIssued :
    GetHandleLocked(r.proc, r.slot, r.gen)
      => \/ hAllocs[r.slot] = r.use
         \/ hAllocs[r.slot] - r.use >= HGenerations

\* A handle is in one table, once, or in none; count_ counts a table.
HandleInOnePlace ==
  /\ \A p \in HProcs : /\ hCount[p] = Len(hTable[p])
                       /\ \A i, j \in DOMAIN hTable[p] :
                            hTable[p][i] = hTable[p][j] => i = j
  /\ \A s \in HSlots :
       Cardinality({p \in HProcs : s \in ToSet(hTable[p])})
         = IF hStage[s] = "table" THEN 1 ELSE 0
  /\ \A p \in hDead : hTable[p] = <<>>

\* The count is that of the handles that are not being freed, and every time
\* it has come back to zero one thread, and only one, has told the object or
\* will, whichever processes close, send, die and make new handles at the same
\* time.  So an object whose handles all come from its first is told once, and
\* only when no handle to it is left in a table or a message.
HandleZeroOnce ==
  \A o \in HObjects :
    LET left(stages) == Cardinality({s \in HSlots : hObj[s] = o /\ hStage[s] \in stages})
    IN  /\ hObjCount[o] = left({"table", "transit", "delete"})
        /\ hRises[o] = hZeroed[o] + hTelling[o] + left({"last"})
                        + IF hObjCount[o] > 0 THEN 1 ELSE 0

\* A cursor points into its table, and when it has come to the end it has
\* given every handle that was there all the time, although handles were
\* added and removed between its steps.
HandleCursorComplete ==
  \A p \in HProcs :
    /\ hCursor[p] \in HSlots => hCursor[p] \in ToSet(hTable[p])
    /\ hCursor[p] = "end" => hMust[p] \subseteq hSeen[p]
    /\ hCursor[p] \in HSlots =>
         hMust[p] \ hSeen[p] =
           {s \in hMust[p] : PlaceOf(hTable[p], s) >= PlaceOf(hTable[p], hCursor[p])}

\* Every handle is in one place, every object's count is that of its handles
\* and ends, each time, in one call of on_zero_handles, and no stale value
\* reaches another object; cursors stay valid and complete.
HandlesConsistent ==
  /\ HandlesTypeOK /\ HandleInOnePlace /\ HandleZeroOnce /\ HandleValueNotReused
  /\ HandleCursorComplete
=============================================================================
