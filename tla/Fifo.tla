-------------------------------- MODULE Fifo --------------------------------
(***************************************************************************)
(* A pair of FifoDispatchers (object/fifo_dispatcher.cc): two rings whose  *)
(* head_ and tail_ are free-running 32-bit counters, and the signals of    *)
(* the two endpoints.  A call runs under the pair's lock, so it is one     *)
(* action.  A copy from or to the user may fault in either of its two      *)
(* parts: the counter is rolled back, what was copied stays, and the call  *)
(* starts again or fails.                                                  *)
(***************************************************************************)
EXTENDS Integers, Sequences

CONSTANTS FifoEnds,      \* the two endpoints
          FifoCount,     \* elem_count_
          FifoModulus,   \* 2^32, where head_ and tail_ wrap
          FifoValues     \* elements

VARIABLES fdata,         \* data_ of each endpoint, slots 0..FifoCount-1
          fhead, ftail,  \* head_, tail_
          fsignals,      \* READABLE, WRITABLE, PEER_CLOSED of each endpoint
          fopen,         \* endpoints that have handles
          fsent          \* history: written for each endpoint, not yet read

fifoVars == <<fdata, fhead, ftail, fsignals, fopen, fsent>>

FifoPeer(e) == CHOOSE x \in FifoEnds : x # e
FifoSmaller(a, b) == IF a < b THEN a ELSE b

\* The difference of two counters, and one moved on, in 32 bits.
FifoUsed(e) == (fhead[e] - ftail[e]) % FifoModulus

FifoMoved(n, k) == (n + k) % FifoModulus
FifoSlot(n) == (n % FifoModulus) % FifoCount

FifoTypeOK ==
  /\ fdata \in [FifoEnds -> [0..(FifoCount - 1) -> FifoValues]]
  /\ fhead \in [FifoEnds -> 0..(FifoModulus - 1)]
  /\ ftail \in [FifoEnds -> 0..(FifoModulus - 1)]
  /\ fsignals \in [FifoEnds -> SUBSET {"READABLE", "WRITABLE", "PEER_CLOSED"}]
  /\ fopen \subseteq FifoEnds
  /\ fsent \in [FifoEnds -> Seq(FifoValues)]

FifoInit ==
  /\ fdata = [e \in FifoEnds |->
               [i \in 0..(FifoCount - 1) |-> CHOOSE v \in FifoValues : TRUE]]
  /\ fhead = [e \in FifoEnds |-> 0] /\ ftail = [e \in FifoEnds |-> 0]
  /\ fsignals = [e \in FifoEnds |-> {"WRITABLE"}]
  /\ fopen = FifoEnds
  /\ fsent = [e \in FifoEnds |-> <<>>]
-----------------------------------------------------------------------------

\* The copy loop of WriteSelfLocked after n of src's elements: the slot of
\* an element is computed from the counter of the part it is copied in, and
\* a part ends at the end of the ring.
CopyIn(ring, head, src, n) ==
  LET part == FifoSmaller(n, FifoCount - FifoSlot(head))   \* the first copy
      slot(i) == IF i <= part THEN FifoSlot(head) + i - 1
                 ELSE FifoSlot(head + part) + i - part - 1
  IN  [k \in 0..(FifoCount - 1) |->
         IF \E i \in 1..n : slot(i) = k
         THEN src[CHOOSE i \in 1..n : slot(i) = k] ELSE ring[k]]

\* WriteFromUser at the peer of e: WriteSelfLocked of e.
FifoWrite(e, src) ==
  LET p == FifoPeer(e)
      avail == FifoCount - FifoUsed(e)
      n == FifoSmaller(Len(src), avail)
  IN  /\ fopen = FifoEnds
      /\ avail # 0
      /\ fdata' = [fdata EXCEPT ![e] = CopyIn(@, fhead[e], src, n)]
      /\ fhead' = [fhead EXCEPT ![e] = FifoMoved(@, n)]
      /\ fsignals' = [fsignals EXCEPT
           ![e] = IF avail = FifoCount THEN @ \cup {"READABLE"} ELSE @,
           ![p] = IF n = avail THEN @ \ {"WRITABLE"} ELSE @]
      /\ fsent' = [fsent EXCEPT ![e] = @ \o SubSeq(src, 1, n)]
      /\ UNCHANGED <<ftail, fopen>>

\* The same, where the second copy faults after the first has filled slots.
FifoWriteFault(e, src) ==
  LET n == FifoSmaller(Len(src), FifoCount - FifoUsed(e))
      part == FifoCount - FifoSlot(fhead[e])
  IN  /\ fopen = FifoEnds
      /\ part < n
      /\ fdata' = [fdata EXCEPT ![e] = CopyIn(@, fhead[e], src, part)]
      /\ UNCHANGED <<fhead, ftail, fsignals, fopen, fsent>>

\* ReadToUser at e, of count elements.
FifoRead(e, count) ==
  LET p == FifoPeer(e)
      n == FifoSmaller(count, FifoUsed(e))
  IN  /\ e \in fopen
      /\ FifoUsed(e) # 0
      /\ ftail' = [ftail EXCEPT ![e] = FifoMoved(@, n)]
      /\ fsignals' = [fsignals EXCEPT
           ![p] = IF FifoUsed(e) = FifoCount /\ p \in fopen
                  THEN @ \cup {"WRITABLE"} ELSE @,
           ![e] = IF n = FifoUsed(e) THEN @ \ {"READABLE"} ELSE @]
      /\ fsent' = [fsent EXCEPT ![e] = SubSeq(@, n + 1, Len(@))]
      /\ UNCHANGED <<fdata, fhead, fopen>>

\* Mutant: closing an end leaves the peer WRITABLE.
FifoCloseStaysWritable(e) ==
  LET p == FifoPeer(e)
  IN  /\ e \in fopen
      /\ fopen' = fopen \ {e}
      /\ fsignals' = [fsignals EXCEPT ![p] =
           IF p \in fopen THEN @ \cup {"PEER_CLOSED"} ELSE @]
      /\ UNCHANGED <<fdata, fhead, ftail, fsent>>

\* The last handle to e is closed: OnPeerZeroHandlesLocked of the other.
FifoClose(e) ==
  LET p == FifoPeer(e)
  IN  /\ e \in fopen
      /\ fopen' = fopen \ {e}
      /\ fsignals' = [fsignals EXCEPT ![p] =
           IF p \in fopen THEN (@ \ {"WRITABLE"}) \cup {"PEER_CLOSED"} ELSE @]
      /\ UNCHANGED <<fdata, fhead, ftail, fsent>>

FifoNext ==
  \E e \in FifoEnds :
    \/ \E n \in 1..(FifoCount + 1) :
         \/ \E src \in [1..n -> FifoValues] :
              FifoWrite(e, src) \/ FifoWriteFault(e, src)
         \/ FifoRead(e, n)
    \/ FifoClose(e)

FifoSpec == FifoInit /\ [][FifoNext]_fifoVars
-----------------------------------------------------------------------------
\* What e would read: the slots ReadToUserLocked copies from, in order.
FifoContents(e) ==
  LET used == FifoUsed(e)
      part == FifoSmaller(used, FifoCount - FifoSlot(ftail[e]))
  IN  [i \in 1..used |->
         fdata[e][IF i <= part THEN FifoSlot(ftail[e]) + i - 1
                  ELSE FifoSlot(ftail[e] + part) + i - part - 1]]

\* Across the end of the ring, the wrap of the counters and faults in the
\* middle of a copy, what would be read is what was written and not yet read,
\* in order: nothing is lost, changed or read twice.
FifoInOrder == \A e \in FifoEnds : FifoContents(e) = fsent[e]

\* A reader waits on READABLE and a writer on WRITABLE: each is asserted
\* exactly when the call it announces would move an element, also after a
\* partial call, a fault or the peer's close.
FifoSignalsTrue ==
  \A e \in fopen :
    /\ "READABLE" \in fsignals[e] <=> FifoUsed(e) # 0
    /\ "WRITABLE" \in fsignals[e]
         <=> FifoPeer(e) \in fopen /\ FifoUsed(FifoPeer(e)) < FifoCount
    /\ "PEER_CLOSED" \in fsignals[e] <=> FifoPeer(e) \notin fopen

\* What would be read is what was written, and the signals tell the truth
\* about it.
FifoConsistent == FifoTypeOK /\ FifoInOrder /\ FifoSignalsTrue
=============================================================================
