------------------------------- MODULE Socket -------------------------------
(***************************************************************************)
(* A pair of SocketDispatchers (object/socket_dispatcher.cc) with their    *)
(* buffer chains (object/mbuf.cc): streams and datagrams, partial and      *)
(* faulting copies, thresholds, dispositions and the signals of the two    *)
(* endpoints.  A call runs under the pair's lock, so it is one action.     *)
(* Of the bytes the model keeps how many each MBuf holds and where the     *)
(* packets begin.                                                          *)
(***************************************************************************)
EXTENDS Integers, Sequences, SequencesExt

CONSTANTS SockEnds,      \* the two endpoints
          SockWriters,   \* bound: endpoints that write
          Payload,       \* MBuf::kPayloadSize
          SizeMax,       \* kSizeMax, a multiple of Payload
          Thresholds     \* bound: thresholds set, besides 0

VARIABLES skind,         \* flags_: "STREAM" or "DATAGRAM"; "NEW" before Create
          sbufs,         \* buffers_ of each endpoint: [len, pkt] of each MBuf
          soff,          \* read_cursor_off_
          ssize,         \* size_
          ssignals,      \* signals of each endpoint
          sreadThr, swriteThr,   \* read_threshold_, write_threshold_
          sreadDisabled, \* read_disabled_
          sopen,         \* endpoints that have handles
          spackets       \* history: sizes of the datagrams not yet read

sockChain == <<sbufs, soff, ssize, spackets>>
sockVars == <<skind, sockChain, ssignals, sreadThr, swriteThr, sreadDisabled,
              sopen>>

SockPeer(e) == CHOOSE x \in SockEnds : x # e
SockSmaller(a, b) == IF a < b THEN a ELSE b
IsFull(n) == n >= SizeMax
BothOpen == sopen = SockEnds

SockSignals == {"READABLE", "WRITABLE", "PEER_CLOSED", "READ_THRESHOLD",
                "WRITE_THRESHOLD", "WRITE_DISABLED", "PEER_WRITE_DISABLED"}

SocketTypeOK ==
  /\ skind \in {"NEW", "STREAM", "DATAGRAM"}
  /\ \A e \in SockEnds : \A i \in DOMAIN sbufs[e] :
       sbufs[e][i] \in [len : 0..Payload, pkt : 0..SizeMax]
  /\ soff \in [SockEnds -> 0..(Payload - 1)]
  /\ ssize \in [SockEnds -> 0..SizeMax]
  /\ ssignals \in [SockEnds -> SUBSET SockSignals]
  /\ sreadThr \in [SockEnds -> Thresholds \cup {0}]
  /\ swriteThr \in [SockEnds -> Thresholds \cup {0}]
  /\ sreadDisabled \in [SockEnds -> BOOLEAN]
  /\ sopen \subseteq SockEnds

SocketInit ==
  /\ skind = "NEW"
  /\ sbufs = [e \in SockEnds |-> <<>>] /\ soff = [e \in SockEnds |-> 0]
  /\ ssize = [e \in SockEnds |-> 0] /\ spackets = [e \in SockEnds |-> <<>>]
  /\ ssignals = [e \in SockEnds |-> {"WRITABLE"}]
  /\ sreadThr = [e \in SockEnds |-> 0] /\ swriteThr = [e \in SockEnds |-> 0]
  /\ sreadDisabled = [e \in SockEnds |-> FALSE]
  /\ sopen = SockEnds

SocketCreate ==
  /\ skind = "NEW"
  /\ skind' \in {"STREAM", "DATAGRAM"}
  /\ UNCHANGED <<sockChain, ssignals, sreadThr, swriteThr, sreadDisabled, sopen>>
-----------------------------------------------------------------------------
(* MBufChain.                                                              *)

\* The chain after k more bytes of a stream: the last MBuf is filled up and
\* new ones follow.
Fill(bufs, k) ==
  LET fill[n \in 0..k] ==
        IF n = 0 THEN bufs
        ELSE LET b == fill[n - 1]
             IN  IF b = <<>> \/ Last(b).len = Payload
                 THEN Append(b, [len |-> 1, pkt |-> 0])
                 ELSE [b EXCEPT ![Len(b)].len = @ + 1]
  IN  fill[k]

\* WriteStream of len bytes: the chain, and how many went in.  All that fit,
\* or fewer at the end of an MBuf when a copy faults or an allocation fails;
\* an MBuf just allocated may stay empty.
WriteStream(e, len) ==
  LET fit == SockSmaller(len, SizeMax - ssize[e])
      empty == [len |-> 0, pkt |-> 0]
      atEnd(b) == b = <<>> \/ Last(b).len = Payload
  IN  {<<Fill(sbufs[e], k), k>> :
          k \in {k \in 0..fit : \/ k = fit \/ k = 0
                                \/ atEnd(Fill(sbufs[e], k))}}
      \cup {<<Append(Fill(sbufs[e], k), empty), k>> :
          k \in {k \in 0..fit : k < len /\ atEnd(Fill(sbufs[e], k))}}

\* WriteDatagram: all of it or nothing (it does not fit, a copy faults or an
\* allocation fails).
WriteDatagram(e, len) ==
  LET mbuf(i) == [len |-> SockSmaller(Payload, len - (i - 1) * Payload),
                  pkt |-> IF i = 1 THEN len ELSE 0]
      need == 1 + (len - 1) \div Payload
  IN  IF len + ssize[e] > SizeMax THEN {}
      ELSE {<<sbufs[e] \o [i \in 1..need |-> mbuf(i)], len>>}

\* Mutant: the offset is not reset at the end of a buffer.
ReadStreamKeepsOffset(e, n, len) ==
  LET b == sbufs[e]
      o == soff[e] + n
  IN  IF o >= b[1].len THEN <<Tail(b), o % Payload>> ELSE <<b, o>>

\* ReadHelper on a stream, n bytes consumed of len asked for: every MBuf read
\* to its end is freed, the last, empty one too if more was asked for.
ReadStream(e, n, len) ==
  LET drop[k \in 0..n] ==
        IF k = 0 THEN <<sbufs[e], soff[e]>>
        ELSE LET b == drop[k - 1][1]  o == drop[k - 1][2] + 1
             IN  IF o = b[1].len THEN <<Tail(b), 0>> ELSE <<b, o>>
  IN  IF n = ssize[e] /\ n < len THEN <<<<>>, 0>> ELSE drop[n]

\* ReadHelper on datagrams drops the MBufs of the first packet, whether or
\* not the copy succeeds: the first and those after it that begin no packet.
PacketLen(e) ==
  LET heads == {i \in 2..Len(sbufs[e]) : sbufs[e][i].pkt # 0}
  IN  IF heads = {} THEN Len(sbufs[e])
      ELSE (CHOOSE i \in heads : \A j \in heads : i <= j) - 1
PacketBytes(e) ==
  FoldLeft(LAMBDA n, b : n + b.len, 0, SubSeq(sbufs[e], 1, PacketLen(e)))
-----------------------------------------------------------------------------
(* The system calls.                                                       *)

\* Write at the peer of e: WriteSelfLocked of e.
SocketWrite(e, len) ==
  LET p == SockPeer(e)
      free == SizeMax - ssize'[e]
  IN  /\ skind # "NEW" /\ BothOpen
      /\ "WRITE_DISABLED" \notin ssignals[p]
      /\ ~IsFull(ssize[e])
      /\ \E w \in IF skind = "DATAGRAM" THEN WriteDatagram(e, len)
                                        ELSE WriteStream(e, len) :
           /\ sbufs' = [sbufs EXCEPT ![e] = w[1]]
           /\ ssize' = [ssize EXCEPT ![e] = @ + w[2]]
           /\ spackets' = IF skind = "DATAGRAM"
                          THEN [spackets EXCEPT ![e] = Append(@, len)]
                          ELSE spackets
           /\ ssignals' = [ssignals EXCEPT
                ![e] = @ \cup (IF w[2] > 0 /\ ssize[e] = 0
                               THEN {"READABLE"} ELSE {})
                         \cup (IF w[2] > 0 /\ sreadThr[e] > 0
                                  /\ ssize'[e] >= sreadThr[e]
                               THEN {"READ_THRESHOLD"} ELSE {}),
                ![p] = @ \ ((IF w[2] > 0 /\ free < swriteThr[p]
                             THEN {"WRITE_THRESHOLD"} ELSE {})
                            \cup (IF IsFull(ssize'[e])
                                  THEN {"WRITABLE"} ELSE {}))]
      /\ UNCHANGED <<skind, soff, sreadThr, swriteThr, sreadDisabled, sopen>>

\* Read at e of len bytes, of which `actual` reach the user: fewer than there
\* are if a copy faults at the beginning of an MBuf.
SocketRead(e, len, actual) ==
  LET p == SockPeer(e)
      most == IF skind = "DATAGRAM" THEN SockSmaller(len, sbufs[e][1].pkt)
                                    ELSE SockSmaller(len, ssize[e])
      free == SizeMax - ssize'[e]
  IN  /\ skind # "NEW" /\ e \in sopen /\ ssize[e] > 0
      /\ \/ actual = most
         \/ actual < most /\ (soff[e] + actual) % Payload = 0
         \/ actual = 0
      /\ IF skind = "DATAGRAM"
         THEN /\ sbufs' = [sbufs EXCEPT ![e] =
                             SubSeq(@, PacketLen(e) + 1, Len(@))]
              /\ ssize' = [ssize EXCEPT ![e] = @ - PacketBytes(e)]
              /\ spackets' = [spackets EXCEPT ![e] = Tail(@)]
              /\ UNCHANGED soff
         ELSE LET r == ReadStream(e, actual, IF actual = most THEN len ELSE actual)
              IN  /\ sbufs' = [sbufs EXCEPT ![e] = r[1]]
                  /\ soff' = [soff EXCEPT ![e] = r[2]]
                  /\ ssize' = [ssize EXCEPT ![e] = @ - actual]
                  /\ UNCHANGED spackets
      /\ ssignals' = [ssignals EXCEPT
           ![e] = @ \ ((IF ssize'[e] < sreadThr[e]
                        THEN {"READ_THRESHOLD"} ELSE {})
                       \cup (IF ssize'[e] = 0 THEN {"READABLE"} ELSE {})),
           ![p] = IF p \notin sopen THEN @
                  ELSE @ \cup (IF swriteThr[p] > 0 /\ free >= swriteThr[p]
                               THEN {"WRITE_THRESHOLD"} ELSE {})
                         \cup (IF IsFull(ssize[e]) /\ actual > 0
                               THEN {"WRITABLE"} ELSE {})]
      /\ UNCHANGED <<skind, sreadThr, swriteThr, sreadDisabled, sopen>>

\* Mutant: the signal is not recomputed for the new threshold.
SetReadThresholdLazily(e, value) ==
  /\ skind # "NEW" /\ e \in sopen
  /\ sreadThr' = [sreadThr EXCEPT ![e] = value]
  /\ UNCHANGED <<skind, sockChain, ssignals, swriteThr, sreadDisabled, sopen>>

\* SetReadThreshold and SetWriteThreshold.
SetReadThreshold(e, value) ==
  /\ skind # "NEW" /\ e \in sopen
  /\ sreadThr' = [sreadThr EXCEPT ![e] = value]
  /\ ssignals' = [ssignals EXCEPT ![e] =
       IF value > 0 /\ ssize[e] >= value THEN @ \cup {"READ_THRESHOLD"}
                                         ELSE @ \ {"READ_THRESHOLD"}]
  /\ UNCHANGED <<skind, sockChain, swriteThr, sreadDisabled, sopen>>

SetWriteThreshold(e, value) ==
  /\ skind # "NEW" /\ BothOpen
  /\ swriteThr' = [swriteThr EXCEPT ![e] = value]
  /\ ssignals' = [ssignals EXCEPT ![e] =
       IF value > 0 /\ SizeMax - ssize[SockPeer(e)] >= value
       THEN @ \cup {"WRITE_THRESHOLD"} ELSE @ \ {"WRITE_THRESHOLD"}]
  /\ UNCHANGED <<skind, sockChain, sreadThr, sreadDisabled, sopen>>

\* IsDispositionStateValid of e for the writes of its peer.
DispositionValid(e, d) ==
  ~(d = "ENABLED" /\ ssize[e] > 0 /\ "PEER_WRITE_DISABLED" \in ssignals[e])

\* ExtendMasksFromDisposition: what d sets and clears at the endpoint whose
\* writes it is about, and at the other one.
OwnMask(d) == [set |-> CASE d = "DISABLED" -> {"WRITE_DISABLED"}
                         [] d = "ENABLED" -> {"WRITABLE"} [] OTHER -> {},
               clear |-> CASE d = "DISABLED" -> {"WRITABLE"}
                           [] d = "ENABLED" -> {"WRITE_DISABLED"}
                           [] OTHER -> {}]
PeerMask(d) == [set |-> IF d = "DISABLED" THEN {"PEER_WRITE_DISABLED"} ELSE {},
                clear |-> IF d = "ENABLED" THEN {"PEER_WRITE_DISABLED"} ELSE {}]

\* read_disabled_ after d for the writes of the peer.
ReadStatus(old, d) == IF d = "NONE" THEN old ELSE d = "DISABLED"

\* UpdateStateLocked clears, then sets.
Masked(s, a, b) == (s \ (a.clear \cup b.clear)) \cup a.set \cup b.set
NoMask == [set |-> {}, clear |-> {}]

\* SetDisposition at e: d for e's writes, dp for its peer's.
SetDisposition(e, d, dp) ==
  LET p == SockPeer(e)
  IN  /\ skind # "NEW" /\ e \in sopen
      /\ <<d, dp>> # <<"NONE", "NONE">>
      /\ DispositionValid(e, dp)
      /\ p \in sopen => DispositionValid(p, d)
      /\ IF p \in sopen
         THEN /\ sreadDisabled' = [sreadDisabled EXCEPT
                   ![p] = ReadStatus(@, d), ![e] = ReadStatus(@, dp)]
              /\ ssignals' = [ssignals EXCEPT
                   ![p] = Masked(@, PeerMask(d), OwnMask(dp)),
                   ![e] = Masked(@, OwnMask(d), PeerMask(dp))]
         ELSE /\ sreadDisabled' = [sreadDisabled EXCEPT ![e] = ReadStatus(@, dp)]
              /\ ssignals' = [ssignals EXCEPT ![e] = Masked(@, OwnMask(d), NoMask)]
      /\ UNCHANGED <<skind, sockChain, sreadThr, swriteThr, sopen>>

\* The last handle to e is closed: OnPeerZeroHandlesLocked of the other.
SocketClose(e) ==
  LET p == SockPeer(e)
  IN  /\ skind # "NEW" /\ e \in sopen
      /\ sopen' = sopen \ {e}
      /\ ssignals' = [ssignals EXCEPT ![p] =
           IF p \in sopen THEN (@ \ {"WRITABLE"}) \cup {"PEER_CLOSED"} ELSE @]
      /\ UNCHANGED <<skind, sockChain, sreadThr, swriteThr, sreadDisabled>>

Dispositions == {"NONE", "DISABLED", "ENABLED"}
SocketNext ==
  \/ SocketCreate
  \/ \E e \in SockEnds :
       \/ \E len \in 1..(SizeMax + 1) :
            \/ SockPeer(e) \in SockWriters /\ SocketWrite(e, len)
            \/ \E actual \in 0..len : SocketRead(e, len, actual)
       \/ \E v \in Thresholds \cup {0} :
            SetReadThreshold(e, v) \/ SetWriteThreshold(e, v)
       \/ \E d, dp \in Dispositions : SetDisposition(e, d, dp)
       \/ SocketClose(e)

SocketSpec == SocketInit /\ [][SocketNext]_sockVars
-----------------------------------------------------------------------------
\* size_ is what the chain holds after the read cursor, however reads and
\* writes were cut short, and only the last MBuf may be empty or, in a
\* stream, be filled further.
SocketSizeExact ==
  \A e \in SockEnds :
    /\ ssize[e] = FoldLeft(LAMBDA n, b : n + b.len, 0, sbufs[e]) - soff[e]
    /\ \A i \in 1..(Len(sbufs[e]) - 1) :
         /\ sbufs[e][i].len > 0
         /\ skind = "STREAM" => sbufs[e][i].len = Payload
    /\ soff[e] > 0 => sbufs[e] # <<>> /\ soff[e] < sbufs[e][1].len

\* The packets in the chain are the datagrams written and not yet read, with
\* their sizes and in order: a read, even one whose copy faults, takes
\* exactly one.
SocketPacketsWhole ==
  skind = "DATAGRAM" =>
    \A e \in SockEnds :
      [i \in DOMAIN SelectSeq(sbufs[e], LAMBDA b : b.pkt # 0) |->
         SelectSeq(sbufs[e], LAMBDA b : b.pkt # 0)[i].pkt] = spackets[e]

\* READABLE and the thresholds' signals say of the buffers what they mean,
\* whichever calls moved the data or the threshold.
SocketSignalsTrue ==
  \A e \in sopen :
    /\ "READABLE" \in ssignals[e] <=> ssize[e] > 0
    /\ "READ_THRESHOLD" \in ssignals[e]
         <=> sreadThr[e] > 0 /\ ssize[e] >= sreadThr[e]
    /\ BothOpen => ("WRITE_THRESHOLD" \in ssignals[e] <=>
                      /\ swriteThr[e] > 0
                      /\ SizeMax - ssize[SockPeer(e)] >= swriteThr[e])

\* The two endpoints agree on whose writes are disabled, and a reader that is
\* told it will never read again (ZX_ERR_BAD_STATE) has a peer that cannot
\* write.
SocketEndsAgree ==
  BothOpen =>
    \A e \in SockEnds :
      LET disabled == "WRITE_DISABLED" \in ssignals[SockPeer(e)]
      IN  /\ sreadDisabled[e] <=> disabled
          /\ "PEER_WRITE_DISABLED" \in ssignals[e] <=> disabled

\* A writer of a stream that waits for WRITABLE is not left waiting: while its
\* writes are enabled and its peer's buffer is not full the signal is
\* asserted, whichever reads were cut short and writes disabled in between.
\* (The read of a datagram whose copy faults empties the buffer without it.)
SocketWriterWoken ==
  BothOpen /\ skind = "STREAM" =>
    \A e \in SockEnds :
      "WRITE_DISABLED" \notin ssignals[e] /\ ~IsFull(ssize[SockPeer(e)])
        => "WRITABLE" \in ssignals[e]

\* The buffers: sizes and offsets agree and datagrams stay whole.
SocketConsistent == SocketTypeOK /\ SocketSizeExact /\ SocketPacketsWhole

\* The signals of both ends agree with the buffers and with each other, and
\* leave neither a reader nor a writer of a stream waiting.
SocketSignals == SocketSignalsTrue /\ SocketEndsAgree /\ SocketWriterWoken
=============================================================================
