-------------------------- MODULE EventPathProofs --------------------------
(***************************************************************************)
(* Proofs about EventPath, for every size of the ring buffer and of the    *)
(* channels, every number of events and every set of undecodable ones.     *)
(*                                                                         *)
(* What the reader read is what Run handled followed by what is in flight: *)
(* each step moves one event across one of the borders of                  *)
(*     handled | events | event | rawEvents | sample                       *)
(* so that the proof is a matter of regrouping a concatenation, which the  *)
(* first lemmas do.  That the channels are closed in order, and main waits *)
(* for all goroutines, turns this into "handled = readLog" at exit.        *)
(*                                                                         *)
(* The same regrouping, with the ring buffer behind the rest, shows that   *)
(* EventPath implements EventDelivery: a step either leaves the queue as   *)
(* it is, or adds, drops or delivers at one place.                         *)
(***************************************************************************)
EXTENDS EventPath, SequenceTheorems, TLAPS

Events == Seq(Nat)

(* The hands and channels hold sequences of events, and who holds an event
   is about to send it.                                                     *)
SeqsOK ==
    /\ ring \in Events /\ sample \in Events /\ rawEvents \in Events
    /\ event \in Events /\ events \in Events
    /\ handled \in Events /\ readLog \in Events
    /\ produced \in Nat
    /\ reader \in {"read", "send", "done"} /\ ((sample # << >>) <=> (reader = "send"))
    /\ converter \in {"receive", "send", "done"}
    /\ ((event # << >>) <=> (converter = "send"))
    /\ rawClosed \in BOOLEAN /\ eventsClosed \in BOOLEAN

(* What was handled and what is in each of the four places behind it. *)
Path(h, a, b, c, d) == h \o (a \o b \o c \o d)

(* A channel is closed by its sender when it is done, the second after the
   first is drained; run is done when both are drained, and main exits last. *)
Closing ==
    /\ rawClosed <=> (reader = "done")
    /\ eventsClosed => (rawClosed /\ rawEvents = << >> /\ converter = "done")
    /\ (run = "done") => (eventsClosed /\ events = << >>)
    /\ (main = "exited") => (run = "done")

NothingLost == readLog = Path(handled, events, event, rawEvents, sample)

IInv == SeqsOK /\ Closing /\ NothingLost

-----------------------------------------------------------------------------
(* The library's facts on concatenation, for sequences of events; that it is
   associative the provers know.                                            *)
LEMMA Concat ==
    /\ << >> \in Events
    /\ \A s \in Events : s \o << >> = s
    /\ \A s, t \in Events : s \o t \in Events
<1>1. \A s, t \in Events : s \o t \in Events
  BY ConcatProperties DEF Events
<1>2. \A s \in Events : s \o << >> = s
  BY ConcatEmptySeq DEF Events
<1> QED BY <1>1, <1>2, EmptySeq DEF Events

(* A nonempty sequence is its head followed by its tail. *)
LEMMA HeadThenTail ==
    ASSUME NEW s \in Events, s # << >>
    PROVE  /\ Head(s) \in Nat /\ <<Head(s)>> \in Events /\ Tail(s) \in Events
           /\ s = <<Head(s)>> \o Tail(s)
<1>1. /\ Head(s) \in Nat /\ Tail(s) \in Events /\ Len(Tail(s)) = Len(s) - 1
      /\ \A i \in 1 .. Len(Tail(s)) : Tail(s)[i] = s[i + 1]
  BY HeadTailProperties DEF Events
<1>2. <<Head(s)>> \in Events /\ Len(<<Head(s)>>) = 1 /\ <<Head(s)>>[1] = s[1]
  BY <1>1 DEF Events
<1>3. Len(s) \in Nat /\ Len(s) # 0
  BY EmptySeq DEF Events
<1> DEFINE t == <<Head(s)>> \o Tail(s)
<1>4. /\ t \in Events /\ Len(t) = 1 + Len(Tail(s))
      /\ \A i \in 1 .. 1 + Len(Tail(s)) :
            t[i] = IF i <= 1 THEN <<Head(s)>>[i] ELSE Tail(s)[i - 1]
  BY <1>1, <1>2, ConcatProperties DEF Events
<1>5. Len(t) = Len(s) /\ \A i \in 1 .. Len(s) : t[i] = s[i]
  <2> HIDE DEF t
  <2>1. Len(t) = Len(s)
    BY <1>1, <1>3, <1>4
  <2>2. ASSUME NEW i \in 1 .. Len(s) PROVE t[i] = s[i]
    <3>1. CASE i = 1
      BY <1>2, <1>3, <1>4, <2>1, <3>1
    <3>2. CASE i # 1
      <4>1. i - 1 \in 1 .. Len(Tail(s)) /\ i \in 1 .. 1 + Len(Tail(s)) /\ ~(i <= 1)
        BY <1>1, <1>3, <3>2
      <4>2. t[i] = Tail(s)[i - 1]
        BY <1>4, <4>1
      <4>3. Tail(s)[i - 1] = s[(i - 1) + 1] /\ (i - 1) + 1 = i
        BY <1>1, <4>1
      <4> QED BY <4>2, <4>3
    <3> QED BY <3>1, <3>2
  <2> QED BY <2>1, <2>2
<1>6. t = s
  <2> HIDE DEF t
  <2> QED BY <1>4, <1>5, SeqEqual DEF Events
<1> QED BY <1>1, <1>2, <1>6

-----------------------------------------------------------------------------
(* The borders an event can cross, from the newest to the oldest: what is
   handled and in flight, read as one sequence, stays what it is.           *)
LEMMA SampleToChannel ==
    ASSUME NEW h \in Events, NEW a \in Events, NEW b \in Events, NEW c \in Events,
           NEW d \in Events
    PROVE  Path(h, a, b, c, d) = Path(h, a, b, c \o d, << >>)
<1>1. (c \o d) \o << >> = c \o d
  BY Concat
<1> QED BY <1>1 DEF Path

LEMMA ChannelToConverter ==
    ASSUME NEW h \in Events, NEW a \in Events, NEW c \in Events, NEW d \in Events,
           c # << >>
    PROVE  Path(h, a, << >>, c, d) = Path(h, a, <<Head(c)>>, Tail(c), d)
<1>1. a \o << >> = a
  BY Concat
<1>2. a \o <<Head(c)>> \o Tail(c) \o d = a \o (<<Head(c)>> \o Tail(c)) \o d
  BY HeadThenTail
<1>3. a \o << >> \o c \o d = a \o <<Head(c)>> \o Tail(c) \o d
  BY <1>1, <1>2, HeadThenTail
<1> QED BY <1>3 DEF Path

LEMMA ConverterToChannel ==
    ASSUME NEW h \in Events, NEW a \in Events, NEW b \in Events, NEW c \in Events,
           NEW d \in Events
    PROVE  Path(h, a, b, c, d) = Path(h, a \o b, << >>, c, d)
<1>1. (a \o b) \o << >> = a \o b
  BY Concat
<1> QED BY <1>1 DEF Path

LEMMA ChannelToRun ==
    ASSUME NEW h \in Events, NEW a \in Events, NEW b \in Events, NEW c \in Events,
           NEW d \in Events, a # << >>
    PROVE  Path(h, a, b, c, d) = Path(Append(h, Head(a)), Tail(a), b, c, d)
<1>1. Append(h, Head(a)) = h \o <<Head(a)>>
  BY HeadThenTail, AppendIsConcat DEF Events
<1>2. h \o (a \o b \o c \o d) = h \o ((<<Head(a)>> \o Tail(a)) \o b \o c \o d)
  BY HeadThenTail
<1>3. h \o ((<<Head(a)>> \o Tail(a)) \o b \o c \o d)
        = (h \o <<Head(a)>>) \o (Tail(a) \o b \o c \o d)
  OBVIOUS
<1> QED BY <1>1, <1>2, <1>3 DEF Path

-----------------------------------------------------------------------------
LEMMA InitIInv == Init => IInv
<1> SUFFICES ASSUME Init PROVE IInv
  OBVIOUS
<1>1. SeqsOK
  BY Concat DEF Init, SeqsOK
<1>2. Closing
  BY DEF Init, Closing
<1>3. NothingLost
  BY Concat DEF Init, NothingLost, Path
<1> QED BY <1>1, <1>2, <1>3 DEF IInv

(* Steps that move no event. *)
LEMMA StillIInv ==
    ASSUME IInv, SeqsOK', Closing',
           UNCHANGED <<sample, rawEvents, event, events, handled, readLog>>
    PROVE  IInv'
  BY DEF IInv, NothingLost

LEMMA ProbeIInv == ASSUME IInv, Probe PROVE IInv'
<1>1. ring' \in Events /\ produced' \in Nat
  <2>1. produced + 1 \in Nat
    BY DEF Probe, IInv, SeqsOK
  <2>2. Append(ring, produced + 1) \in Events
    BY <2>1, AppendProperties DEF IInv, SeqsOK, Events
  <2> QED BY <2>1, <2>2 DEF Probe, IInv, SeqsOK
<1>2. SeqsOK'
  BY <1>1 DEF Probe, IInv, SeqsOK
<1>3. Closing'
  BY DEF Probe, IInv, Closing
<1> QED BY <1>2, <1>3, StillIInv DEF Probe

LEMMA ReadIInv == ASSUME IInv, Read PROVE IInv'
<1> DEFINE e == Head(ring)
<1>1. e \in Nat /\ <<e>> \in Events /\ ring' \in Events
  BY HeadThenTail DEF Read, IInv, SeqsOK
<1>2. Closing'
  BY DEF Read, IInv, Closing
<1>3. CASE e \in Malformed
  <2>1. SeqsOK'
    BY <1>1, <1>3 DEF Read, IInv, SeqsOK
  <2> QED BY <1>2, <1>3, <2>1, StillIInv DEF Read
<1>4. CASE e \notin Malformed
  <2>1. sample = << >> /\ sample' = <<e>> /\ readLog' = Append(readLog, e)
    BY <1>4 DEF Read, IInv, SeqsOK
  <2>2. SeqsOK'
    <3>1. readLog' \in Events
      BY <1>1, <2>1, AppendProperties DEF IInv, SeqsOK, Events
    <3> QED BY <1>1, <1>4, <2>1, <3>1 DEF Read, IInv, SeqsOK
  <2>3. NothingLost'
    <3> HIDE DEF e
    <3>1. readLog = Path(handled, events, event, rawEvents, sample)
      BY DEF IInv, NothingLost
    <3>2. readLog' = readLog \o sample'
      <4>1. readLog \in Events
        BY DEF IInv, SeqsOK
      <4> QED BY <1>1, <2>1, <4>1, AppendIsConcat DEF Events
    <3>3. Path(handled, events, event, rawEvents, sample) \o sample'
            = Path(handled, events, event, rawEvents, sample \o sample')
      BY DEF Path
    <3>4. sample \o sample' = sample'
      BY <1>1, <2>1, ConcatEmptySeq DEF Events
    <3> QED BY <3>1, <3>2, <3>3, <3>4 DEF NothingLost, Read
  <2> QED BY <1>2, <2>2, <2>3 DEF IInv
<1> QED BY <1>3, <1>4

LEMMA SendSampleIInv == ASSUME IInv, SendSample PROVE IInv'
<1>1. SeqsOK'
  BY Concat DEF SendSample, IInv, SeqsOK
<1>2. Closing'
  BY DEF SendSample, IInv, SeqsOK, Closing
<1>3. Path(handled, events, event, rawEvents, sample)
        = Path(handled, events, event, rawEvents \o sample, << >>)
  BY SampleToChannel DEF IInv, SeqsOK
<1>4. NothingLost'
  BY <1>3 DEF SendSample, IInv, NothingLost
<1> QED BY <1>1, <1>2, <1>4 DEF IInv

LEMMA ReaderStopsIInv == ASSUME IInv, ReaderStops PROVE IInv'
<1>1. SeqsOK'
  BY DEF ReaderStops, IInv, SeqsOK
<1>2. Closing'
  BY DEF ReaderStops, IInv, Closing
<1> QED BY <1>1, <1>2, StillIInv DEF ReaderStops

LEMMA ConvertIInv == ASSUME IInv, Convert PROVE IInv'
<1>1. <<Head(rawEvents)>> \in Events /\ Tail(rawEvents) \in Events
  BY HeadThenTail DEF Convert, IInv, SeqsOK
<1>2. SeqsOK'
  BY <1>1 DEF Convert, IInv, SeqsOK
<1>3. Closing'
  BY DEF Convert, IInv, Closing
<1>4. event = << >>
  BY DEF Convert, IInv, SeqsOK
<1>5. Path(handled, events, << >>, rawEvents, sample)
        = Path(handled, events, <<Head(rawEvents)>>, Tail(rawEvents), sample)
  BY ChannelToConverter DEF Convert, IInv, SeqsOK
<1>6. NothingLost'
  BY <1>4, <1>5 DEF Convert, IInv, NothingLost
<1> QED BY <1>2, <1>3, <1>6 DEF IInv

LEMMA SendEventIInv == ASSUME IInv, SendEvent PROVE IInv'
<1>1. SeqsOK'
  BY Concat DEF SendEvent, IInv, SeqsOK
<1>2. Closing'
  BY DEF SendEvent, IInv, Closing
<1>3. Path(handled, events, event, rawEvents, sample)
        = Path(handled, events \o event, << >>, rawEvents, sample)
  BY ConverterToChannel DEF IInv, SeqsOK
<1>4. NothingLost'
  BY <1>3 DEF SendEvent, IInv, NothingLost
<1> QED BY <1>1, <1>2, <1>4 DEF IInv

LEMMA ConverterStopsIInv == ASSUME IInv, ConverterStops PROVE IInv'
<1>1. SeqsOK'
  BY DEF ConverterStops, IInv, SeqsOK
<1>2. Closing'
  BY DEF ConverterStops, IInv, Closing
<1> QED BY <1>1, <1>2, StillIInv DEF ConverterStops

LEMMA HandleIInv == ASSUME IInv, Handle PROVE IInv'
<1>1. Head(events) \in Nat /\ Tail(events) \in Events
  BY HeadThenTail DEF Handle, IInv, SeqsOK
<1>2. SeqsOK'
  <2>1. Append(handled, Head(events)) \in Events
    BY <1>1, AppendProperties DEF IInv, SeqsOK, Events
  <2> QED BY <1>1, <2>1 DEF Handle, IInv, SeqsOK
<1>3. Closing'
  BY DEF Handle, IInv, Closing
<1>4. Path(handled, events, event, rawEvents, sample)
        = Path(Append(handled, Head(events)), Tail(events), event, rawEvents, sample)
  BY ChannelToRun DEF Handle, IInv, SeqsOK
<1>5. NothingLost'
  BY <1>4 DEF Handle, IInv, NothingLost
<1> QED BY <1>2, <1>3, <1>5 DEF IInv

(* The end of Run, the signal and main touch no event. *)
LEMMA ControlIInv ==
    ASSUME IInv, RunReturns \/ Signal \/ Main \/ UNCHANGED vars
    PROVE  IInv'
<1>1. CASE RunReturns
  <2>1. SeqsOK' /\ Closing'
    BY <1>1 DEF RunReturns, IInv, SeqsOK, Closing
  <2> QED BY <1>1, <2>1, StillIInv DEF RunReturns
<1>2. CASE Signal
  <2>1. SeqsOK' /\ Closing'
    BY <1>2 DEF Signal, IInv, SeqsOK, Closing
  <2> QED BY <1>2, <2>1, StillIInv DEF Signal
<1>3. CASE Shutdown
  <2>1. SeqsOK' /\ Closing'
    BY <1>3, Concat DEF Shutdown, IInv, SeqsOK, Closing
  <2> QED BY <1>3, <2>1, StillIInv DEF Shutdown
<1>4. CASE Join
  <2>1. SeqsOK' /\ Closing'
    BY <1>4 DEF Join, IInv, SeqsOK, Closing
  <2> QED BY <1>4, <2>1, StillIInv DEF Join
<1>5. CASE Exit
  <2>1. SeqsOK' /\ Closing'
    BY <1>5 DEF Exit, IInv, SeqsOK, Closing
  <2> QED BY <1>5, <2>1, StillIInv DEF Exit
<1>6. CASE UNCHANGED vars
  <2>1. SeqsOK' /\ Closing'
    BY <1>6 DEF vars, IInv, SeqsOK, Closing
  <2> QED BY <1>6, <2>1, StillIInv DEF vars
<1> QED BY <1>1, <1>2, <1>3, <1>4, <1>5, <1>6 DEF Main

LEMMA NextIInv == IInv /\ [Next]_vars => IInv'
<1> SUFFICES ASSUME IInv, [Next]_vars PROVE IInv'
  OBVIOUS
<1>1. CASE Probe BY <1>1, ProbeIInv
<1>2. CASE Reader \/ ReaderStops
  BY <1>2, ReadIInv, SendSampleIInv, ReaderStopsIInv DEF Reader
<1>3. CASE Converter
  BY <1>3, ConvertIInv, SendEventIInv, ConverterStopsIInv DEF Converter
<1>4. CASE Handle BY <1>4, HandleIInv
<1>5. CASE RunReturns \/ Signal \/ Main \/ UNCHANGED vars
  BY <1>5, ControlIInv
<1>6. CASE Exited
  BY <1>6, ControlIInv DEF Exited
<1> QED BY <1>1, <1>2, <1>3, <1>4, <1>5, <1>6 DEF Next, Run

-----------------------------------------------------------------------------
(* When Run is done, no event is left on the way. *)
LEMMA NothingInFlight == ASSUME IInv, run = "done" PROVE InFlight = << >>
<1>1. /\ events = << >> /\ event = << >> /\ rawEvents = << >> /\ sample = << >>
  BY DEF IInv, SeqsOK, Closing
<1> QED BY <1>1, Concat DEF InFlight

(* Between the reader and the analysis loop nothing is lost, duplicated or
   reordered, at any capacity and through every way of shutting down, and at
   exit all that was read is handled (loader.go, convert.go, main.go).      *)
THEOREM ReadIsHandled == Spec => []ReadIsHandledOrInFlight
<1>1. IInv => ReadIsHandledOrInFlight
  <2> SUFFICES ASSUME IInv PROVE ReadIsHandledOrInFlight
    OBVIOUS
  <2>1. readLog = handled \o InFlight
    BY DEF IInv, NothingLost, Path, InFlight
  <2>2. ASSUME main = "exited" PROVE handled = readLog
    <3>1. InFlight = << >>
      BY <2>2, NothingInFlight DEF IInv, Closing
    <3> QED BY <2>1, <3>1, Concat DEF IInv, SeqsOK
  <2> QED BY <2>1, <2>2 DEF ReadIsHandledOrInFlight
<1> QED BY <1>1, InitIInv, NextIInv, PTL DEF Spec

(* No goroutine sends on a closed channel, and Run is done only when both
   channels are drained (main.go, the deferred close of each sender).       *)
THEOREM ChannelsCloseInOrder == Spec => []ClosedInOrder
<1>1. IInv => ClosedInOrder
  BY NothingInFlight DEF IInv, Closing, ClosedInOrder
<1> QED BY <1>1, InitIInv, NextIInv, PTL DEF Spec

-----------------------------------------------------------------------------
(* The refinement.  The queue of EventDelivery is what is in flight, followed
   by the ring buffer.                                                      *)
Queue == InFlight \o ring

(* What SubSeq cuts out of a sequence of events. *)
LEMMA SubSeqOfEvents ==
    ASSUME NEW q \in Events, NEW k \in Int, NEW n \in Int,
           \A i \in k .. n : q[i] \in Nat
    PROVE  /\ SubSeq(q, k, n) \in Events
           /\ Len(SubSeq(q, k, n)) = IF k <= n THEN n - k + 1 ELSE 0
           /\ \A i \in 1 .. n - k + 1 : SubSeq(q, k, n)[i] = q[k + i - 1]
  BY SubSeqProperties DEF Events

(* A queue in which m is a run of neighbours, a before it and t after it. *)
Joined(a, m, t) == a \o (m \o t)

LEMMA CutOut ==
    ASSUME NEW a \in Events, NEW m \in Events, NEW t \in Events
    PROVE  \E i \in 0 .. Len(Joined(a, m, t)), j \in 1 .. Len(Joined(a, m, t)) + 1 :
              /\ i < j
              /\ SubSeq(Joined(a, m, t), 1, i) = a
              /\ SubSeq(Joined(a, m, t), j, Len(Joined(a, m, t))) = t
<1> DEFINE q == Joined(a, m, t)
<1>1. Len(a) \in Nat /\ Len(m) \in Nat /\ Len(t) \in Nat
  BY LenProperties DEF Events
<1>2. /\ m \o t \in Events /\ Len(m \o t) = Len(m) + Len(t)
      /\ \A i \in 1 .. Len(m) + Len(t) :
            (m \o t)[i] = IF i <= Len(m) THEN m[i] ELSE t[i - Len(m)]
  BY ConcatProperties DEF Events
<1>3. /\ q \in Events /\ Len(q) = Len(a) + (Len(m) + Len(t))
      /\ \A i \in 1 .. Len(a) + (Len(m) + Len(t)) :
            q[i] = IF i <= Len(a) THEN a[i] ELSE (m \o t)[i - Len(a)]
  BY <1>2, ConcatProperties DEF Events, Joined
<1> HIDE DEF q
<1>4. \A i \in 1 .. Len(q) : q[i] \in Nat
  BY <1>3, ElementOfSeq DEF Events
<1>5. SubSeq(q, 1, Len(a)) = a
  <2>1. /\ SubSeq(q, 1, Len(a)) \in Events /\ Len(SubSeq(q, 1, Len(a))) = Len(a)
        /\ \A i \in 1 .. Len(a) : SubSeq(q, 1, Len(a))[i] = q[i]
    <3>1. \A i \in 1 .. Len(a) : q[i] \in Nat
      BY <1>1, <1>3, <1>4
    <3>2. /\ SubSeq(q, 1, Len(a)) \in Seq(Nat)
          /\ Len(SubSeq(q, 1, Len(a))) = IF 1 <= Len(a) THEN Len(a) - 1 + 1 ELSE 0
          /\ \A i \in 1 .. Len(a) - 1 + 1 : SubSeq(q, 1, Len(a))[i] = q[1 + i - 1]
      BY <1>1, <3>1, SubSeqProperties
    <3> QED BY <1>1, <3>2 DEF Events
  <2>2. \A i \in 1 .. Len(a) : q[i] = a[i]
    BY <1>1, <1>3
  <2> QED BY <2>1, <2>2, SeqEqual DEF Events
<1>6. SubSeq(q, Len(a) + Len(m) + 1, Len(q)) = t
  <2> DEFINE k == Len(a) + Len(m) + 1
             n == Len(q)
             u == SubSeq(q, k, n)
  <2>1. k \in Int /\ n \in Int /\ \A i \in k .. n : q[i] \in Nat
    BY <1>1, <1>3, <1>4
  <2>2. /\ u \in Seq(Nat)
        /\ Len(u) = IF k <= n THEN n - k + 1 ELSE 0
        /\ \A i \in 1 .. n - k + 1 : u[i] = q[k + i - 1]
    <3> HIDE DEF k, n
    <3> QED BY <1>3, <2>1, SubSeqOfEvents, Zenon DEF Events
  <2>3. Len(u) = Len(t)
    BY <1>1, <1>3, <2>2
  <2>4. ASSUME NEW i \in 1 .. Len(t) PROVE u[i] = t[i]
    <3>1. u[i] = q[Len(a) + Len(m) + i]
      <4>1. i \in 1 .. n - k + 1 /\ k + i - 1 = Len(a) + Len(m) + i
        BY <1>1, <1>3
      <4> HIDE DEF u, k, n
      <4> QED BY <2>2, <4>1
    <3>2. q[Len(a) + Len(m) + i] = (m \o t)[Len(m) + i]
      <4>1. /\ Len(a) + Len(m) + i \in 1 .. Len(a) + (Len(m) + Len(t))
            /\ ~(Len(a) + Len(m) + i <= Len(a))
            /\ Len(a) + Len(m) + i - Len(a) = Len(m) + i
        BY <1>1
      <4> QED BY <1>3, <4>1
    <3>3. (m \o t)[Len(m) + i] = t[i]
      <4>1. /\ Len(m) + i \in 1 .. Len(m) + Len(t) /\ ~(Len(m) + i <= Len(m))
            /\ Len(m) + i - Len(m) = i
        BY <1>1
      <4> QED BY <1>2, <4>1
    <3> QED BY <3>1, <3>2, <3>3
  <2>5. u = t
    <3> HIDE DEF u
    <3> QED BY <2>2, <2>3, <2>4, SeqEqual DEF Events
  <2> QED BY <2>5
<1>7. /\ q \in Events /\ Len(a) \in 0 .. Len(q)
      /\ Len(a) + Len(m) + 1 \in 1 .. Len(q) + 1 /\ Len(a) < Len(a) + Len(m) + 1
  BY <1>1, <1>3
<1> DEFINE i == Len(a)
           j == Len(a) + Len(m) + 1
<1>8. /\ i \in 0 .. Len(q) /\ j \in 1 .. Len(q) + 1 /\ i < j
      /\ SubSeq(q, 1, i) = a /\ SubSeq(q, j, Len(q)) = t
  BY <1>5, <1>6, <1>7
<1> HIDE DEF i, j
<1> QED BY <1>8, Zenon DEF q

(* So a step that takes a run of neighbours out of the queue discards it. *)
LEMMA CutDiscards ==
    ASSUME NEW a \in Events, NEW m \in Events, NEW t \in Events,
           Queue = Joined(a, m, t), Queue' = a \o t, UNCHANGED <<produced, handled>>
    PROVE  Delivery!Discard
<1>1. PICK i \in 0 .. Len(Joined(a, m, t)), j \in 1 .. Len(Joined(a, m, t)) + 1 :
          /\ i < j
          /\ SubSeq(Joined(a, m, t), 1, i) = a
          /\ SubSeq(Joined(a, m, t), j, Len(Joined(a, m, t))) = t
  BY CutOut, Zenon
<1>2. \E x \in 0 .. Len(Queue), y \in 1 .. Len(Queue) + 1 :
          /\ x < y
          /\ Queue' = SubSeq(Queue, 1, x) \o SubSeq(Queue, y, Len(Queue))
  BY <1>1, Zenon
<1> QED BY <1>2, Zenon DEF Delivery!Discard, Queue

LEMMA FlightIsSeq == ASSUME IInv PROVE InFlight \in Events /\ Queue \in Events
  BY Concat DEF IInv, SeqsOK, InFlight, Queue

(* An event that the ring buffer takes is captured, another is refused. *)
LEMMA ProbeMaps == ASSUME IInv, Probe PROVE Delivery!Capture \/ Delivery!Refuse
<1>1. CASE Len(ring) < RingSize
  <2>1. Append(ring, produced + 1) = ring \o <<produced + 1>>
    BY AppendIsConcat DEF IInv, SeqsOK, Events
  <2>2. Append(InFlight \o ring, produced + 1) = (InFlight \o ring) \o <<produced + 1>>
    BY FlightIsSeq, AppendIsConcat DEF IInv, SeqsOK, Events, Queue
  <2>3. InFlight' = InFlight
    BY DEF Probe, InFlight
  <2>4. (InFlight \o ring)' = Append(InFlight \o ring, produced + 1)
    BY <1>1, <2>1, <2>2, <2>3 DEF Probe
  <2> QED BY <2>4 DEF Probe, Delivery!Capture
<1>2. CASE ~(Len(ring) < RingSize)
  BY <1>2 DEF Probe, InFlight, Delivery!Refuse
<1> QED BY <1>1, <1>2

(* A sample that decodes stays in the queue, another is discarded. *)
LEMMA ReadMaps ==
    ASSUME IInv, Read
    PROVE  Delivery!Discard \/ UNCHANGED Delivery!deliveryVars
<1> DEFINE e == Head(ring)
           rest == Tail(ring)
<1>1. <<e>> \in Events /\ rest \in Events /\ ring = <<e>> \o rest /\ ring' = rest
  BY HeadThenTail DEF Read, IInv, SeqsOK
<1>2. e \in Malformed \/ (sample = << >> /\ sample' = <<e>>)
  BY DEF Read, IInv, SeqsOK
<1>3. e \in Malformed => sample' = sample
  BY DEF Read
<1>4. UNCHANGED <<produced, handled, events, event, rawEvents>>
  BY DEF Read
<1> HIDE DEF e, rest
<1>5. Queue = InFlight \o (<<e>> \o rest) /\ Queue = Joined(InFlight, <<e>>, rest)
  BY <1>1 DEF Queue, Joined
<1>6. CASE e \in Malformed
  <2>1. Queue' = InFlight \o rest
    BY <1>1, <1>3, <1>4, <1>6 DEF Queue, InFlight
  <2> QED BY <1>1, <1>4, <1>5, <2>1, FlightIsSeq, CutDiscards
<1>7. CASE e \notin Malformed
  <2>1. InFlight' = events \o event \o rawEvents \o <<e>>
    BY <1>2, <1>4, <1>7 DEF InFlight
  <2>2. InFlight = events \o event \o rawEvents
    BY <1>2, <1>7, Concat DEF IInv, SeqsOK, InFlight
  <2>3. Queue' = Queue
    BY <1>1, <1>5, <2>1, <2>2 DEF Queue
  <2> QED BY <1>4, <2>3 DEF Queue, Delivery!deliveryVars
<1> QED BY <1>6, <1>7

(* Within the path an event changes its place, not its place in the queue. *)
LEMMA MoveMaps ==
    ASSUME IInv, SendSample \/ Convert \/ SendEvent
    PROVE  UNCHANGED Delivery!deliveryVars
<1>1. UNCHANGED <<produced, handled, ring>>
  BY DEF SendSample, Convert, SendEvent
<1>2. /\ events \in Events /\ event \in Events /\ rawEvents \in Events
      /\ sample \in Events
  BY DEF IInv, SeqsOK
<1>3. CASE SendSample
  <2>1. InFlight' = events \o event \o (rawEvents \o sample) \o << >>
    BY <1>3 DEF SendSample, InFlight
  <2>2. InFlight' = InFlight
    <3> DEFINE all == events \o event \o (rawEvents \o sample)
    <3>1. all \o << >> = all
      <4>1. all \in Events
        BY <1>2, Concat
      <4> HIDE DEF all
      <4> QED BY <4>1, Concat
    <3> QED BY <2>1, <3>1 DEF InFlight
  <2> QED BY <1>1, <2>2 DEF Delivery!deliveryVars
<1>4. CASE Convert
  <2> DEFINE e == Head(rawEvents)
             rest == Tail(rawEvents)
  <2>1. event = << >> /\ rawEvents = <<e>> \o rest
    BY <1>4, HeadThenTail DEF Convert, IInv, SeqsOK
  <2>2. /\ event' = <<e>> /\ rawEvents' = rest
        /\ events' = events /\ sample' = sample
    BY <1>4 DEF Convert
  <2> HIDE DEF e, rest
  <2>3. InFlight' = events \o <<e>> \o rest \o sample
    BY <2>2 DEF InFlight
  <2>4. InFlight = events \o rawEvents \o sample
    BY <1>2, <2>1, Concat DEF InFlight
  <2>5. InFlight' = InFlight
    BY <2>1, <2>3, <2>4
  <2> QED BY <1>1, <2>5 DEF Delivery!deliveryVars
<1>5. CASE SendEvent
  <2>1. InFlight' = (events \o event) \o << >> \o rawEvents \o sample
    BY <1>5 DEF SendEvent, InFlight
  <2>2. (events \o event) \o << >> = events \o event
    BY <1>2, Concat
  <2>3. InFlight' = InFlight
    BY <2>1, <2>2 DEF InFlight
  <2> QED BY <1>1, <2>3 DEF Delivery!deliveryVars
<1> QED BY <1>3, <1>4, <1>5

(* The oldest event in flight is the one that Run takes. *)
LEMMA HandleMaps == ASSUME IInv, Handle PROVE Delivery!Deliver
<1> DEFINE e == Head(events)
           left == Tail(events)
           rest == left \o event \o rawEvents \o sample \o ring
<1>1. /\ e \in Nat /\ <<e>> \in Events /\ left \in Events
      /\ events = <<e>> \o left
  BY HeadThenTail DEF Handle, IInv, SeqsOK
<1>2. Queue = <<e>> \o rest
  <2> HIDE DEF e, left
  <2>1. Queue = (<<e>> \o left) \o event \o rawEvents \o sample \o ring
    BY <1>1 DEF Queue, InFlight
  <2>2. (<<e>> \o left) \o event \o rawEvents \o sample \o ring = <<e>> \o rest
    OBVIOUS
  <2> QED BY <2>1, <2>2
<1>3. Queue' = rest
  BY DEF Handle, Queue, InFlight
<1>4. rest \in Events
  BY <1>1, Concat DEF IInv, SeqsOK
<1>5. Queue # << >> /\ Head(Queue) = e /\ Tail(Queue) = rest
  <2> HIDE DEF e, rest
  <2>1. /\ Len(<<e>>) = 1 /\ <<e>>[1] = e
        /\ Queue \in Events /\ Len(Queue) = 1 + Len(rest)
        /\ \A i \in 1 .. 1 + Len(rest) :
              Queue[i] = IF i <= 1 THEN <<e>>[i] ELSE rest[i - 1]
    BY <1>1, <1>2, <1>4, ConcatProperties DEF Events
  <2>2. Len(rest) \in Nat
    BY <1>4, LenProperties DEF Events
  <2>3. Queue # << >>
    BY <2>1, <2>2, EmptySeq DEF Events
  <2>4. Head(Queue) = e
    BY <2>1, <2>2, <2>3
  <2>5. /\ Tail(Queue) \in Events /\ Len(Tail(Queue)) = Len(Queue) - 1
        /\ \A i \in 1 .. Len(Tail(Queue)) : Tail(Queue)[i] = Queue[i + 1]
    BY <2>1, <2>3, HeadTailProperties DEF Events
  <2>6. Len(Tail(Queue)) = Len(rest)
    BY <2>1, <2>2, <2>5
  <2>7. ASSUME NEW i \in 1 .. Len(rest) PROVE Tail(Queue)[i] = rest[i]
    <3>1. i + 1 \in 1 .. 1 + Len(rest) /\ ~(i + 1 <= 1) /\ (i + 1) - 1 = i
      BY <2>2
    <3>2. Queue[i + 1] = rest[i]
      BY <2>1, <3>1
    <3> QED BY <2>5, <2>6, <3>2
  <2>8. Tail(Queue) = rest
    BY <1>4, <2>5, <2>6, <2>7, SeqEqual DEF Events
  <2> QED BY <2>3, <2>4, <2>8
<1> QED
  <2> HIDE DEF rest
  <2> QED BY <1>3, <1>5 DEF Handle, Queue, Delivery!Deliver

(* Closing the ring buffer discards what it holds. *)
LEMMA ShutdownMaps == ASSUME IInv, Shutdown PROVE Delivery!Discard
<1>1. Queue = Joined(InFlight, ring, << >>) /\ ring \in Events /\ << >> \in Events
  BY Concat DEF IInv, SeqsOK, Queue, Joined
<1>2. Queue' = InFlight \o << >>
  BY DEF Shutdown, Queue, InFlight
<1> QED BY <1>1, <1>2, FlightIsSeq, CutDiscards DEF Shutdown

LEMMA NextMaps ==
    ASSUME IInv, [Next]_vars
    PROVE  [Delivery!Next]_Delivery!deliveryVars
<1>1. CASE Probe
  BY <1>1, ProbeMaps DEF Delivery!Next
<1>2. CASE Read
  BY <1>2, ReadMaps DEF Delivery!Next
<1>3. CASE SendSample \/ Convert \/ SendEvent
  BY <1>3, MoveMaps
<1>4. CASE Handle
  BY <1>4, HandleMaps DEF Delivery!Next
<1>5. CASE Shutdown
  BY <1>5, ShutdownMaps DEF Delivery!Next
<1>6. CASE ReaderStops \/ ConverterStops \/ RunReturns \/ Signal \/ Join \/ Exit
  <2>1. UNCHANGED <<produced, handled, ring, InFlight>>
    BY <1>6 DEF ReaderStops, ConverterStops, RunReturns, Signal, Join, Exit, InFlight
  <2> QED BY <2>1 DEF Delivery!deliveryVars
<1>7. CASE Exited \/ UNCHANGED vars
  BY <1>7 DEF Exited, vars, InFlight, Delivery!deliveryVars
<1> QED BY <1>1, <1>2, <1>3, <1>4, <1>5, <1>6, <1>7
    DEF Next, Reader, Converter, Run, Main

(* The path implements one queue, which may refuse events and drop them while
   they wait, but delivers the others once and in the order the kernel
   produced them (probes, loader.go, convert.go, main.go).                  *)
THEOREM PathImplementsDelivery == Spec => ImplementsDelivery
<1>1. Init => Delivery!Init
  BY Concat DEF Init, InFlight, Delivery!Init
<1>2. IInv /\ [Next]_vars => [Delivery!Next]_Delivery!deliveryVars
  BY NextMaps
<1> QED BY <1>1, <1>2, InitIInv, NextIInv, PTL
    DEF Spec, ImplementsDelivery, Delivery!Spec
=============================================================================
