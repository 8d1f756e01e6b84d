------------------------------ MODULE EventPath ------------------------------
(***************************************************************************)
(* The way of an event from the eBPF probes to pipeline.Run, and how it is *)
(* torn down: the ring buffer, loader.ReadEvents, the channel rawEvents,   *)
(* the converter goroutine, the channel events, and the two shutdown       *)
(* branches of main.  Events are numbered in the order the probes reserve  *)
(* ring buffer space for them.                                             *)
(***************************************************************************)
EXTENDS Integers, FiniteSets, Sequences, SequencesExt

CONSTANTS
    RingSize,    \* records the ring buffer holds
    BufSize,     \* capacity of rawEvents and of events (main.go:171)
    MaxEvents,   \* bound: events the kernel produces
    Malformed    \* events whose sample does not decode

ASSUME SizesAssumption ==
    /\ RingSize \in Nat \ {0} /\ BufSize \in Nat \ {0} /\ MaxEvents \in Nat
    /\ Malformed \subseteq 1 .. MaxEvents

VARIABLES
    produced,     \* events produced so far
    ring,         \* committed, unread ring buffer records
    loader,       \* "open" or "closed"
    reader,       \* ReadEvents: "read", "send" or "done"
    sample,       \* what the reader is sending: << >> or <<event>>
    rawEvents, rawClosed,
    converter,    \* "receive", "send" or "done"
    event,        \* what the converter is sending
    events, eventsClosed,
    run,          \* pipeline.Run: "running" or "done" (pipelineDone closed)
    handled,      \* events Run received, oldest first
    readLog,      \* decoded events, in the order they were read
    signalled,    \* ctx.Done() is closed
    main          \* "select", "join" (wg.Wait), "drain" (<-pipelineDone), "exited"

vars == <<produced, ring, loader, reader, sample, rawEvents, rawClosed, converter,
          event, events, eventsClosed, run, handled, readLog, signalled, main>>

Init ==
    /\ produced = 0 /\ ring = << >> /\ loader = "open"
    /\ reader = "read" /\ sample = << >>
    /\ rawEvents = << >> /\ rawClosed = FALSE
    /\ converter = "receive" /\ event = << >>
    /\ events = << >> /\ eventsClosed = FALSE
    /\ run = "running" /\ handled = << >> /\ readLog = << >>
    /\ signalled = FALSE /\ main = "select"

-----------------------------------------------------------------------------
(* A probe: bpf_ringbuf_reserve fails when the buffer is full, and the event
   is lost without a trace.                                                 *)
Probe ==
    /\ loader = "open"
    /\ produced < MaxEvents
    /\ produced' = produced + 1
    /\ ring' = IF Len(ring) < RingSize THEN Append(ring, produced + 1) ELSE ring
    /\ UNCHANGED <<loader, reader, sample, rawEvents, rawClosed, converter, event,
                   events, eventsClosed, run, handled, readLog, signalled, main>>

(* One turn of the loop in ReadEvents: a sample that does not decode is
   skipped.                                                                 *)
Read ==
    /\ reader = "read" /\ loader = "open" /\ ring # << >>
    /\ ring' = Tail(ring)
    /\ IF Head(ring) \in Malformed
       THEN UNCHANGED <<reader, sample, readLog>>
       ELSE /\ reader' = "send" /\ sample' = <<Head(ring)>>
            /\ readLog' = Append(readLog, Head(ring))
    /\ UNCHANGED <<produced, loader, rawEvents, rawClosed, converter, event, events,
                   eventsClosed, run, handled, signalled, main>>

(* Mutant: the reader gives up its sample when the loader is closed. *)
SendSampleOrGiveUp ==
    /\ reader = "send"
    /\ \/ Len(rawEvents) < BufSize /\ rawEvents' = rawEvents \o sample
       \/ loader = "closed" /\ UNCHANGED rawEvents
    /\ sample' = << >>
    /\ reader' = "read"
    /\ UNCHANGED <<produced, ring, loader, rawClosed, converter, event, events,
                   eventsClosed, run, handled, readLog, signalled, main>>

(* out <- sample, which blocks while the channel is full. *)
SendSample ==
    /\ reader = "send" /\ Len(rawEvents) < BufSize
    /\ rawEvents' = rawEvents \o sample
    /\ sample' = << >>
    /\ reader' = "read"
    /\ UNCHANGED <<produced, ring, loader, rawClosed, converter, event, events,
                   eventsClosed, run, handled, readLog, signalled, main>>

(* rd.Read returns an error: the reader was closed, or failed by itself.  The
   deferred close(rawEvents) follows.                                       *)
ReaderStops ==
    /\ reader = "read"
    /\ reader' = "done" /\ rawClosed' = TRUE
    /\ UNCHANGED <<produced, ring, loader, sample, rawEvents, converter, event,
                   events, eventsClosed, run, handled, readLog, signalled, main>>

Convert ==
    /\ converter = "receive" /\ rawEvents # << >>
    /\ event' = <<Head(rawEvents)>>
    /\ rawEvents' = Tail(rawEvents)
    /\ converter' = "send"
    /\ UNCHANGED <<produced, ring, loader, reader, sample, rawClosed, events,
                   eventsClosed, run, handled, readLog, signalled, main>>

(* Mutant: an event overtakes the one that waits in the channel. *)
SendEventFirst ==
    /\ converter = "send" /\ Len(events) < BufSize
    /\ events' = event \o events
    /\ event' = << >>
    /\ converter' = "receive"
    /\ UNCHANGED <<produced, ring, loader, reader, sample, rawEvents, rawClosed,
                   eventsClosed, run, handled, readLog, signalled, main>>

SendEvent ==
    /\ converter = "send" /\ Len(events) < BufSize
    /\ events' = events \o event
    /\ event' = << >>
    /\ converter' = "receive"
    /\ UNCHANGED <<produced, ring, loader, reader, sample, rawEvents, rawClosed,
                   eventsClosed, run, handled, readLog, signalled, main>>

(* Mutant: the converter stops as soon as the channel is closed. *)
ConverterStopsEarly ==
    /\ converter = "receive" /\ rawClosed
    /\ converter' = "done" /\ eventsClosed' = TRUE
    /\ UNCHANGED <<produced, ring, loader, reader, sample, rawEvents, rawClosed,
                   event, events, run, handled, readLog, signalled, main>>

(* range rawEvents ends when the channel is closed and drained. *)
ConverterStops ==
    /\ converter = "receive" /\ rawEvents = << >> /\ rawClosed
    /\ converter' = "done" /\ eventsClosed' = TRUE
    /\ UNCHANGED <<produced, ring, loader, reader, sample, rawEvents, rawClosed,
                   event, events, run, handled, readLog, signalled, main>>

Handle ==
    /\ run = "running" /\ events # << >>
    /\ handled' = Append(handled, Head(events))
    /\ events' = Tail(events)
    /\ UNCHANGED <<produced, ring, loader, reader, sample, rawEvents, rawClosed,
                   converter, event, eventsClosed, run, readLog, signalled, main>>

RunReturns ==
    /\ run = "running" /\ events = << >> /\ eventsClosed
    /\ run' = "done"
    /\ UNCHANGED <<produced, ring, loader, reader, sample, rawEvents, rawClosed,
                   converter, event, events, eventsClosed, handled, readLog,
                   signalled, main>>

Signal ==
    /\ ~signalled
    /\ signalled' = TRUE
    /\ UNCHANGED <<produced, ring, loader, reader, sample, rawEvents, rawClosed,
                   converter, event, events, eventsClosed, run, handled, readLog,
                   main>>

(* Mutant: the join begins with the loader still open. *)
ShutdownLeavesLoader ==
    /\ main = "select"
    /\ signalled \/ run = "done"
    /\ main' = "join"
    /\ UNCHANGED <<produced, ring, loader, reader, sample, rawEvents, rawClosed,
                   converter, event, events, eventsClosed, run, handled, readLog,
                   signalled>>

(* The select of main: either branch closes the loader (once) and joins; what
   is still in the ring buffer is never read.                               *)
Shutdown ==
    /\ main = "select"
    /\ signalled \/ run = "done"
    /\ loader' = "closed" /\ ring' = << >>
    /\ main' = "join"
    /\ UNCHANGED <<produced, reader, sample, rawEvents, rawClosed, converter, event,
                   events, eventsClosed, run, handled, readLog, signalled>>

Join ==
    /\ main = "join" /\ reader = "done" /\ converter = "done"
    /\ main' = "drain"
    /\ UNCHANGED <<produced, ring, loader, reader, sample, rawEvents, rawClosed,
                   converter, event, events, eventsClosed, run, handled, readLog,
                   signalled>>

(* Mutant: main does not wait for the pipeline. *)
ExitAtOnce ==
    /\ main = "drain"
    /\ main' = "exited"
    /\ UNCHANGED <<produced, ring, loader, reader, sample, rawEvents, rawClosed,
                   converter, event, events, eventsClosed, run, handled, readLog,
                   signalled>>

Exit ==
    /\ main = "drain" /\ run = "done"
    /\ main' = "exited"
    /\ UNCHANGED <<produced, ring, loader, reader, sample, rawEvents, rawClosed,
                   converter, event, events, eventsClosed, run, handled, readLog,
                   signalled>>

Exited == main = "exited" /\ UNCHANGED vars

Reader == Read \/ SendSample \/ (loader = "closed" /\ ReaderStops)
Converter == Convert \/ SendEvent \/ ConverterStops
Run == Handle \/ RunReturns
Main == Shutdown \/ Join \/ Exit

Next ==
    \/ Probe \/ Reader \/ ReaderStops \/ Converter \/ Run \/ Signal \/ Main \/ Exited

Spec == Init /\ [][Next]_vars

(* Every goroutine is scheduled.  Nothing obliges the kernel to produce an
   event, the reader to fail or a signal to come.                           *)
FairSpec == /\ Spec
            /\ WF_vars(Reader) /\ WF_vars(Converter) /\ WF_vars(Run) /\ WF_vars(Main)

-----------------------------------------------------------------------------
(* From the oldest to the newest: what was read and not yet handled. *)
InFlight == events \o event \o rawEvents \o sample

(* The state is well formed: who holds an event is about to send it. *)
TypeOK ==
    /\ produced \in 0 .. MaxEvents
    /\ Len(ring) <= RingSize /\ Len(rawEvents) <= BufSize /\ Len(events) <= BufSize
    /\ loader \in {"open", "closed"}
    /\ reader \in {"read", "send", "done"} /\ (sample # << >>) <=> (reader = "send")
    /\ converter \in {"receive", "send", "done"}
    /\ (event # << >>) <=> (converter = "send")
    /\ run \in {"running", "done"} /\ signalled \in BOOLEAN
    /\ main \in {"select", "join", "drain", "exited"}

(* Between the reader and the analysis loop nothing is lost, duplicated or
   reordered, at any capacity and through every way of shutting down; when
   main exits both channels were drained, and all that was read is handled. *)
ReadIsHandledOrInFlight ==
    /\ readLog = handled \o InFlight
    /\ (main = "exited") => handled = readLog

(* A channel is closed only when nobody will send on it any more (a send on a
   closed channel panics), and Run is done only when all before it is.      *)
ClosedInOrder ==
    /\ rawClosed <=> (reader = "done")
    /\ eventsClosed => (rawClosed /\ rawEvents = << >> /\ converter = "done")
    /\ (run = "done") => (eventsClosed /\ InFlight = << >>)

(* The path implements one queue: a refinement of EventDelivery, the ring
   buffer, both channels and the two hands between them being the queue.    *)
Delivery == INSTANCE EventDelivery WITH waiting <- InFlight \o ring
ImplementsDelivery == Delivery!Spec

(* What was read is handled, however slow the stages are and also when the
   shutdown begins in between.                                              *)
ReadLeadsToHandled ==
    \A e \in 1 .. MaxEvents :
        Contains(readLog, e) ~> Contains(handled, e)

(* A signal, or a reader that fails by itself, leads to exit: with both
   channels full each goroutine waits only for the one behind it.           *)
StopLeadsToExit == (signalled \/ reader = "done") ~> (main = "exited")
=============================================================================
