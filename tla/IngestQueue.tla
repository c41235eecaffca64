----------------------------- MODULE IngestQueue ----------------------------
(***************************************************************************)
(* The analytics ingest path (crates/liyasa-store/src/ingest.rs): request   *)
(* handlers push events into a bounded buffer of three lanes, and one       *)
(* writer per instance drains it into transactions, with the raw events in  *)
(* segment files instead when the sink says so, the drop counters carried   *)
(* along and a last drain at shutdown.                                      *)
(*                                                                          *)
(* An action is one section under the buffer's lock, one atomic operation   *)
(* on a counter, one file or one statement.  An event is pushed once, and   *)
(* the events of a class are numbered as they are pushed.  Not modelled:    *)
(* checkpoints, the gauges of the metrics endpoint, the columns.            *)
(***************************************************************************)
EXTENDS Naturals, Sequences, SequencesExt, FiniteSets

CONSTANTS
    Events,       \* numbers
    Class,        \* of an event: 1 interaction, 2 search or view, 3 critical
    Capacity,     \* the buffer's
    Batch,        \* events per transaction
    Pressure,     \* the depth from which the buffer is under pressure
    RawSink,      \* "database", "files" or "auto"
    MaxFailures   \* bound: failed segments and statements

Classes == 1..3

ASSUME ClassAssumption == Events \subseteq Nat /\ Class \in [Events -> Classes]
ASSUME SizeAssumption == {Capacity, Batch, Pressure} \subseteq Nat \ {0} /\ MaxFailures \in Nat
ASSUME SinkAssumption == RawSink \in {"database", "files", "auto"}

VARIABLES
    buf,        \* the lanes: a sequence of events per class
    pushed,     \* the events offered so far
    drops,      \* the drop counters of the metrics, per class
    wr,         \* what the writer is at
    over,       \* how long the buffer has been under pressure
    spilling,
    db,         \* raw events in table event
    files,      \* raw events in segment files
    agg,        \* how often each event was added to agg_hour
    table,      \* ingest_drops, per class
    stop,       \* the shutdown signal
    dropped,    \* history: the events evicted or refused
    lost,       \* history: the events of failed transactions
    late,       \* history: the events pushed after the signal
    spoiled,    \* history: the classes whose row of ingest_drops has failed
    failures

stores == <<db, files, agg, table>>
history == <<dropped, lost, late, spoiled, failures>>
vars == <<buf, pushed, drops, wr, over, spilling, stores, stop, history>>

Depth == Len(buf[1]) + Len(buf[2]) + Len(buf[3])
Buffered == UNION {ToSet(buf[c]) : c \in Classes}

-----------------------------------------------------------------------------
(* Slip: the buffer takes one event more than its capacity.                 *)
FullPast == Depth > Capacity
Full == Depth >= Capacity

(* Slip: an event makes room among its own class too.                       *)
EvictableUpTo(c) == {d \in {1, 2} : d <= c /\ buf[d] # <<>>}

(* The lanes make_room_for may take from.                                   *)
Evictable(c) == {d \in {1, 2} : d < c /\ buf[d] # <<>>}

CountDrop(e) ==
    /\ drops' = [drops EXCEPT ![Class[e]] = @ + 1]
    /\ dropped' = dropped \cup {e}

PushBack(lanes, e) == buf' = [lanes EXCEPT ![Class[e]] = Append(@, e)]

Push(e) ==
    /\ e \notin pushed
    /\ \A f \in Events \ pushed : Class[f] = Class[e] => e <= f
    /\ pushed' = pushed \cup {e}
    /\ late' = IF stop THEN late \cup {e} ELSE late
    /\ \/ /\ ~Full
          /\ PushBack(buf, e)
          /\ UNCHANGED <<drops, dropped>>
       \/ /\ Full
          /\ \E d \in Evictable(Class[e]) :
               /\ \A other \in Evictable(Class[e]) : d <= other
               /\ CountDrop(Head(buf[d]))
               /\ PushBack([buf EXCEPT ![d] = Tail(@)], e)
       \/ /\ Full /\ Evictable(Class[e]) = {}
          /\ CountDrop(e)
          /\ UNCHANGED buf
    /\ UNCHANGED <<wr, over, spilling, stores, stop, lost, spoiled, failures>>

(* A signal to stop: axum stops accepting and the writer stops too, while   *)
(* the handlers of open requests may still push (serve.rs, serve).          *)
Stop ==
    /\ ~stop
    /\ stop' = TRUE
    /\ UNCHANGED <<buf, pushed, drops, wr, over, spilling, stores, history>>

-----------------------------------------------------------------------------
(* The writer: final says that it is in the drain at shutdown.              *)
Waiting == [pc |-> "wait", final |-> FALSE, batch |-> {}, todb |-> TRUE, class |-> 1,
            swapped |-> 0, add |-> [c \in Classes |-> 0]]

Goto(pc) == wr' = [wr EXCEPT !.pc = pc]
Flushing(final) == wr' = [Waiting EXCEPT !.pc = "flush", !.final = final]

(* Slip: the last drain is one flush.                                       *)
ReturnsOnce(n) ==
    CASE wr.final -> wr' = [Waiting EXCEPT !.pc = "gone"]
      [] ~wr.final /\ n >= Batch -> Flushing(FALSE)
      [] OTHER -> wr' = Waiting

(* What run does with the result of a flush that wrote n events, ...        *)
Returns(n) ==
    CASE wr.final -> wr' = [Waiting EXCEPT !.pc = "depth", !.final = TRUE]
      [] ~wr.final /\ n >= Batch -> Flushing(FALSE)
      [] OTHER -> wr' = Waiting

(* Slip: the writer ends with its first error.                              *)
EndsOnError == wr' = [Waiting EXCEPT !.pc = "gone"]

(* ... and with its error.                                                  *)
Errs == wr' = IF wr.final THEN [Waiting EXCEPT !.pc = "gone"] ELSE Waiting

(* The notification or the interval, ...                                    *)
Wake ==
    /\ wr.pc = "wait"
    /\ Flushing(FALSE)
    /\ UNCHANGED <<buf, pushed, drops, over, spilling, stores, stop, history>>

(* ... or the shutdown.                                                     *)
SeeStop ==
    /\ wr.pc = "wait" /\ stop
    /\ wr' = [Waiting EXCEPT !.pc = "depth", !.final = TRUE]
    /\ UNCHANGED <<buf, pushed, drops, over, spilling, stores, stop, history>>

(* The last drain goes on while the buffer holds anything.                  *)
LastFlush ==
    /\ wr.pc = "depth"
    /\ IF Depth > 0 THEN Flushing(TRUE) ELSE Goto("gone")
    /\ UNCHANGED <<buf, pushed, drops, over, spilling, stores, stop, history>>

-----------------------------------------------------------------------------
(* flush.  update_pressure; the window may or may not have passed.          *)
UpdatePressure ==
    /\ wr.pc = "flush"
    /\ IF Depth < Pressure
       THEN over' = FALSE /\ spilling' = FALSE
       ELSE /\ over' = TRUE
            /\ spilling' \in {spilling} \cup (IF over /\ RawSink = "auto" THEN {TRUE} ELSE {})
    /\ Goto("drain")
    /\ UNCHANGED <<buf, pushed, drops, stores, stop, history>>

Least(a, b) == IF a < b THEN a ELSE b

(* How many each lane gives to a batch.                                     *)
Taken ==
    LET n3 == Least(Batch, Len(buf[3]))
        n2 == Least(Batch - n3, Len(buf[2]))
    IN  <<Least(Batch - n3 - n2, Len(buf[1])), n2, n3>>

Spills == RawSink = "files" \/ (RawSink = "auto" /\ spilling)

Drain ==
    /\ wr.pc = "drain"
    /\ IF Depth = 0
       THEN Returns(0) /\ UNCHANGED buf
       ELSE /\ wr' = [wr EXCEPT
                        !.pc = IF Spills THEN "segment" ELSE "swap",
                        !.batch = UNION {ToSet(SubSeq(buf[c], 1, Taken[c])) : c \in Classes}]
            /\ buf' = [c \in Classes |-> SubSeq(buf[c], Taken[c] + 1, Len(buf[c]))]
    /\ UNCHANGED <<pushed, drops, over, spilling, stores, stop, history>>

(* Slip: the raw rows of a batch whose segment failed are not inserted.     *)
SegmentIgnored ==
    /\ wr.pc = "segment"
    /\ \/ files' = files \cup wr.batch /\ UNCHANGED failures
       \/ /\ failures < MaxFailures
          /\ failures' = failures + 1
          /\ UNCHANGED files
    /\ wr' = [wr EXCEPT !.pc = "swap", !.todb = FALSE]
    /\ UNCHANGED <<buf, pushed, drops, over, spilling, db, agg, table, stop,
                   dropped, lost, late, spoiled>>

(* write_segment, which may fail half way; the raw rows then go to the      *)
(* database after all.                                                      *)
WriteSegment ==
    /\ wr.pc = "segment"
    /\ \/ /\ files' = files \cup wr.batch
          /\ wr' = [wr EXCEPT !.pc = "swap", !.todb = FALSE]
          /\ UNCHANGED failures
       \/ /\ failures < MaxFailures
          /\ failures' = failures + 1
          /\ \E S \in SUBSET wr.batch : files' = files \cup S
          /\ Goto("swap")
    /\ UNCHANGED <<buf, pushed, drops, over, spilling, db, agg, table, stop,
                   dropped, lost, late, spoiled>>

NextClass == wr' = [wr EXCEPT !.pc = IF wr.class = 3 THEN "commit" ELSE "swap",
                              !.class = IF wr.class = 3 THEN 3 ELSE wr.class + 1,
                              !.swapped = 0,
                              !.add[wr.class] = wr.swapped]

(* With the rows of the batch inserted, the counter of a class is taken     *)
(* down ...                                                                 *)
SwapDrops ==
    /\ wr.pc = "swap"
    /\ IF drops[wr.class] = 0
       THEN NextClass /\ UNCHANGED drops
       ELSE /\ wr' = [wr EXCEPT !.pc = "record", !.swapped = drops[wr.class]]
            /\ drops' = [drops EXCEPT ![wr.class] = 0]
    /\ UNCHANGED <<buf, pushed, over, spilling, stores, stop, history>>

(* Slip: the total is stored, not added.                                    *)
StoreDrops ==
    /\ wr.pc = "record"
    /\ drops' = [drops EXCEPT ![wr.class] = wr.swapped]
    /\ NextClass
    /\ UNCHANGED <<buf, pushed, over, spilling, stores, stop, history>>

(* ... added to the day's row, and put back.                                *)
RecordDrops ==
    /\ wr.pc = "record"
    /\ drops' = [drops EXCEPT ![wr.class] = @ + wr.swapped]
    /\ NextClass
    /\ UNCHANGED <<buf, pushed, over, spilling, stores, stop, history>>

Commit ==
    /\ wr.pc = "commit"
    /\ agg' = [e \in Events |-> IF e \in wr.batch THEN agg[e] + 1 ELSE agg[e]]
    /\ db' = IF wr.todb THEN db \cup wr.batch ELSE db
    /\ table' = [c \in Classes |-> table[c] + wr.add[c]]
    /\ Returns(Cardinality(wr.batch))
    /\ UNCHANGED <<buf, pushed, drops, over, spilling, files, stop, history>>

(* A statement fails: the transaction and the batch are gone, and so is a   *)
(* counter that has been taken down and not put back.                       *)
StatementFails ==
    /\ wr.pc \in {"swap", "record", "commit"}
    /\ failures < MaxFailures
    /\ failures' = failures + 1
    /\ lost' = lost \cup wr.batch
    /\ spoiled' = IF wr.pc = "record" THEN spoiled \cup {wr.class} ELSE spoiled
    /\ Errs
    /\ UNCHANGED <<buf, pushed, drops, over, spilling, stores, stop, dropped, late>>

-----------------------------------------------------------------------------
Init ==
    /\ buf = [c \in Classes |-> <<>>]
    /\ pushed = {}
    /\ drops = [c \in Classes |-> 0]
    /\ wr = Waiting
    /\ over = FALSE /\ spilling = FALSE
    /\ db = {} /\ files = {}
    /\ agg = [e \in Events |-> 0]
    /\ table = [c \in Classes |-> 0]
    /\ stop = FALSE
    /\ dropped = {} /\ lost = {} /\ late = {} /\ spoiled = {}
    /\ failures = 0

Flush ==
    \/ UpdatePressure \/ Drain \/ WriteSegment
    \/ SwapDrops \/ RecordDrops \/ Commit

Writer == Wake \/ SeeStop \/ LastFlush \/ Flush

Next ==
    \/ \E e \in Events : Push(e)
    \/ Stop
    \/ Writer
    \/ StatementFails

(* The writer's task is polled and its statements return.                   *)
Spec == Init /\ [][Next]_vars /\ WF_vars(Writer) /\ WF_vars(SeeStop)

-----------------------------------------------------------------------------
(* Types, and the bound of the buffer.                                      *)
TypeOK ==
    /\ buf \in [Classes -> Seq(Events)] /\ Depth <= Capacity
    /\ pushed \subseteq Events
    /\ drops \in [Classes -> Nat]
    /\ wr \in [pc : {"wait", "depth", "flush", "drain", "segment", "swap", "record",
                     "commit", "gone"},
               final : BOOLEAN, batch : SUBSET Events, todb : BOOLEAN, class : Classes,
               swapped : Nat, add : [Classes -> Nat]]
    /\ {over, spilling, stop} \subseteq BOOLEAN
    /\ db \subseteq Events /\ files \subseteq Events
    /\ agg \in [Events -> Nat]
    /\ table \in [Classes -> Nat]
    /\ dropped \subseteq Events /\ lost \subseteq Events /\ late \subseteq Events
    /\ spoiled \subseteq Classes
    /\ failures \in 0..MaxFailures

(* The fate of an event.                                                    *)
Fate ==
    [e \in Events |->
        CASE e \in dropped -> "dropped"
          [] e \in lost -> "failed"
          [] agg[e] = 1 -> "kept"
          [] e \in wr.batch /\ agg[e] = 0 /\ e \notin lost -> "taken"
          [] e \in Buffered -> "waiting"
          [] OTHER -> "new"]

Sink == INSTANCE LossySink WITH fate <- Fate

(* Every event has one fate, is added to the hourly counts at most once, is *)
(* never evicted for one of its own class or taken while a higher class     *)
(* waits (the header of ingest.rs: "lowest class first").                   *)
SinkSpec == Sink!Spec

(* "the drops are counted": while a flush carries the counters through its  *)
(* transaction and other threads count on, no drop is forgotten or counted  *)
(* twice, unless the statement that records them fails.                     *)
DropsAreCounted ==
    \A c \in Classes \ spoiled :
        Cardinality({e \in dropped : Class[e] = c})
          = drops[c] + (IF wr.pc = "record" /\ wr.class = c THEN wr.swapped ELSE 0)

(* An event in the hourly counts has its raw record, in the table or in a   *)
(* segment file, whichever sink was chosen and whatever failed.             *)
RawIsKept == \A e \in Events : agg[e] > 0 => e \in db \cup files

(* The shutdown drain: what was pushed before the signal is not left in the *)
(* buffer when the writer is gone, unless a statement failed.               *)
NothingLeftBehind == wr.pc = "gone" /\ failures = 0 => Buffered \subseteq late

(* What is in the buffer or in a batch is stored, dropped or lost with its  *)
(* transaction, until the writer is told to stop: a failed batch does not   *)
(* end the writer, and no event stays behind the others for ever.           *)
BufferSettles ==
    (Buffered \cup wr.batch # {}) ~> (Buffered \cup wr.batch = {} \/ stop)

(* Does not hold (README, other departures).                                *)
(* What ingest_drops says was dropped was dropped.                          *)
TableCountsDrops ==
    \A c \in Classes : table[c] <= Cardinality({e \in dropped : Class[e] = c})
=============================================================================
