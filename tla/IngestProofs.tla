---------------------------- MODULE IngestProofs ----------------------------
(***************************************************************************)
(* For any number of events, any capacity, batch and pressure, every sink   *)
(* and any number of failures: the buffer keeps its bound, every drop is    *)
(* counted once, an aggregated event has its raw record, the shutdown       *)
(* leaves nothing behind, and the queue implements LossySink.               *)
(***************************************************************************)
EXTENDS IngestQueue, FiniteSetTheorems, SequenceTheorems, TLAPS

Within(lane, S) == \A i \in 1 .. Len(lane) : lane[i] \in S

(* A lane holds events of its class, each once.                             *)
OfOneClass(c, lane) ==
    \A i, j \in 1 .. Len(lane) : Class[lane[i]] = c /\ (lane[i] = lane[j] => i = j)

LanesOK ==
    /\ buf \in [Classes -> Seq(Events)]
    /\ \A c \in Classes : OfOneClass(c, buf[c]) /\ Within(buf[c], pushed \ dropped)
    /\ pushed \subseteq Events /\ dropped \subseteq pushed /\ late \subseteq pushed
    /\ IsFiniteSet(dropped)

WriterStates ==
    [pc : {"wait", "depth", "flush", "drain", "segment", "swap", "record", "commit", "gone"},
     final : BOOLEAN, batch : SUBSET Events, todb : BOOLEAN, class : Classes,
     swapped : Nat, add : [Classes -> Nat]]

WriterOK ==
    /\ wr \in WriterStates
    /\ {over, spilling, stop} \subseteq BOOLEAN
    /\ wr.final \/ wr.pc \in {"depth", "gone"} => stop

StoresOK ==
    /\ drops \in [Classes -> Nat] /\ table \in [Classes -> Nat]
    /\ agg \in [Events -> Nat]
    /\ db \subseteq Events /\ files \subseteq Events /\ lost \subseteq Events
    /\ spoiled \subseteq Classes /\ failures \in 0..MaxFailures

(* Before its rows are inserted, a batch that is kept from the database is  *)
(* in the files.                                                            *)
RawOK ==
    /\ RawIsKept
    /\ wr.pc \in {"swap", "record", "commit"} /\ ~wr.todb => wr.batch \subseteq files
    /\ wr.pc \in {"flush", "drain", "segment"} => wr.todb

Drained ==
    wr.pc = "gone" /\ failures = 0 => \A c \in Classes : Within(buf[c], late)

IngestInv ==
    /\ LanesOK /\ Depth <= Capacity
    /\ WriterOK /\ StoresOK
    /\ DropsAreCounted /\ RawOK /\ Drained

-----------------------------------------------------------------------------
(* Lanes.                                                                   *)
LEMMA AppendedLane ==
    ASSUME NEW c \in Classes, NEW lane \in Seq(Events), NEW e \in Events, NEW S,
           OfOneClass(c, lane), Within(lane, S), e \notin S, Class[e] = c
    PROVE  /\ Append(lane, e) \in Seq(Events) /\ Len(Append(lane, e)) = Len(lane) + 1
           /\ OfOneClass(c, Append(lane, e))
           /\ Within(Append(lane, e), S \cup {e})
<1> DEFINE new == Append(lane, e)
<1>1. /\ new \in Seq(Events) /\ Len(new) = Len(lane) + 1 /\ Len(lane) \in Nat
      /\ \A i \in 1 .. Len(lane) : new[i] = lane[i]
      /\ new[Len(lane) + 1] = e
  BY AppendProperties, LenProperties
<1> HIDE DEF new
<1>2. \A i \in 1 .. Len(new) : i \in 1 .. Len(lane) \/ i = Len(lane) + 1
  BY <1>1
<1>3. OfOneClass(c, new)
  BY <1>1, <1>2 DEF OfOneClass, Within
<1>4. Within(new, S \cup {e})
  BY <1>1, <1>2 DEF Within
<1> QED BY <1>1, <1>3, <1>4 DEF new

LEMMA AppendedWithin ==
    ASSUME NEW lane \in Seq(Events), NEW e \in Events, NEW S, Within(lane, S)
    PROVE  Within(Append(lane, e), S \cup {e})
<1> DEFINE new == Append(lane, e)
<1>1. /\ Len(new) = Len(lane) + 1 /\ Len(lane) \in Nat
      /\ \A i \in 1 .. Len(lane) : new[i] = lane[i]
      /\ new[Len(lane) + 1] = e
  BY AppendProperties, LenProperties
<1> HIDE DEF new
<1>2. \A i \in 1 .. Len(new) : i \in 1 .. Len(lane) \/ i = Len(lane) + 1
  BY <1>1
<1>3. Within(new, S \cup {e})
  BY <1>1, <1>2 DEF Within
<1> QED BY <1>3 DEF new

LEMMA TailOfLane ==
    ASSUME NEW c \in Classes, NEW lane \in Seq(Events), lane # <<>>, OfOneClass(c, lane),
           NEW S, Within(lane, S)
    PROVE  /\ Head(lane) \in S \cap Events /\ Class[Head(lane)] = c
           /\ Tail(lane) \in Seq(Events) /\ Len(Tail(lane)) = Len(lane) - 1
           /\ OfOneClass(c, Tail(lane)) /\ Within(Tail(lane), S \ {Head(lane)})
<1> DEFINE new == Tail(lane)
<1>1. /\ new \in Seq(Events) /\ Len(new) = Len(lane) - 1 /\ Head(lane) \in Events
      /\ \A i \in 1 .. Len(new) : new[i] = lane[i + 1]
  BY HeadTailProperties
<1>2. Len(lane) \in Nat /\ Len(lane) > 0 /\ Head(lane) = lane[1]
  BY LenProperties, EmptySeq
<1> HIDE DEF new
<1>3. \A i \in 1 .. Len(new) : i + 1 \in 1 .. Len(lane) /\ i + 1 # 1
  BY <1>1, <1>2
<1>4. 1 \in 1 .. Len(lane)
  BY <1>2
<1>5. OfOneClass(c, new)
  BY <1>1, <1>3 DEF OfOneClass
<1>6. Within(new, S \ {Head(lane)})
  BY <1>1, <1>2, <1>3, <1>4 DEF OfOneClass, Within
<1>7. Head(lane) \in S /\ Class[Head(lane)] = c
  BY <1>2, <1>4 DEF OfOneClass, Within
<1> QED BY <1>1, <1>5, <1>6, <1>7 DEF new

LEMMA RestOfLane ==
    ASSUME NEW c \in Classes, NEW lane \in Seq(Events), OfOneClass(c, lane),
           NEW S, Within(lane, S), NEW n \in 0 .. Len(lane)
    PROVE  /\ SubSeq(lane, n + 1, Len(lane)) \in Seq(Events)
           /\ Len(SubSeq(lane, n + 1, Len(lane))) = Len(lane) - n
           /\ OfOneClass(c, SubSeq(lane, n + 1, Len(lane)))
           /\ Within(SubSeq(lane, n + 1, Len(lane)), S)
<1> DEFINE new == SubSeq(lane, n + 1, Len(lane))
<1>1. Len(lane) \in Nat /\ n \in Nat /\ \A i \in 1 .. Len(lane) : lane[i] \in Events
  BY LenProperties, ElementOfSeq
<1>2. \A i \in n + 1 .. Len(lane) : lane[i] \in Events
  BY <1>1
<1>3. /\ new \in Seq(Events)
      /\ Len(new) = IF n + 1 <= Len(lane) THEN Len(lane) - (n + 1) + 1 ELSE 0
      /\ \A i \in 1 .. Len(lane) - (n + 1) + 1 : new[i] = lane[(n + 1) + i - 1]
  <2>1. n + 1 \in Int /\ Len(lane) \in Int
    BY <1>1
  <2> QED BY <1>2, <2>1, SubSeqProperties
<1> HIDE DEF new
<1>4. Len(new) = Len(lane) - n /\ \A i \in 1 .. Len(new) : new[i] = lane[n + i] /\ n + i \in 1 .. Len(lane)
  BY <1>1, <1>3
<1>5. OfOneClass(c, new)
  BY <1>1, <1>4 DEF OfOneClass
<1>6. Within(new, S)
  BY <1>4 DEF Within
<1> QED BY <1>3, <1>4, <1>5, <1>6 DEF new

LEMMA TakenFromLane ==
    ASSUME NEW lane \in Seq(Events), NEW n \in 0 .. Len(lane)
    PROVE  ToSet(SubSeq(lane, 1, n)) \subseteq Events
<1>1. \A i \in 1 .. n : lane[i] \in Events
  BY LenProperties, ElementOfSeq
<1>2. SubSeq(lane, 1, n) \in Seq(Events)
  BY <1>1, SubSeqProperties
<1> QED BY <1>2, ElementOfSeq, LenProperties DEF ToSet

(* Another lane's events are untouched by a drop from this one.             *)
LEMMA OtherLane ==
    ASSUME NEW c \in Classes, NEW lane, OfOneClass(c, lane), NEW S, Within(lane, S),
           NEW x, Class[x] # c
    PROVE  Within(lane, S \ {x})
BY DEF OfOneClass, Within

LEMMA WiderLane ==
    ASSUME NEW lane, NEW S, Within(lane, S), NEW T, S \subseteq T
    PROVE  Within(lane, T)
BY DEF Within

-----------------------------------------------------------------------------
(* Counting.                                                                *)
LEMMA ThreeClasses ==
    /\ 1 \in Classes /\ 2 \in Classes /\ 3 \in Classes
    /\ \A c \in Classes : c = 1 \/ c = 2 \/ c = 3
BY DEF Classes

LEMMA Sizes == {Capacity, Batch, Pressure} \subseteq Nat /\ Capacity >= 0 /\ MaxFailures >= 0
BY SizeAssumption

(* The depth moves with the one or two lanes that do.                       *)
LEMMA DepthMoves ==
    ASSUME NEW f, NEW g, NEW up \in Classes, NEW down \in Classes \cup {0}, up # down,
           \A c \in Classes : f[c] \in Nat,
           \A c \in Classes : g[c] = IF c = up THEN f[c] + 1
                                     ELSE IF c = down THEN f[c] - 1 ELSE f[c]
    PROVE  g[1] + g[2] + g[3] = f[1] + f[2] + f[3] + (IF down = 0 THEN 1 ELSE 0)
<1>1. CASE up = 1
  BY <1>1, ThreeClasses
<1>2. CASE up = 2
  BY <1>2, ThreeClasses
<1>3. CASE up = 3
  BY <1>3, ThreeClasses
<1> QED BY <1>1, <1>2, <1>3, ThreeClasses

LEMMA DepthIsNat ==
    ASSUME \A c \in Classes : Len(buf[c]) \in Nat
    PROVE  Depth \in Nat
<1>1. Len(buf[1]) \in Nat /\ Len(buf[2]) \in Nat /\ Len(buf[3]) \in Nat
  BY ThreeClasses
<1>2. PICK n1 \in Nat : n1 = Len(buf[1])
  BY <1>1
<1>3. PICK n2 \in Nat : n2 = Len(buf[2])
  BY <1>1
<1>4. PICK n3 \in Nat : n3 = Len(buf[3])
  BY <1>1
<1>5. Depth = n1 + n2 + n3
  BY <1>2, <1>3, <1>4 DEF Depth
<1> QED BY <1>5

OfClass(D, c) == {e \in D : Class[e] = c}

LEMMA OneMore ==
    ASSUME NEW D, IsFiniteSet(D), NEW x, x \notin D, NEW c
    PROVE  /\ IsFiniteSet(D \cup {x})
           /\ Cardinality(OfClass(D, c)) \in Nat
           /\ Cardinality(OfClass(D \cup {x}, c))
                = Cardinality(OfClass(D, c)) + (IF Class[x] = c THEN 1 ELSE 0)
<1>1. IsFiniteSet(OfClass(D, c)) /\ IsFiniteSet(D \cup {x})
  BY FS_Subset, FS_AddElement DEF OfClass
<1>2. Cardinality(OfClass(D, c)) \in Nat
  BY <1>1, FS_CardinalityType
<1>3. CASE Class[x] = c
  <2>1. OfClass(D \cup {x}, c) = OfClass(D, c) \cup {x} /\ x \notin OfClass(D, c)
    BY <1>3 DEF OfClass
  <2> QED BY <1>1, <1>2, <1>3, <2>1, FS_AddElement
<1>4. CASE Class[x] # c
  <2>1. OfClass(D \cup {x}, c) = OfClass(D, c)
    BY <1>4 DEF OfClass
  <2> QED BY <1>1, <1>2, <1>4, <2>1
<1> QED BY <1>3, <1>4

LEMMA DropCounted ==
    ASSUME IngestInv, NEW x \in Events, x \notin dropped, CountDrop(x),
           UNCHANGED <<wr, spoiled>>
    PROVE  /\ DropsAreCounted' /\ IsFiniteSet(dropped') /\ drops' \in [Classes -> Nat]
           /\ dropped' = dropped \cup {x}
<1> USE DEF IngestInv, StoresOK, LanesOK
<1>1. Class[x] \in Classes /\ dropped' = dropped \cup {x}
      /\ drops' = [drops EXCEPT ![Class[x]] = @ + 1]
  BY ClassAssumption DEF CountDrop
<1>2. drops' \in [Classes -> Nat]
  BY <1>1
<1>3. ASSUME NEW c \in Classes \ spoiled
      PROVE  Cardinality(OfClass(dropped', c))
               = drops'[c] + (IF wr.pc = "record" /\ wr.class = c THEN wr.swapped ELSE 0)
  <2>1. Cardinality(OfClass(dropped, c))
          = drops[c] + (IF wr.pc = "record" /\ wr.class = c THEN wr.swapped ELSE 0)
    BY <1>3 DEF DropsAreCounted, OfClass
  <2>2. Cardinality(OfClass(dropped', c))
          = Cardinality(OfClass(dropped, c)) + (IF Class[x] = c THEN 1 ELSE 0)
    BY <1>1, OneMore
  <2>3. drops'[c] = drops[c] + (IF Class[x] = c THEN 1 ELSE 0) /\ drops[c] \in Nat
    BY <1>1, <1>3
  <2>4. PICK k \in Nat : k = IF wr.pc = "record" /\ wr.class = c THEN wr.swapped ELSE 0
    BY DEF WriterOK, WriterStates
  <2>5. PICK more \in Nat : more = IF Class[x] = c THEN 1 ELSE 0
    OBVIOUS
  <2>6. PICK n \in Nat : n = drops[c]
    BY <2>3
  <2>7. Cardinality(OfClass(dropped', c)) = n + k + more /\ drops'[c] = n + more
    BY <2>1, <2>2, <2>3, <2>4, <2>5, <2>6
  <2>8. n + k + more = (n + more) + k
    OBVIOUS
  <2> QED BY <2>4, <2>7, <2>8
<1>4. DropsAreCounted'
  BY <1>3 DEF DropsAreCounted, OfClass
<1> QED BY <1>1, <1>2, <1>4, OneMore

-----------------------------------------------------------------------------
(* Steps that leave parts alone.                                            *)
LEMMA LanesKept ==
    ASSUME IngestInv, UNCHANGED <<buf, pushed, dropped, late>>
    PROVE  LanesOK' /\ (Depth <= Capacity)'
BY DEF IngestInv, LanesOK, Depth

(* Between two steps of the writer that are not about the counters.         *)
LEMMA CountsKept ==
    ASSUME IngestInv, UNCHANGED <<drops, dropped, spoiled>>,
           wr.pc # "record", wr'.pc # "record"
    PROVE  DropsAreCounted'
BY DEF IngestInv, DropsAreCounted

-----------------------------------------------------------------------------
LEMMA InitIngest == Init => IngestInv
<1> SUFFICES ASSUME Init PROVE IngestInv
  OBVIOUS
<1>1. \A c \in Classes : buf[c] = <<>> /\ Len(buf[c]) = 0
  BY DEF Init
<1>2. LanesOK
  BY <1>1, EmptySeq, FS_EmptySet DEF Init, LanesOK, OfOneClass, Within
<1>3. Depth <= Capacity
  <2>1. Len(buf[1]) = 0 /\ Len(buf[2]) = 0 /\ Len(buf[3]) = 0
    BY <1>1, ThreeClasses
  <2>2. Depth = 0
    BY <2>1 DEF Depth
  <2> QED BY <2>2, Sizes
<1>4. WriterOK
  <2>1. 1 \in Classes /\ [c \in Classes |-> 0] \in [Classes -> Nat]
    BY ThreeClasses
  <2>2. wr = [pc |-> "wait", final |-> FALSE, batch |-> {}, todb |-> TRUE, class |-> 1,
              swapped |-> 0, add |-> [c \in Classes |-> 0]]
    BY DEF Init, Waiting
  <2>3. over = FALSE /\ spilling = FALSE /\ stop = FALSE
    BY DEF Init
  <2> QED BY <2>1, <2>2, <2>3 DEF WriterOK, WriterStates
<1>5. StoresOK
  BY SizeAssumption DEF Init, StoresOK
<1>6. DropsAreCounted
  <2>1. \A c \in Classes : {e \in dropped : Class[e] = c} = {}
    BY DEF Init
  <2>2. wr.pc # "record" /\ \A c \in Classes : drops[c] = 0
    BY DEF Init, Waiting
  <2> QED BY <2>1, <2>2, FS_EmptySet DEF DropsAreCounted
<1>7. RawOK /\ Drained
  BY DEF Init, RawOK, RawIsKept, Drained, Waiting
<1> QED BY <1>2, <1>3, <1>4, <1>5, <1>6, <1>7 DEF IngestInv

-----------------------------------------------------------------------------
(* A request pushes an event: it is appended, after an eviction or not, or  *)
(* refused.                                                                 *)
LEMMA PushKeeps == ASSUME IngestInv, NEW e \in Events, Push(e) PROVE IngestInv'
<1> USE DEF IngestInv
<1> DEFINE c0 == Class[e]
<1>1. /\ e \notin pushed /\ pushed' = pushed \cup {e}
      /\ late' = IF stop THEN late \cup {e} ELSE late
      /\ UNCHANGED <<wr, over, spilling, db, files, agg, table, stop, lost, spoiled, failures>>
  BY DEF Push, stores
<1>2. c0 \in Classes /\ e \notin dropped /\ e \notin pushed \ dropped
  BY <1>1, ClassAssumption DEF LanesOK
<1>3. \A c \in Classes : buf[c] \in Seq(Events) /\ Len(buf[c]) \in Nat
  BY LenProperties DEF LanesOK
<1>4. WriterOK' /\ RawOK'
  BY <1>1 DEF WriterOK, RawOK, RawIsKept
<1>5. pushed' \subseteq Events /\ late' \subseteq pushed' /\ late \subseteq late'
  BY <1>1 DEF LanesOK
<1>6. stop => e \in late'
  BY <1>1
<1>7. wr.pc = "gone" => stop
  BY DEF WriterOK
<1>8. CASE ~Full /\ PushBack(buf, e) /\ UNCHANGED <<drops, dropped>>
  <2>1. buf' = [buf EXCEPT ![c0] = Append(buf[c0], e)]
    BY <1>8 DEF PushBack
  <2>2. /\ Append(buf[c0], e) \in Seq(Events) /\ Len(Append(buf[c0], e)) = Len(buf[c0]) + 1
        /\ OfOneClass(c0, Append(buf[c0], e))
        /\ Within(Append(buf[c0], e), (pushed \ dropped) \cup {e})
    BY <1>2, <1>3, AppendedLane DEF LanesOK
  <2>3. (pushed \ dropped) \cup {e} \subseteq pushed' \ dropped' /\ dropped' \subseteq pushed'
    BY <1>1, <1>2, <1>8 DEF LanesOK
  <2>4. LanesOK'
    <3>1. buf' \in [Classes -> Seq(Events)]
      BY <2>1, <2>2 DEF LanesOK
    <3>2. ASSUME NEW c \in Classes PROVE OfOneClass(c, buf'[c]) /\ Within(buf'[c], pushed' \ dropped')
      <4>1. CASE c = c0
        BY <2>1, <2>2, <2>3, <4>1, WiderLane DEF LanesOK
      <4>2. CASE c # c0
        BY <2>1, <2>3, <4>2, WiderLane DEF LanesOK
      <4> QED BY <4>1, <4>2
    <3> QED BY <1>5, <1>8, <2>3, <3>1, <3>2 DEF LanesOK
  <2>5. (Depth <= Capacity)'
    <3>1. Len(buf'[1]) + Len(buf'[2]) + Len(buf'[3]) = Depth + 1
      <4> DEFINE f == [c \in Classes |-> Len(buf[c])]
                 g == [c \in Classes |-> Len(buf'[c])]
      <4>1. \A c \in Classes : g[c] = IF c = c0 THEN f[c] + 1 ELSE f[c]
        BY <2>1, <2>2 DEF LanesOK
      <4>2. \A c \in Classes : f[c] \in Nat
        BY <1>3
      <4>3. 0 \notin Classes /\ c0 # 0
        BY <1>2 DEF Classes
      <4>4. g[1] + g[2] + g[3] = f[1] + f[2] + f[3] + 1
        <5>1. \A c \in Classes : g[c] = IF c = c0 THEN f[c] + 1
                                        ELSE IF c = 0 THEN f[c] - 1 ELSE f[c]
          BY <4>1, <4>3
        <5> HIDE DEF f, g
        <5> QED BY <1>2, <4>2, <4>3, <5>1, DepthMoves
      <4> QED BY <4>4, ThreeClasses DEF Depth
    <3>2. Depth \in Nat /\ Capacity \in Nat /\ Depth < Capacity
      <4>1. Depth \in Nat
        BY <1>3, DepthIsNat
      <4>2. Capacity \in Nat
        BY Sizes
      <4>3. ~ (Depth >= Capacity)
        BY <1>8 DEF Full
      <4> QED BY <4>1, <4>2, <4>3
    <3>3. Depth' = Depth + 1
      BY <3>1 DEF Depth
    <3> QED BY <3>2, <3>3
  <2>6. StoresOK' /\ DropsAreCounted'
    BY <1>1, <1>8 DEF StoresOK, DropsAreCounted
  <2>7. Drained'
    <3> SUFFICES ASSUME wr.pc = "gone", failures = 0, NEW c \in Classes PROVE Within(buf'[c], late')
      BY <1>1 DEF Drained
    <3>1. Within(buf[c], late) /\ Within(buf[c], late') /\ e \in late'
      BY <1>5, <1>6, <1>7, WiderLane DEF Drained
    <3>2. late' \cup {e} = late'
      BY <3>1
    <3>3. Within(Append(buf[c], e), late')
      BY <1>3, <3>1, <3>2, AppendedWithin
    <3> QED BY <2>1, <3>1, <3>3 DEF LanesOK
  <2> QED BY <1>4, <2>4, <2>5, <2>6, <2>7
<1>9. ASSUME NEW d \in Evictable(c0), Full, CountDrop(Head(buf[d])),
             PushBack([buf EXCEPT ![d] = Tail(@)], e)
      PROVE  IngestInv'
  <2> DEFINE x == Head(buf[d])
             rest == (pushed \ dropped) \ {x}
  <2>1. d \in Classes /\ d # c0 /\ buf[d] # <<>>
    BY <1>2, <1>9 DEF Evictable, Classes
  <2>2. /\ x \in pushed \ dropped /\ x \in Events /\ Class[x] = d
        /\ Tail(buf[d]) \in Seq(Events) /\ Len(Tail(buf[d])) = Len(buf[d]) - 1
        /\ OfOneClass(d, Tail(buf[d])) /\ Within(Tail(buf[d]), rest)
    <3>1. buf[d] \in Seq(Events) /\ OfOneClass(d, buf[d]) /\ Within(buf[d], pushed \ dropped)
      BY <2>1 DEF LanesOK
    <3> QED BY <2>1, <3>1, TailOfLane
  <2>3. buf' = [buf EXCEPT ![d] = Tail(buf[d]), ![c0] = Append(buf[c0], e)]
    BY <1>9, <2>1, <1>2 DEF PushBack, LanesOK
  <2>4. DropsAreCounted' /\ IsFiniteSet(dropped') /\ drops' \in [Classes -> Nat]
        /\ dropped' = dropped \cup {x}
    BY <1>1, <1>9, <2>2, DropCounted
  <2>5. rest \cup {e} \subseteq pushed' \ dropped' /\ e \notin rest /\ dropped' \subseteq pushed'
    BY <1>1, <1>2, <2>2, <2>4 DEF LanesOK
  <2>6. \A c \in Classes \ {d} : Within(buf[c], rest)
    BY <2>2, OtherLane DEF LanesOK
  <2>7. /\ Append(buf[c0], e) \in Seq(Events) /\ Len(Append(buf[c0], e)) = Len(buf[c0]) + 1
        /\ OfOneClass(c0, Append(buf[c0], e))
        /\ Within(Append(buf[c0], e), rest \cup {e})
    <3> HIDE DEF rest
    <3> QED BY <1>2, <1>3, <2>1, <2>5, <2>6, AppendedLane DEF LanesOK
  <2>8. \A c \in Classes : buf'[c] = IF c = c0 THEN Append(buf[c0], e)
                                    ELSE IF c = d THEN Tail(buf[d]) ELSE buf[c]
    BY <1>2, <2>1, <2>3 DEF LanesOK
  <2>9. LanesOK'
    <3> HIDE DEF rest, x
    <3>1. buf' \in [Classes -> Seq(Events)]
      BY <1>3, <2>2, <2>3, <2>7 DEF LanesOK
    <3>2. ASSUME NEW c \in Classes PROVE OfOneClass(c, buf'[c]) /\ Within(buf'[c], pushed' \ dropped')
      <4>1. rest \subseteq pushed' \ dropped'
        BY <2>5
      <4>2. CASE c = c0
        BY <2>5, <2>7, <2>8, <4>2, WiderLane
      <4>3. CASE c = d
        BY <2>1, <2>2, <2>8, <4>1, <4>3, WiderLane
      <4>4. CASE c # c0 /\ c # d
        BY <2>6, <2>8, <4>1, <4>4, WiderLane DEF LanesOK
      <4> QED BY <4>2, <4>3, <4>4
    <3> QED BY <1>5, <2>4, <2>5, <3>1, <3>2 DEF LanesOK
  <2>10. (Depth <= Capacity)'
    <3>1. Len(buf'[1]) + Len(buf'[2]) + Len(buf'[3]) = Depth
      <4> DEFINE f == [c \in Classes |-> Len(buf[c])]
                 g == [c \in Classes |-> Len(buf'[c])]
      <4>1. \A c \in Classes : g[c] = IF c = c0 THEN f[c] + 1
                                      ELSE IF c = d THEN f[c] - 1 ELSE f[c]
        BY <2>2, <2>7, <2>8
      <4>2. \A c \in Classes : f[c] \in Nat
        BY <1>3
      <4>3. d # 0
        BY <2>1 DEF Classes
      <4>4. g[1] + g[2] + g[3] = f[1] + f[2] + f[3] + 0
        <5> HIDE DEF f, g
        <5> QED BY <1>2, <2>1, <4>1, <4>2, <4>3, DepthMoves
      <4>5. f[1] \in Nat /\ f[2] \in Nat /\ f[3] \in Nat
        BY <4>2, ThreeClasses
      <4>6. g[1] + g[2] + g[3] = f[1] + f[2] + f[3]
        <5> HIDE DEF f, g
        <5> QED BY <4>4, <4>5
      <4> QED BY <4>6, ThreeClasses DEF Depth
    <3> QED BY <3>1 DEF Depth
  <2>11. StoresOK'
    BY <1>1, <2>4 DEF StoresOK
  <2>12. Drained'
    <3> SUFFICES ASSUME wr.pc = "gone", failures = 0, NEW c \in Classes PROVE Within(buf'[c], late')
      BY <1>1 DEF Drained
    <3>1. \A b \in Classes : Within(buf[b], late)
      BY DEF Drained
    <3>2. Within(Append(buf[c0], e), late')
      <4>1. Within(buf[c0], late')
        BY <1>2, <1>5, <3>1, WiderLane
      <4>2. late' \cup {e} = late'
        BY <1>6, <1>7
      <4> QED BY <1>2, <1>3, <4>1, <4>2, AppendedWithin
    <3>3. Within(Tail(buf[d]), late')
      <4>1. Within(Tail(buf[d]), late \ {x})
        BY <1>3, <2>1, <3>1, TailOfLane DEF LanesOK
      <4>2. late \ {x} \subseteq late'
        BY <1>5
      <4> QED BY <4>1, <4>2, WiderLane
    <3>4. Within(buf[c], late')
      BY <1>5, <3>1, WiderLane
    <3> QED BY <2>8, <3>2, <3>3, <3>4
  <2> QED BY <1>4, <2>4, <2>9, <2>10, <2>11, <2>12
<1>10. CASE CountDrop(e) /\ UNCHANGED buf
  <2>1. DropsAreCounted' /\ IsFiniteSet(dropped') /\ drops' \in [Classes -> Nat]
        /\ dropped' = dropped \cup {e}
    BY <1>1, <1>2, <1>10, DropCounted
  <2>2. pushed' \ dropped' = pushed \ dropped /\ dropped' \subseteq pushed'
    BY <1>1, <2>1 DEF LanesOK
  <2>3. LanesOK'
    BY <1>5, <1>10, <2>1, <2>2 DEF LanesOK
  <2>4. (Depth <= Capacity)' /\ StoresOK'
    BY <1>1, <1>10, <2>1 DEF Depth, StoresOK
  <2>5. Drained'
    BY <1>1, <1>5, <1>10, WiderLane DEF Drained
  <2> QED BY <1>4, <2>1, <2>3, <2>4, <2>5
<1> QED BY <1>8, <1>9, <1>10 DEF Push

-----------------------------------------------------------------------------
(* The writer between flushes.                                              *)
LEMMA Anew ==
    ASSUME NEW pc \in {"wait", "depth", "flush", "gone"}, NEW final \in BOOLEAN
    PROVE  LET w == [Waiting EXCEPT !.pc = pc, !.final = final]
           IN  w \in WriterStates /\ w.pc = pc /\ w.final = final /\ w.todb = TRUE
<1>1. 1 \in Classes /\ [c \in Classes |-> 0] \in [Classes -> Nat]
  BY ThreeClasses
<1>2. Waiting \in WriterStates /\ Waiting.todb = TRUE
  BY <1>1 DEF Waiting, WriterStates
<1> QED BY <1>2 DEF WriterStates

LEMMA AnewPc ==
    ASSUME NEW pc \in {"wait", "depth", "flush", "gone"}
    PROVE  LET w == [Waiting EXCEPT !.pc = pc]
           IN  w \in WriterStates /\ w.pc = pc /\ w.final = FALSE
<1>1. 1 \in Classes /\ [c \in Classes |-> 0] \in [Classes -> Nat]
  BY ThreeClasses
<1>2. Waiting \in WriterStates /\ Waiting.final = FALSE
  BY <1>1 DEF Waiting, WriterStates
<1> QED BY <1>2 DEF WriterStates

LEMMA WaitsAgain ==
    /\ Waiting \in WriterStates /\ Waiting.pc = "wait"
    /\ Waiting.final = FALSE /\ Waiting.todb = TRUE
<1>1. 1 \in Classes /\ [c \in Classes |-> 0] \in [Classes -> Nat]
  BY ThreeClasses
<1> QED BY <1>1 DEF Waiting, WriterStates

LEMMA GoesOn ==
    ASSUME WriterOK, NEW pc, Goto(pc)
    PROVE  wr' = [wr EXCEPT !.pc = pc] /\ wr'.pc = pc /\ wr'.final = wr.final
           /\ wr'.batch = wr.batch /\ wr'.todb = wr.todb
BY DEF WriterOK, WriterStates, Goto

(* A flush returns: only the last drain's leads back to the depth.          *)
LEMMA ReturnsTo ==
    ASSUME WriterOK, NEW n, Returns(n)
    PROVE  wr' \in WriterStates /\ wr'.pc \in {"wait", "depth", "flush"}
           /\ (wr'.final \/ wr'.pc = "depth" => wr.final) /\ wr'.todb = TRUE
<1>1. CASE wr.final /\ wr' = [Waiting EXCEPT !.pc = "depth", !.final = TRUE]
  BY <1>1, Anew
<1>2. CASE ~wr.final /\ wr' = [Waiting EXCEPT !.pc = "flush", !.final = FALSE]
  BY <1>2, Anew
<1>3. CASE wr' = Waiting
  BY <1>3, WaitsAgain
<1>4. wr.final \in BOOLEAN
  BY DEF WriterOK, WriterStates
<1>5. \/ wr.final /\ wr' = [Waiting EXCEPT !.pc = "depth", !.final = TRUE]
      \/ ~wr.final /\ wr' = [Waiting EXCEPT !.pc = "flush", !.final = FALSE]
      \/ wr' = Waiting
  BY <1>4 DEF Returns, Flushing
<1> QED BY <1>1, <1>2, <1>3, <1>5

LEMMA StopKeeps == ASSUME IngestInv, Stop PROVE IngestInv'
<1> USE DEF IngestInv
<1>1. UNCHANGED <<buf, pushed, drops, wr, over, spilling, db, files, agg, table,
                  dropped, lost, late, spoiled, failures>> /\ stop' = TRUE
  BY DEF Stop, stores, history
<1> QED BY <1>1 DEF LanesOK, Depth, WriterOK, StoresOK, DropsAreCounted, RawOK, RawIsKept, Drained

(* Wake, SeeStop and LastFlush move the writer only.                        *)
LEMMA TurnKeeps ==
    ASSUME IngestInv, Wake \/ SeeStop \/ LastFlush
    PROVE  IngestInv'
<1> USE DEF IngestInv
<1>1. UNCHANGED <<buf, pushed, drops, over, spilling, db, files, agg, table, stop,
                  dropped, lost, late, spoiled, failures>>
  BY DEF Wake, SeeStop, LastFlush, stores, history
<1>2. wr.pc \in {"wait", "depth"}
  BY DEF Wake, SeeStop, LastFlush
<1>3. /\ wr' \in WriterStates /\ wr'.pc \in {"depth", "flush", "gone"}
      /\ wr'.final \/ wr'.pc \in {"depth", "gone"} => stop
      /\ wr'.pc = "gone" => ~ (Depth > 0)
      /\ wr'.pc = "flush" => wr'.todb
  <2>1. CASE Wake
    BY <2>1, Anew DEF Wake, Flushing
  <2>2. CASE SeeStop
    BY <2>2, Anew DEF SeeStop
  <2>3. CASE LastFlush
    <3>1. stop
      BY <2>3 DEF LastFlush, WriterOK
    <3>2. CASE Depth > 0
      BY <2>3, <3>1, <3>2, Anew DEF LastFlush, Flushing
    <3>3. CASE ~ (Depth > 0)
      <4>1. Goto("gone")
        BY <2>3, <3>3 DEF LastFlush
      <4>2. wr' = [wr EXCEPT !.pc = "gone"] /\ wr'.pc = "gone"
        BY <4>1, GoesOn
      <4> QED BY <3>1, <3>3, <4>2 DEF WriterOK, WriterStates
    <3> QED BY <3>2, <3>3
  <2> QED BY <2>1, <2>2, <2>3
<1>4. LanesOK' /\ (Depth <= Capacity)'
  BY <1>1, LanesKept
<1>5. WriterOK' /\ StoresOK' /\ RawOK'
  BY <1>1, <1>3 DEF WriterOK, StoresOK, RawOK, RawIsKept
<1>6. DropsAreCounted'
  BY <1>1, <1>2, <1>3, CountsKept
<1>7. Drained'
  <2> SUFFICES ASSUME wr'.pc = "gone", NEW c \in Classes PROVE Within(buf[c], late)
    BY <1>1 DEF Drained
  <2>1. \A b \in Classes : Len(buf[b]) \in Nat
    BY LenProperties DEF LanesOK
  <2>2. Len(buf[c]) = 0
    <3>1. PICK n1 \in Nat : n1 = Len(buf[1])
      BY <2>1, ThreeClasses
    <3>2. PICK n2 \in Nat : n2 = Len(buf[2])
      BY <2>1, ThreeClasses
    <3>3. PICK n3 \in Nat : n3 = Len(buf[3])
      BY <2>1, ThreeClasses
    <3>4. ~ (n1 + n2 + n3 > 0)
      BY <1>3, <3>1, <3>2, <3>3 DEF Depth
    <3>5. n1 = 0 /\ n2 = 0 /\ n3 = 0
      BY <3>4
    <3> QED BY <3>1, <3>2, <3>3, <3>5, ThreeClasses
  <2> QED BY <2>2 DEF Within
<1> QED BY <1>4, <1>5, <1>6, <1>7

-----------------------------------------------------------------------------
(* The flush.                                                               *)
LEMMA PressureKeeps == ASSUME IngestInv, UpdatePressure PROVE IngestInv'
<1> USE DEF IngestInv
<1>1. /\ wr.pc = "flush" /\ Goto("drain")
      /\ UNCHANGED <<buf, pushed, drops, db, files, agg, table, stop,
                     dropped, lost, late, spoiled, failures>>
  BY DEF UpdatePressure, stores, history
<1>2. over' \in BOOLEAN /\ spilling' \in BOOLEAN
  BY DEF UpdatePressure, WriterOK
<1>3. wr' = [wr EXCEPT !.pc = "drain"] /\ wr'.pc = "drain" /\ wr'.final = wr.final
  BY <1>1, GoesOn
<1>4. WriterOK'
  BY <1>1, <1>2, <1>3 DEF WriterOK, WriterStates
<1>5. StoresOK' /\ RawOK' /\ Drained'
  BY <1>1, <1>3 DEF StoresOK, RawOK, RawIsKept, Drained
<1>6. DropsAreCounted'
  BY <1>1, <1>3, CountsKept
<1> QED BY <1>1, <1>4, <1>5, <1>6, LanesKept

LEMMA LeastOfTwo ==
    ASSUME NEW a \in Nat, NEW b \in Nat
    PROVE  Least(a, b) \in Nat /\ Least(a, b) <= a /\ Least(a, b) <= b
BY DEF Least

LEMMA TakenBounds ==
    ASSUME \A c \in Classes : Len(buf[c]) \in Nat
    PROVE  \A c \in Classes : Taken[c] \in 0 .. Len(buf[c])
<1>1. PICK n1 \in Nat : n1 = Len(buf[1])
  BY ThreeClasses
<1>2. PICK n2 \in Nat : n2 = Len(buf[2])
  BY ThreeClasses
<1>3. PICK n3 \in Nat : n3 = Len(buf[3])
  BY ThreeClasses
<1>4. PICK b \in Nat : b = Batch
  BY Sizes
<1>5. PICK t3 \in Nat : t3 = Least(b, n3) /\ t3 <= b /\ t3 <= n3
  BY LeastOfTwo
<1>6. b - t3 \in Nat
  BY <1>5
<1>7. PICK t2 \in Nat : t2 = Least(b - t3, n2) /\ t2 <= b - t3 /\ t2 <= n2
  BY <1>6, LeastOfTwo
<1>8. b - t3 - t2 \in Nat
  BY <1>5, <1>7
<1>9. PICK t1 \in Nat : t1 = Least(b - t3 - t2, n1) /\ t1 <= n1
  BY <1>8, LeastOfTwo
<1>10. Taken = <<t1, t2, t3>>
  BY <1>1, <1>2, <1>3, <1>4, <1>5, <1>7, <1>9 DEF Taken
<1>11. t1 \in 0 .. n1 /\ t2 \in 0 .. n2 /\ t3 \in 0 .. n3
  BY <1>5, <1>7, <1>9
<1>12. Taken[1] = t1 /\ Taken[2] = t2 /\ Taken[3] = t3
  BY <1>10
<1>13. SUFFICES ASSUME NEW c \in Classes PROVE Taken[c] \in 0 .. Len(buf[c])
  OBVIOUS
<1> QED BY <1>1, <1>2, <1>3, <1>11, <1>12, ThreeClasses

LEMMA DrainKeeps == ASSUME IngestInv, Drain PROVE IngestInv'
<1> USE DEF IngestInv
<1>1. /\ wr.pc = "drain"
      /\ UNCHANGED <<pushed, drops, over, spilling, db, files, agg, table, stop,
                     dropped, lost, late, spoiled, failures>>
  BY DEF Drain, stores, history
<1>2. StoresOK'
  BY <1>1 DEF StoresOK
<1>3. CASE Depth = 0
  <2>1. Returns(0) /\ UNCHANGED buf
    BY <1>3 DEF Drain
  <2>2. wr' \in WriterStates /\ wr'.pc \in {"wait", "depth", "flush"}
        /\ (wr'.final \/ wr'.pc = "depth" => wr.final) /\ wr'.todb = TRUE
    BY <2>1, ReturnsTo
  <2>3. WriterOK' /\ RawOK' /\ Drained'
    BY <1>1, <2>2 DEF WriterOK, RawOK, RawIsKept, Drained
  <2>4. DropsAreCounted'
    BY <1>1, <2>2, CountsKept
  <2> QED BY <1>1, <1>2, <2>1, <2>3, <2>4, LanesKept
<1>4. CASE Depth # 0
  <2> DEFINE batch == UNION {ToSet(SubSeq(buf[c], 1, Taken[c])) : c \in Classes}
             pc == IF Spills THEN "segment" ELSE "swap"
  <2>1. /\ wr' = [wr EXCEPT !.pc = pc, !.batch = batch]
        /\ buf' = [c \in Classes |-> SubSeq(buf[c], Taken[c] + 1, Len(buf[c]))]
    BY <1>4 DEF Drain
  <2>2. \A c \in Classes : buf[c] \in Seq(Events) /\ Len(buf[c]) \in Nat
    BY LenProperties DEF LanesOK
  <2>3. \A c \in Classes : Taken[c] \in 0 .. Len(buf[c])
    BY <2>2, TakenBounds
  <2>4. batch \subseteq Events
    BY <2>2, <2>3, TakenFromLane
  <2>5. ASSUME NEW c \in Classes
        PROVE  /\ buf'[c] \in Seq(Events) /\ Len(buf'[c]) = Len(buf[c]) - Taken[c]
               /\ OfOneClass(c, buf'[c]) /\ Within(buf'[c], pushed \ dropped)
    BY <2>1, <2>2, <2>3, RestOfLane DEF LanesOK
  <2>6. LanesOK'
    BY <1>1, <2>1, <2>5 DEF LanesOK
  <2>7. (Depth <= Capacity)'
    <3>1. PICK n1 \in Nat, m1 \in Nat : n1 = Len(buf[1]) /\ m1 = Len(buf'[1]) /\ m1 <= n1
      BY <2>2, <2>3, <2>5, ThreeClasses
    <3>2. PICK n2 \in Nat, m2 \in Nat : n2 = Len(buf[2]) /\ m2 = Len(buf'[2]) /\ m2 <= n2
      BY <2>2, <2>3, <2>5, ThreeClasses
    <3>3. PICK n3 \in Nat, m3 \in Nat : n3 = Len(buf[3]) /\ m3 = Len(buf'[3]) /\ m3 <= n3
      BY <2>2, <2>3, <2>5, ThreeClasses
    <3>4. Depth = n1 + n2 + n3 /\ Depth' = m1 + m2 + m3
      BY <3>1, <3>2, <3>3 DEF Depth
    <3>5. PICK k \in Nat : k = Capacity
      BY Sizes
    <3>6. n1 + n2 + n3 <= k
      BY <3>4, <3>5
    <3>7. m1 + m2 + m3 <= k
      <4>1. m1 <= n1 /\ m2 <= n2 /\ m3 <= n3
        BY <3>1, <3>2, <3>3
      <4> QED BY ONLY <3>6, <4>1, m1 \in Nat, m2 \in Nat, m3 \in Nat,
                      n1 \in Nat, n2 \in Nat, n3 \in Nat, k \in Nat
    <3> QED BY <3>4, <3>5, <3>7
  <2>8. /\ wr' \in WriterStates /\ wr'.pc \in {"segment", "swap"} /\ wr'.final = wr.final
        /\ wr'.todb = wr.todb
    <3> HIDE DEF batch
    <3> QED BY <2>1, <2>4 DEF WriterOK, WriterStates
  <2>9. WriterOK'
    BY <1>1, <2>8 DEF WriterOK
  <2>10. DropsAreCounted'
    BY <1>1, <2>8, CountsKept
  <2>11. Drained'
    BY <2>8 DEF Drained
  <2> QED BY <1>1, <1>2, <2>6, <2>7, <2>8, <2>9, <2>10, <2>11 DEF RawOK, RawIsKept
<1> QED BY <1>3, <1>4

LEMMA SegmentKeeps == ASSUME IngestInv, WriteSegment PROVE IngestInv'
<1> USE DEF IngestInv
<1>1. /\ wr.pc = "segment"
      /\ UNCHANGED <<buf, pushed, drops, over, spilling, db, agg, table, stop,
                     dropped, lost, late, spoiled>>
  BY DEF WriteSegment
<1>2. /\ wr' \in WriterStates /\ wr'.pc = "swap" /\ wr'.final = wr.final
      /\ wr'.batch = wr.batch
      /\ files \subseteq files' /\ files' \subseteq files \cup wr.batch
      /\ ~wr'.todb => wr.batch \subseteq files'
      /\ failures' \in 0..MaxFailures /\ (failures' = 0 => failures = 0)
  <2>1. CASE files' = files \cup wr.batch /\ wr' = [wr EXCEPT !.pc = "swap", !.todb = FALSE]
             /\ UNCHANGED failures
    BY <2>1 DEF WriterOK, WriterStates, StoresOK
  <2>2. CASE /\ failures < MaxFailures /\ failures' = failures + 1
             /\ \E S \in SUBSET wr.batch : files' = files \cup S
             /\ Goto("swap")
    <3>1. failures' \in 0..MaxFailures /\ failures' # 0
      BY <2>2, SizeAssumption DEF StoresOK
    <3>2. wr' = [wr EXCEPT !.pc = "swap"] /\ wr'.todb = wr.todb /\ wr.todb
      BY <1>1, <2>2, GoesOn DEF RawOK
    <3> QED BY <2>2, <3>1, <3>2 DEF WriterOK, WriterStates
  <2> QED BY <2>1, <2>2 DEF WriteSegment
<1>3. WriterOK'
  BY <1>1, <1>2 DEF WriterOK
<1>4. StoresOK'
  BY <1>1, <1>2 DEF StoresOK, WriterOK, WriterStates
<1>5. RawOK' /\ Drained'
  BY <1>1, <1>2 DEF RawOK, RawIsKept, Drained
<1>6. DropsAreCounted'
  BY <1>1, <1>2, CountsKept
<1> QED BY <1>1, <1>3, <1>4, <1>5, <1>6, LanesKept

LEMMA NextClassTo ==
    ASSUME WriterOK, NextClass
    PROVE  /\ wr' \in WriterStates /\ wr'.pc \in {"swap", "commit"}
           /\ wr'.final = wr.final /\ wr'.batch = wr.batch /\ wr'.todb = wr.todb
<1>1. wr.class \in Classes /\ (wr.class # 3 => wr.class + 1 \in Classes) /\ 3 \in Classes
  BY DEF WriterOK, WriterStates, Classes
<1>2. [wr.add EXCEPT ![wr.class] = wr.swapped] \in [Classes -> Nat]
  BY <1>1 DEF WriterOK, WriterStates
<1>3. wr' = [wr EXCEPT !.pc = IF wr.class = 3 THEN "commit" ELSE "swap",
                       !.class = IF wr.class = 3 THEN 3 ELSE wr.class + 1,
                       !.swapped = 0,
                       !.add = [wr.add EXCEPT ![wr.class] = wr.swapped]]
  BY DEF NextClass
<1>4. wr \in WriterStates
  BY DEF WriterOK
<1> QED BY ONLY <1>1, <1>2, <1>3, <1>4 DEF WriterStates

(* The counters of a class go through the transaction and come back.        *)
LEMMA SwapKeeps == ASSUME IngestInv, SwapDrops PROVE IngestInv'
<1> USE DEF IngestInv
<1>1. /\ wr.pc = "swap"
      /\ UNCHANGED <<buf, pushed, over, spilling, db, files, agg, table, stop,
                     dropped, lost, late, spoiled, failures>>
  BY DEF SwapDrops, stores, history
<1>2. wr.class \in Classes /\ drops[wr.class] \in Nat
  BY DEF WriterOK, WriterStates, StoresOK
<1>3. CASE drops[wr.class] = 0
  <2>1. NextClass /\ UNCHANGED drops
    BY <1>3 DEF SwapDrops
  <2>2. /\ wr' \in WriterStates /\ wr'.pc \in {"swap", "commit"}
        /\ wr'.final = wr.final /\ wr'.batch = wr.batch /\ wr'.todb = wr.todb
    BY <2>1, NextClassTo
  <2>3. WriterOK' /\ StoresOK' /\ RawOK' /\ Drained'
    BY <1>1, <2>1, <2>2 DEF WriterOK, StoresOK, RawOK, RawIsKept, Drained
  <2>4. DropsAreCounted'
    BY <1>1, <2>1, <2>2, CountsKept
  <2> QED BY <1>1, <2>3, <2>4, LanesKept
<1>4. CASE drops[wr.class] # 0
  <2>1. /\ wr' = [wr EXCEPT !.pc = "record", !.swapped = drops[wr.class]]
        /\ drops' = [drops EXCEPT ![wr.class] = 0]
    BY <1>4 DEF SwapDrops
  <2>2. /\ wr' \in WriterStates /\ wr'.pc = "record" /\ wr'.class = wr.class
        /\ wr'.swapped = drops[wr.class]
        /\ wr'.final = wr.final /\ wr'.batch = wr.batch /\ wr'.todb = wr.todb
    BY <1>2, <2>1 DEF WriterOK, WriterStates
  <2>3. WriterOK' /\ StoresOK' /\ RawOK' /\ Drained'
    BY <1>1, <1>2, <2>1, <2>2 DEF WriterOK, StoresOK, RawOK, RawIsKept, Drained
  <2>4. DropsAreCounted'
    <3> SUFFICES ASSUME NEW c \in Classes \ spoiled
                 PROVE  drops'[c] + (IF wr.class = c THEN drops[wr.class] ELSE 0) = drops[c]
      BY <1>1, <2>2 DEF DropsAreCounted, StoresOK
    <3> QED BY <1>2, <2>1 DEF StoresOK
  <2> QED BY <1>1, <2>3, <2>4, LanesKept
<1> QED BY <1>3, <1>4

LEMMA RecordKeeps == ASSUME IngestInv, RecordDrops PROVE IngestInv'
<1> USE DEF IngestInv
<1>1. /\ wr.pc = "record" /\ NextClass
      /\ drops' = [drops EXCEPT ![wr.class] = @ + wr.swapped]
      /\ UNCHANGED <<buf, pushed, over, spilling, db, files, agg, table, stop,
                     dropped, lost, late, spoiled, failures>>
  BY DEF RecordDrops, stores, history
<1>2. wr.class \in Classes /\ drops[wr.class] \in Nat /\ wr.swapped \in Nat
  BY DEF WriterOK, WriterStates, StoresOK
<1>3. /\ wr' \in WriterStates /\ wr'.pc \in {"swap", "commit"}
      /\ wr'.final = wr.final /\ wr'.batch = wr.batch /\ wr'.todb = wr.todb
  BY <1>1, NextClassTo
<1>4. WriterOK' /\ StoresOK' /\ RawOK' /\ Drained'
  BY <1>1, <1>2, <1>3 DEF WriterOK, StoresOK, RawOK, RawIsKept, Drained
<1>5. DropsAreCounted'
  <2> SUFFICES ASSUME NEW c \in Classes \ spoiled
               PROVE  drops'[c] = drops[c] + (IF wr.class = c THEN wr.swapped ELSE 0)
    <3>1. ASSUME NEW c \in Classes \ spoiled
          PROVE  Cardinality({e \in dropped : Class[e] = c})
                   = drops[c] + (IF wr.class = c THEN wr.swapped ELSE 0)
      BY <1>1, <3>1 DEF DropsAreCounted
    <3>2. \A c \in Classes : drops'[c] \in Nat /\ drops'[c] + 0 = drops'[c]
      BY <1>4 DEF StoresOK
    <3> QED BY <1>1, <1>3, <3>1, <3>2 DEF DropsAreCounted
  <2> QED BY <1>1, <1>2 DEF StoresOK
<1> QED BY <1>1, <1>4, <1>5, LanesKept

LEMMA CommitKeeps == ASSUME IngestInv, Commit PROVE IngestInv'
<1> USE DEF IngestInv
<1>1. /\ wr.pc = "commit" /\ Returns(Cardinality(wr.batch))
      /\ agg' = [e \in Events |-> IF e \in wr.batch THEN agg[e] + 1 ELSE agg[e]]
      /\ db' = IF wr.todb THEN db \cup wr.batch ELSE db
      /\ table' = [c \in Classes |-> table[c] + wr.add[c]]
      /\ UNCHANGED <<buf, pushed, drops, over, spilling, files, stop,
                     dropped, lost, late, spoiled, failures>>
  BY DEF Commit, history
<1>2. /\ wr' \in WriterStates /\ wr'.pc \in {"wait", "depth", "flush"}
      /\ (wr'.final \/ wr'.pc = "depth" => wr.final) /\ wr'.todb = TRUE
  BY <1>1, ReturnsTo
<1>3. WriterOK' /\ Drained'
  BY <1>1, <1>2 DEF WriterOK, Drained
<1>4. StoresOK'
  BY <1>1 DEF StoresOK, WriterOK, WriterStates
<1>5. RawOK'
  BY <1>1, <1>2 DEF RawOK, RawIsKept, StoresOK
<1>6. DropsAreCounted'
  BY <1>1, <1>2, CountsKept
<1> QED BY <1>1, <1>3, <1>4, <1>5, <1>6, LanesKept

LEMMA FailKeeps == ASSUME IngestInv, StatementFails PROVE IngestInv'
<1> USE DEF IngestInv
<1>1. /\ wr.pc \in {"swap", "record", "commit"} /\ Errs
      /\ failures < MaxFailures /\ failures' = failures + 1
      /\ lost' = lost \cup wr.batch
      /\ spoiled' = IF wr.pc = "record" THEN spoiled \cup {wr.class} ELSE spoiled
      /\ UNCHANGED <<buf, pushed, drops, over, spilling, db, files, agg, table, stop,
                     dropped, late>>
  BY DEF StatementFails, stores
<1>2. failures' \in 0..MaxFailures /\ failures' # 0
  BY <1>1, SizeAssumption DEF StoresOK
<1>3. /\ wr' \in WriterStates /\ wr'.pc \in {"gone", "wait"} /\ wr'.final = FALSE
      /\ wr'.pc = "gone" => wr.final
  BY <1>1, AnewPc, WaitsAgain DEF Errs
<1>4. WriterOK'
  BY <1>1, <1>3 DEF WriterOK
<1>5. StoresOK'
  BY <1>1, <1>2 DEF StoresOK, WriterOK, WriterStates
<1>6. RawOK' /\ Drained'
  BY <1>1, <1>2, <1>3 DEF RawOK, RawIsKept, Drained
<1>7. DropsAreCounted'
  BY <1>1, <1>3 DEF DropsAreCounted, StoresOK
<1> QED BY <1>1, <1>4, <1>5, <1>6, <1>7, LanesKept

-----------------------------------------------------------------------------
LEMMA StepIngest == IngestInv /\ [Next]_vars => IngestInv'
<1> SUFFICES ASSUME IngestInv, [Next]_vars PROVE IngestInv'
  OBVIOUS
<1>1. ASSUME NEW e \in Events, Push(e) PROVE IngestInv'
  BY <1>1, PushKeeps
<1>2. CASE Stop
  BY <1>2, StopKeeps
<1>3. CASE Wake \/ SeeStop \/ LastFlush
  BY <1>3, TurnKeeps
<1>4. CASE Flush
  BY <1>4, PressureKeeps, DrainKeeps, SegmentKeeps, SwapKeeps, RecordKeeps, CommitKeeps DEF Flush
<1>5. CASE StatementFails
  BY <1>5, FailKeeps
<1>6. CASE UNCHANGED vars
  BY <1>6 DEF vars, stores, history, IngestInv, LanesOK, Depth, WriterOK, StoresOK,
              DropsAreCounted, RawOK, RawIsKept, Drained
<1> QED BY <1>1, <1>2, <1>3, <1>4, <1>5, <1>6 DEF Next, Writer

LEMMA IngestAlways == Spec => []IngestInv
<1>1. Init => IngestInv
  BY InitIngest
<1>2. IngestInv /\ [Next]_vars => IngestInv'
  BY StepIngest
<1> QED BY <1>1, <1>2, PTL DEF Spec

-----------------------------------------------------------------------------
(* The state keeps its types, and the buffer never holds more than its      *)
(* capacity, whatever is pushed while the writer drains (ingest.rs, push    *)
(* and make_room_for).                                                      *)
THEOREM BufferIsBounded == Spec => []TypeOK
<1>1. IngestInv => TypeOK
  BY DEF IngestInv, LanesOK, WriterOK, WriterStates, StoresOK, TypeOK
<1> QED BY <1>1, IngestAlways, PTL

(* No drop is forgotten or counted twice, unless the statement that records *)
(* them failed (ingest.rs, record_drops).                                   *)
THEOREM EveryDropCounted == Spec => []DropsAreCounted
<1>1. IngestInv => DropsAreCounted
  BY DEF IngestInv
<1> QED BY <1>1, IngestAlways, PTL

(* An aggregated event has its raw record, under every sink and with        *)
(* segments that fail half way (ingest.rs, flush).                          *)
THEOREM EveryRawKept == Spec => []RawIsKept
<1>1. IngestInv => RawIsKept
  BY DEF IngestInv, RawOK
<1> QED BY <1>1, IngestAlways, PTL

(* A writer that ends without a failure leaves only what was pushed after   *)
(* the signal (ingest.rs, run).                                             *)
THEOREM ShutdownDrains == Spec => []NothingLeftBehind
<1>1. IngestInv => NothingLeftBehind
  <2> SUFFICES ASSUME IngestInv, wr.pc = "gone", failures = 0, NEW c \in Classes
               PROVE  ToSet(buf[c]) \subseteq late
    BY DEF NothingLeftBehind, Buffered
  <2>1. Within(buf[c], late) /\ buf[c] \in Seq(Events)
    BY DEF IngestInv, Drained, LanesOK
  <2>2. DOMAIN buf[c] = 1 .. Len(buf[c])
    BY <2>1, LenProperties
  <2> QED BY <2>1, <2>2 DEF ToSet, Within
<1> QED BY <1>1, IngestAlways, PTL

-----------------------------------------------------------------------------
(* IngestQueue implements LossySink.  What a lane holds as a set.           *)
LEMMA LaneSet ==
    ASSUME NEW lane \in Seq(Events)
    PROVE  ToSet(lane) = {lane[i] : i \in 1 .. Len(lane)} /\ Len(lane) \in Nat
BY LenProperties DEF ToSet

LEMMA LaneSetAppend ==
    ASSUME NEW lane \in Seq(Events), NEW e \in Events
    PROVE  ToSet(Append(lane, e)) = ToSet(lane) \cup {e}
<1> DEFINE new == Append(lane, e)
<1>1. /\ new \in Seq(Events) /\ Len(new) = Len(lane) + 1 /\ Len(lane) \in Nat
      /\ \A i \in 1 .. Len(lane) : new[i] = lane[i]
      /\ new[Len(lane) + 1] = e
  BY AppendProperties, LenProperties
<1> HIDE DEF new
<1>2. 1 .. Len(new) = (1 .. Len(lane)) \cup {Len(lane) + 1}
  BY <1>1
<1>3. ToSet(new) = {new[i] : i \in 1 .. Len(new)} /\ ToSet(lane) = {lane[i] : i \in 1 .. Len(lane)}
  BY <1>1, LaneSet
<1>4. ToSet(new) = ToSet(lane) \cup {e}
  BY <1>1, <1>2, <1>3
<1> QED BY <1>4 DEF new

LEMMA LaneSetTail ==
    ASSUME NEW c, NEW lane \in Seq(Events), lane # <<>>, OfOneClass(c, lane)
    PROVE  Head(lane) \in ToSet(lane) /\ ToSet(Tail(lane)) = ToSet(lane) \ {Head(lane)}
<1> DEFINE new == Tail(lane)
<1>1. /\ new \in Seq(Events) /\ Len(new) = Len(lane) - 1 /\ Head(lane) = lane[1]
      /\ \A i \in 1 .. Len(new) : new[i] = lane[i + 1]
      /\ Len(lane) \in Nat /\ Len(lane) > 0
  BY HeadTailProperties, LenProperties, EmptySeq
<1> HIDE DEF new
<1>2. ToSet(new) = {new[i] : i \in 1 .. Len(new)} /\ ToSet(lane) = {lane[i] : i \in 1 .. Len(lane)}
  BY <1>1, LaneSet
<1>3. ASSUME NEW i \in 1 .. Len(new)
      PROVE  new[i] \in ToSet(lane) /\ new[i] # lane[1]
  <2>1. i + 1 \in 1 .. Len(lane) /\ 1 \in 1 .. Len(lane) /\ i + 1 # 1
    BY <1>1
  <2> QED BY <1>1, <1>2, <2>1 DEF OfOneClass
<1>4. ASSUME NEW i \in 1 .. Len(lane), lane[i] # lane[1] PROVE lane[i] \in ToSet(new)
  <2>1. i - 1 \in 1 .. Len(new) /\ (i - 1) + 1 = i
    BY <1>1, <1>4
  <2> QED BY <1>1, <1>2, <2>1
<1>5. lane[1] \in ToSet(lane)
  BY <1>1, <1>2
<1>6. ToSet(new) = ToSet(lane) \ {lane[1]}
  BY <1>2, <1>3, <1>4
<1> QED BY <1>1, <1>5, <1>6 DEF new

(* What a batch takes of a lane and what it leaves.                         *)
LEMMA LaneSetSplit ==
    ASSUME NEW c, NEW lane \in Seq(Events), OfOneClass(c, lane), NEW n \in 0 .. Len(lane)
    PROVE  LET took == ToSet(SubSeq(lane, 1, n))
               left == ToSet(SubSeq(lane, n + 1, Len(lane)))
           IN  /\ took \subseteq ToSet(lane) /\ left = ToSet(lane) \ took
               /\ (n > 0 => took # {}) /\ (n = Len(lane) => left = {})
<1> DEFINE new == SubSeq(lane, n + 1, Len(lane))
           old == SubSeq(lane, 1, n)
<1>1. Len(lane) \in Nat /\ n \in Nat /\ n <= Len(lane) /\ \A i \in 1 .. Len(lane) : lane[i] \in Events
  BY LenProperties, ElementOfSeq
<1>2. \A i \in n + 1 .. Len(lane) : lane[i] \in Events
  BY <1>1
<1>3. /\ new \in Seq(Events) /\ Len(new) = Len(lane) - n
      /\ \A i \in 1 .. Len(new) : new[i] = lane[n + i] /\ n + i \in 1 .. Len(lane)
  <2>1. n + 1 \in Int /\ Len(lane) \in Int
    BY <1>1
  <2>2. /\ new \in Seq(Events)
        /\ Len(new) = IF n + 1 <= Len(lane) THEN Len(lane) - (n + 1) + 1 ELSE 0
        /\ \A i \in 1 .. Len(lane) - (n + 1) + 1 : new[i] = lane[(n + 1) + i - 1]
    BY <1>2, <2>1, SubSeqProperties
  <2> HIDE DEF new
  <2> QED BY <1>1, <2>2
<1>4. old \in Seq(Events) /\ Len(old) = n /\ \A i \in 1 .. n : old[i] = lane[i]
  <2>1. 1 \in Int /\ n \in Int /\ \A i \in 1 .. n : lane[i] \in Events
    BY <1>1
  <2>2. /\ old \in Seq(Events)
        /\ Len(old) = IF 1 <= n THEN n - 1 + 1 ELSE 0
        /\ \A i \in 1 .. n - 1 + 1 : old[i] = lane[1 + i - 1]
    BY <2>1, SubSeqProperties
  <2> HIDE DEF old
  <2> QED BY <1>1, <2>2
<1> HIDE DEF new, old
<1>5. /\ ToSet(new) = {new[i] : i \in 1 .. Len(new)}
      /\ ToSet(old) = {old[i] : i \in 1 .. Len(old)}
      /\ ToSet(lane) = {lane[i] : i \in 1 .. Len(lane)}
  BY <1>3, <1>4, LaneSet
<1>6. ToSet(old) \subseteq ToSet(lane)
  BY <1>1, <1>4, <1>5
<1>7. ASSUME NEW i \in 1 .. Len(new) PROVE new[i] \in ToSet(lane) \ ToSet(old)
  <2>1. new[i] = lane[n + i] /\ n + i \in 1 .. Len(lane)
    BY <1>3
  <2>2. \A j \in 1 .. n : j \in 1 .. Len(lane) /\ j # n + i
    BY <1>1
  <2> QED BY <1>4, <1>5, <2>1, <2>2 DEF OfOneClass
<1>8. ASSUME NEW i \in 1 .. Len(lane), lane[i] \notin ToSet(old) PROVE lane[i] \in ToSet(new)
  <2>1. i \notin 1 .. n
    BY <1>4, <1>5, <1>8
  <2>2. i - n \in 1 .. Len(new) /\ n + (i - n) = i
    BY <1>1, <1>3, <2>1
  <2> QED BY <1>3, <1>5, <2>2
<1>9. ToSet(new) = ToSet(lane) \ ToSet(old)
  BY <1>5, <1>7, <1>8
<1>10. n > 0 => ToSet(old) # {}
  <2>1. n > 0 => 1 \in 1 .. n
    BY <1>1
  <2> QED BY <1>4, <1>5, <2>1
<1>11. n = Len(lane) => ToSet(new) = {}
  <2>1. n = Len(lane) => 1 .. Len(new) = {}
    BY <1>1, <1>3
  <2> QED BY <1>5, <2>1
<1> QED BY <1>6, <1>9, <1>10, <1>11 DEF new, old

LEMMA LaneSetSize ==
    ASSUME NEW c, NEW lane \in Seq(Events), OfOneClass(c, lane)
    PROVE  IsFiniteSet(ToSet(lane)) /\ Cardinality(ToSet(lane)) = Len(lane)
<1>1. Len(lane) \in Nat /\ DOMAIN lane = 1 .. Len(lane) /\ lane = [i \in 1 .. Len(lane) |-> lane[i]]
  BY LenProperties
<1>2. ToSet(lane) = {lane[i] : i \in 1 .. Len(lane)}
  BY LaneSet
<1>3. lane \in Bijection(1 .. Len(lane), ToSet(lane))
  BY <1>1, <1>2 DEF OfOneClass, Bijection, Injection, Surjection, IsInjective
<1>4. ExistsBijection(1 .. Len(lane), ToSet(lane))
  BY <1>3 DEF ExistsBijection
<1>5. IsFiniteSet(1 .. Len(lane))
  BY <1>1, FS_Interval
<1>6. Cardinality(ToSet(lane)) = Len(lane)
  BY <1>1, <1>4, FS_CountingElements
<1> QED BY <1>4, <1>5, <1>6, FS_Bijection

LEMMA Apart ==
    ASSUME NEW S, NEW T, IsFiniteSet(S), IsFiniteSet(T), S \cap T = {}
    PROVE  IsFiniteSet(S \cup T) /\ Cardinality(S \cup T) = Cardinality(S) + Cardinality(T)
<1>1. /\ IsFiniteSet(S \cup T)
      /\ Cardinality(S \cup T) = Cardinality(S) + Cardinality(T) - Cardinality(S \cap T)
  BY FS_Union
<1>2. Cardinality(S \cap T) = 0
  BY FS_EmptySet
<1>3. Cardinality(S) \in Nat /\ Cardinality(T) \in Nat
  BY FS_CardinalityType
<1> QED BY <1>1, <1>2, <1>3

(* The events in the buffer, by class.                                      *)
LEMMA InLane ==
    ASSUME LanesOK
    PROVE  /\ \A c \in Classes : ToSet(buf[c]) = {e \in Buffered : Class[e] = c}
           /\ Buffered \subseteq pushed \ dropped /\ Buffered \subseteq Events
           /\ \A e \in Buffered : e \in ToSet(buf[Class[e]])
<1>1. ASSUME NEW c \in Classes, NEW e \in ToSet(buf[c])
      PROVE  Class[e] = c /\ e \in pushed \ dropped
  <2>1. PICK i \in 1 .. Len(buf[c]) : e = buf[c][i]
    BY <1>1, LaneSet DEF LanesOK
  <2> QED BY <2>1 DEF LanesOK, OfOneClass, Within
<1>2. Buffered = UNION {ToSet(buf[c]) : c \in Classes}
  BY DEF Buffered
<1> QED BY <1>1, <1>2 DEF LanesOK

Held(lanes) == UNION {ToSet(lanes[c]) : c \in Classes}

LEMMA PushedSet ==
    ASSUME NEW lanes \in [Classes -> Seq(Events)], NEW e \in Events, Class[e] \in Classes,
           PushBack(lanes, e)
    PROVE  Buffered' = Held(lanes) \cup {e}
<1>1. buf' = [lanes EXCEPT ![Class[e]] = Append(@, e)]
  BY DEF PushBack
<1>2. ToSet(buf'[Class[e]]) = ToSet(lanes[Class[e]]) \cup {e}
  <2>1. buf'[Class[e]] = Append(lanes[Class[e]], e) /\ lanes[Class[e]] \in Seq(Events)
    BY <1>1
  <2> QED BY <2>1, LaneSetAppend
<1>3. \A c \in Classes \ {Class[e]} : buf'[c] = lanes[c]
  BY <1>1
<1>4. \A x : x \in Buffered' <=> \E c \in Classes : x \in ToSet(buf'[c])
  BY DEF Buffered
<1>5. \A x : x \in Held(lanes) <=> \E c \in Classes : x \in ToSet(lanes[c])
  BY DEF Held
<1>6. ASSUME NEW x PROVE x \in Buffered' <=> x \in Held(lanes) \cup {e}
  BY <1>2, <1>3, <1>4, <1>5
<1> QED BY <1>6

LEMMA DepthIsSize ==
    ASSUME LanesOK PROVE IsFiniteSet(Buffered) /\ Cardinality(Buffered) = Depth
<1> DEFINE T(c) == ToSet(buf[c])
<1>1. \A c \in Classes : IsFiniteSet(T(c)) /\ Cardinality(T(c)) = Len(buf[c])
  BY LaneSetSize DEF LanesOK
<1>2. /\ \A c \in Classes : T(c) = {e \in Buffered : Class[e] = c}
      /\ \A e \in Buffered : Class[e] \in Classes
  BY InLane, ClassAssumption
<1> HIDE DEF T
<1>3. T(1) \cap T(2) = {} /\ (T(1) \cup T(2)) \cap T(3) = {} /\ Buffered = (T(1) \cup T(2)) \cup T(3)
  BY <1>2, ThreeClasses
<1>4. \A S, U : IsFiniteSet(S) /\ IsFiniteSet(U) /\ S \cap U = {} =>
        IsFiniteSet(S \cup U) /\ Cardinality(S \cup U) = Cardinality(S) + Cardinality(U)
  BY Apart
<1>5. /\ IsFiniteSet(T(1) \cup T(2))
      /\ Cardinality(T(1) \cup T(2)) = Cardinality(T(1)) + Cardinality(T(2))
  BY <1>1, <1>3, <1>4, ThreeClasses
<1>6. /\ IsFiniteSet(Buffered)
      /\ Cardinality(Buffered) = Cardinality(T(1) \cup T(2)) + Cardinality(T(3))
  BY <1>1, <1>3, <1>4, <1>5, ThreeClasses
<1> QED BY <1>1, <1>5, <1>6, ThreeClasses DEF Depth

-----------------------------------------------------------------------------
(* Where an event is, it is nowhere else, and before it is pushed it is     *)
(* nowhere; the writer has a batch from the drain to the end of its         *)
(* transaction.                                                             *)
Placed(e) ==
    /\ e \notin pushed => e \notin lost /\ agg[e] = 0 /\ e \notin wr.batch
    /\ agg[e] \in {0, 1}
    /\ e \in Buffered => e \notin lost /\ agg[e] = 0 /\ e \notin wr.batch
    /\ e \in wr.batch => e \notin dropped /\ e \notin lost /\ agg[e] = 0
    /\ e \in lost => e \notin dropped /\ agg[e] = 0
    /\ agg[e] = 1 => e \notin dropped

BatchHeld == wr.batch # {} <=> wr.pc \in {"segment", "swap", "record", "commit"}

FateInv == BatchHeld /\ \A e \in Events : Placed(e)

LEMMA FateIs ==
    ASSUME IngestInv, FateInv
    PROVE  /\ DOMAIN Fate = Events
           /\ \A e \in Events :
                 /\ Fate[e] = "dropped" <=> e \in dropped
                 /\ Fate[e] = "failed" <=> e \in lost
                 /\ Fate[e] = "kept" <=> agg[e] = 1
                 /\ Fate[e] = "taken" <=> e \in wr.batch
                 /\ Fate[e] = "waiting" <=> e \in Buffered
                 /\ e \notin pushed => Fate[e] = "new"
                 /\ Fate[e] \in {"dropped", "failed", "kept", "taken", "waiting", "new"}
           /\ Sink!With("waiting") = Buffered /\ Sink!With("taken") = wr.batch
<1>1. DOMAIN Fate = Events
  BY DEF Fate
<1>2. ASSUME NEW e \in Events
      PROVE  /\ Fate[e] = "dropped" <=> e \in dropped
             /\ Fate[e] = "failed" <=> e \in lost
             /\ Fate[e] = "kept" <=> agg[e] = 1
             /\ Fate[e] = "taken" <=> e \in wr.batch
             /\ Fate[e] = "waiting" <=> e \in Buffered
             /\ e \notin pushed => Fate[e] = "new"
             /\ Fate[e] \in {"dropped", "failed", "kept", "taken", "waiting", "new"}
  <2>1. Placed(e) /\ (e \in dropped => e \in pushed)
        /\ (e \in Buffered => e \in pushed /\ e \notin dropped)
    BY InLane DEF FateInv, IngestInv, LanesOK
  <2>2. Fate[e] = CASE e \in dropped -> "dropped"
                    [] e \in lost -> "failed"
                    [] agg[e] = 1 -> "kept"
                    [] e \in wr.batch /\ agg[e] = 0 /\ e \notin lost -> "taken"
                    [] e \in Buffered -> "waiting"
                    [] OTHER -> "new"
    BY DEF Fate
  <2>3. CASE e \in dropped
    BY <2>1, <2>2, <2>3 DEF Placed
  <2>4. CASE e \in lost
    BY <2>1, <2>2, <2>4 DEF Placed
  <2>5. CASE agg[e] = 1
    BY <2>1, <2>2, <2>5 DEF Placed
  <2>6. CASE e \in wr.batch
    BY <2>1, <2>2, <2>6 DEF Placed
  <2>7. CASE e \in Buffered
    BY <2>1, <2>2, <2>7 DEF Placed
  <2>8. CASE e \notin dropped /\ e \notin lost /\ agg[e] # 1 /\ e \notin wr.batch /\ e \notin Buffered
    BY <2>1, <2>2, <2>8 DEF Placed
  <2> QED BY <2>3, <2>4, <2>5, <2>6, <2>7, <2>8
<1>3. Buffered \subseteq Events /\ wr.batch \subseteq Events
  BY InLane DEF IngestInv, WriterOK, WriterStates
<1> QED BY <1>1, <1>2, <1>3 DEF Sink!With

(* A step that leaves an event where it is.                                 *)
LEMMA Stays ==
    ASSUME NEW x \in Events, x \in dropped' <=> x \in dropped, x \in lost' <=> x \in lost,
           agg'[x] = agg[x], x \in wr'.batch <=> x \in wr.batch,
           x \in Buffered' <=> x \in Buffered
    PROVE  Fate'[x] = Fate[x] /\ (Placed(x) /\ pushed \subseteq pushed' => Placed(x)')
<1>1. Fate'[x] = Fate[x]
  BY DEF Fate
<1> QED BY <1>1 DEF Placed

LEMMA FateMoved ==
    ASSUME NEW S, NEW f, \A x \in Events : Fate'[x] = IF x \in S THEN f ELSE Fate[x]
    PROVE  Fate' = [x \in Events |-> IF x \in S THEN f ELSE Fate[x]]
<1>1. Fate' = [x \in Events |-> Fate'[x]]
  BY DEF Fate
<1> QED BY <1>1

(* The writer's turns between batches.                                      *)
LEMMA NoBatchHeld ==
    ASSUME WriterOK, NEW n, Returns(n) \/ Errs \/ Wake \/ SeeStop
    PROVE  wr'.batch = {} /\ wr'.pc \in {"wait", "depth", "flush", "gone"}
<1>1. wr.final \in BOOLEAN
  BY DEF WriterOK, WriterStates
<1>2. CASE wr' = Waiting
  BY <1>2 DEF Waiting
<1>3. CASE wr' = [Waiting EXCEPT !.pc = "gone"]
  BY <1>3 DEF Waiting
<1>4. ASSUME NEW pc \in {"depth", "flush"}, NEW final, wr' = [Waiting EXCEPT !.pc = pc, !.final = final]
      PROVE  wr'.batch = {} /\ wr'.pc = pc
  BY <1>4 DEF Waiting
<1>5. CASE Returns(n)
  BY <1>1, <1>2, <1>4, <1>5 DEF Returns, Flushing
<1>6. CASE Errs
  BY <1>2, <1>3, <1>6 DEF Errs
<1>7. CASE Wake \/ SeeStop
  BY <1>4, <1>7 DEF Wake, SeeStop, Flushing
<1> QED BY <1>5, <1>6, <1>7

(* Steps that move no event.                                                *)
LEMMA QuietFate ==
    ASSUME FateInv, UNCHANGED <<buf, pushed, dropped, lost, agg>>, wr'.batch = wr.batch, BatchHeld'
    PROVE  FateInv' /\ UNCHANGED Fate
<1>1. Buffered' = Buffered
  BY DEF Buffered
<1>2. \A x \in Events : Fate'[x] = Fate[x] /\ Placed(x)'
  BY <1>1, Stays DEF FateInv
<1>3. Fate' = [x \in Events |-> Fate'[x]] /\ Fate = [x \in Events |-> Fate[x]]
  BY DEF Fate
<1> QED BY <1>2, <1>3 DEF FateInv

LEMMA QuietSteps ==
    ASSUME IngestInv, FateInv,
           \/ Stop \/ Wake \/ SeeStop \/ LastFlush \/ UpdatePressure \/ WriteSegment
           \/ SwapDrops \/ RecordDrops \/ (Drain /\ Depth = 0) \/ UNCHANGED vars
    PROVE  FateInv' /\ UNCHANGED Fate
<1> USE DEF IngestInv
<1>1. UNCHANGED <<buf, pushed, dropped, lost, agg>>
  BY DEF Stop, Wake, SeeStop, LastFlush, UpdatePressure, WriteSegment, SwapDrops, RecordDrops,
         Drain, vars, stores, history
<1>2. wr.batch = {} <=> wr.pc \notin {"segment", "swap", "record", "commit"}
  BY DEF FateInv, BatchHeld
<1>3. ASSUME wr.pc \in {"wait", "depth", "flush", "drain"}, wr'.batch = {},
             wr'.pc \in {"wait", "depth", "flush", "drain", "gone"}
      PROVE  wr'.batch = wr.batch /\ BatchHeld'
  BY <1>2, <1>3 DEF BatchHeld
<1>4. ASSUME wr.pc \in {"segment", "swap", "record"}, wr'.batch = wr.batch,
             wr'.pc \in {"swap", "record", "commit"}
      PROVE  wr'.batch = wr.batch /\ BatchHeld'
  BY <1>2, <1>4 DEF BatchHeld
<1>5. ASSUME NEW pc \in {"gone", "drain"}, wr.pc \in {"depth", "flush"}, Goto(pc)
      PROVE  wr'.batch = wr.batch /\ BatchHeld'
  <2>1. wr'.pc = pc /\ wr'.batch = wr.batch
    BY <1>5, GoesOn
  <2> QED BY <1>2, <1>3, <1>5, <2>1
<1>6. CASE Stop \/ UNCHANGED vars
  <2>1. wr' = wr
    BY <1>6 DEF Stop, vars
  <2> QED BY <1>1, <2>1, QuietFate DEF FateInv, BatchHeld
<1>7. CASE Wake \/ SeeStop
  <2>1. wr'.batch = {} /\ wr'.pc \in {"wait", "depth", "flush", "gone"}
    BY <1>7, NoBatchHeld
  <2>2. wr.pc = "wait"
    BY <1>7 DEF Wake, SeeStop
  <2> QED BY <1>1, <1>3, <2>1, <2>2, QuietFate
<1>8. CASE LastFlush
  <2>1. CASE Flushing(TRUE)
    <3>1. wr'.batch = {} /\ wr'.pc = "flush"
      BY <2>1 DEF Flushing, Waiting
    <3> QED BY <1>1, <1>3, <1>8, <3>1, QuietFate DEF LastFlush
  <2>2. CASE Goto("gone")
    BY <1>1, <1>5, <1>8, <2>2, QuietFate DEF LastFlush
  <2> QED BY <1>8, <2>1, <2>2 DEF LastFlush
<1>9. CASE UpdatePressure
  BY <1>1, <1>5, <1>9, QuietFate DEF UpdatePressure
<1>10. CASE WriteSegment
  <2>1. wr'.batch = wr.batch /\ wr'.pc = "swap"
    BY <1>10, GoesOn DEF WriteSegment, WriterOK, WriterStates
  <2> QED BY <1>1, <1>4, <1>10, <2>1, QuietFate DEF WriteSegment
<1>11. CASE SwapDrops \/ RecordDrops
  <2>1. CASE NextClass
    <3>1. wr'.batch = wr.batch /\ wr'.pc \in {"swap", "commit"}
      BY <2>1, NextClassTo
    <3> QED BY <1>1, <1>4, <1>11, <3>1, QuietFate DEF SwapDrops, RecordDrops
  <2>2. CASE wr' = [wr EXCEPT !.pc = "record", !.swapped = drops[wr.class]]
    <3>1. wr'.batch = wr.batch /\ wr'.pc = "record"
      BY <2>2 DEF WriterOK, WriterStates
    <3> QED BY <1>1, <1>4, <1>11, <3>1, QuietFate DEF SwapDrops, RecordDrops
  <2> QED BY <1>11, <2>1, <2>2 DEF SwapDrops, RecordDrops
<1>12. CASE Drain /\ Depth = 0
  <2>1. wr'.batch = {} /\ wr'.pc \in {"wait", "depth", "flush", "gone"} /\ wr.pc = "drain"
    BY <1>12, NoBatchHeld DEF Drain
  <2> QED BY <1>1, <1>3, <2>1, QuietFate
<1> QED BY <1>6, <1>7, <1>8, <1>9, <1>10, <1>11, <1>12

(* The end of a batch.                                                      *)
LEMMA CommitFate == ASSUME IngestInv, FateInv, Commit PROVE FateInv' /\ Sink!Keep
<1> USE DEF IngestInv
<1>1. /\ wr.pc = "commit" /\ Returns(Cardinality(wr.batch))
      /\ agg' = [e \in Events |-> IF e \in wr.batch THEN agg[e] + 1 ELSE agg[e]]
      /\ UNCHANGED <<buf, pushed, dropped, lost>>
  BY DEF Commit, history
<1>2. wr'.batch = {} /\ wr'.pc \in {"wait", "depth", "flush", "gone"}
  BY <1>1, NoBatchHeld
<1>3. wr.batch # {} /\ BatchHeld' /\ Buffered' = Buffered
  BY <1>1, <1>2 DEF FateInv, BatchHeld, Buffered
<1>4. ASSUME NEW x \in wr.batch PROVE Fate'[x] = "kept" /\ Placed(x)'
  <2>1. x \in Events /\ Placed(x) /\ agg[x] \in Nat
    BY DEF WriterOK, WriterStates, FateInv, StoresOK
  <2>2. agg'[x] = 1 /\ x \notin dropped' /\ x \notin lost' /\ x \notin Buffered' /\ x \in pushed
    BY <1>1, <1>3, <2>1 DEF Placed
  <2> QED BY <1>1, <1>2, <2>1, <2>2 DEF Fate, Placed
<1>5. ASSUME NEW x \in Events \ wr.batch PROVE Fate'[x] = Fate[x] /\ Placed(x)'
  <2>1. agg'[x] = agg[x]
    BY <1>1
  <2> QED BY <1>1, <1>2, <1>3, <2>1, Stays DEF FateInv
<1>6. FateInv'
  BY <1>3, <1>4, <1>5 DEF FateInv
<1>7. Fate' = [x \in Events |-> IF x \in wr.batch THEN "kept" ELSE Fate[x]]
  BY <1>4, <1>5, FateMoved
<1> QED BY <1>3, <1>6, <1>7, FateIs DEF Sink!Keep, Sink!Move

LEMMA FailFate == ASSUME IngestInv, FateInv, StatementFails PROVE FateInv' /\ Sink!Fail
<1> USE DEF IngestInv
<1>1. /\ wr.pc \in {"swap", "record", "commit"} /\ Errs /\ lost' = lost \cup wr.batch
      /\ UNCHANGED <<buf, pushed, dropped, agg>>
  BY DEF StatementFails, stores
<1>2. wr'.batch = {} /\ wr'.pc \in {"wait", "depth", "flush", "gone"}
  BY <1>1, NoBatchHeld
<1>3. wr.batch # {} /\ BatchHeld' /\ Buffered' = Buffered
  BY <1>1, <1>2 DEF FateInv, BatchHeld, Buffered
<1>4. ASSUME NEW x \in wr.batch PROVE Fate'[x] = "failed" /\ Placed(x)'
  <2>1. x \in Events /\ Placed(x)
    BY DEF WriterOK, WriterStates, FateInv
  <2>2. x \in lost' /\ agg'[x] = 0 /\ x \notin dropped' /\ x \notin Buffered' /\ x \in pushed
    BY <1>1, <1>3, <2>1 DEF Placed
  <2> QED BY <1>1, <1>2, <2>1, <2>2 DEF Fate, Placed
<1>5. ASSUME NEW x \in Events \ wr.batch PROVE Fate'[x] = Fate[x] /\ Placed(x)'
  BY <1>1, <1>2, <1>3, Stays DEF FateInv
<1>6. FateInv'
  BY <1>3, <1>4, <1>5 DEF FateInv
<1>7. Fate' = [x \in Events |-> IF x \in wr.batch THEN "failed" ELSE Fate[x]]
  BY <1>4, <1>5, FateMoved
<1> QED BY <1>3, <1>6, <1>7, FateIs DEF Sink!Fail, Sink!Move

LEMMA Pairs ==
    \A c, above \in Classes : c < above =>
        (c = 1 /\ above = 2) \/ (c = 1 /\ above = 3) \/ (c = 2 /\ above = 3)
<1> SUFFICES ASSUME NEW c \in Classes, NEW above \in Classes, c < above
             PROVE  (c = 1 /\ above = 2) \/ (c = 1 /\ above = 3) \/ (c = 2 /\ above = 3)
  OBVIOUS
<1>1. ~(1 < 1) /\ ~(2 < 2) /\ ~(3 < 3) /\ ~(2 < 1) /\ ~(3 < 1) /\ ~(3 < 2)
  OBVIOUS
<1> QED BY <1>1, ThreeClasses

(* The batch of a drain: something, and of a lower class only with all that *)
(* is above it.                                                             *)
LEMMA TakenShape ==
    ASSUME LanesOK
    PROVE  /\ \A c \in Classes : Taken[c] \in 0 .. Len(buf[c])
           /\ Depth # 0 => \E c \in Classes : Taken[c] > 0
           /\ \A c, above \in Classes : c < above /\ Taken[c] > 0 => Taken[above] = Len(buf[above])
<1>1. \A c \in Classes : Len(buf[c]) \in Nat
  BY LenProperties DEF LanesOK
<1>2. PICK l1 \in Nat, l2 \in Nat, l3 \in Nat :
        l1 = Len(buf[1]) /\ l2 = Len(buf[2]) /\ l3 = Len(buf[3])
  BY <1>1, ThreeClasses
<1>3. PICK b \in Nat : b = Batch /\ b >= 1
  BY SizeAssumption
<1>4. PICK t3 \in Nat : t3 = Least(b, l3) /\ t3 <= b /\ t3 <= l3 /\ (t3 = b \/ t3 = l3)
  BY DEF Least
<1>5. b - t3 \in Nat
  BY <1>4
<1>6. PICK t2 \in Nat : t2 = Least(b - t3, l2) /\ t2 <= b - t3 /\ t2 <= l2 /\ (t2 = b - t3 \/ t2 = l2)
  BY <1>5 DEF Least
<1>7. b - t3 - t2 \in Nat
  BY <1>4, <1>6
<1>8. PICK t1 \in Nat : t1 = Least(b - t3 - t2, l1) /\ t1 <= b - t3 - t2 /\ t1 <= l1
                       /\ (t1 = b - t3 - t2 \/ t1 = l1)
  BY <1>7 DEF Least
<1>9. Taken = <<t1, t2, t3>>
  BY <1>2, <1>3, <1>4, <1>6, <1>8 DEF Taken
<1>10. Taken[1] = t1 /\ Taken[2] = t2 /\ Taken[3] = t3
  BY <1>9
<1>11. Depth = l1 + l2 + l3
  BY <1>2 DEF Depth
<1>12. Depth # 0 => t1 > 0 \/ t2 > 0 \/ t3 > 0
  BY <1>3, <1>4, <1>6, <1>8, <1>11
<1>13. (t2 > 0 => t3 = l3) /\ (t1 > 0 => t3 = l3 /\ t2 = l2)
  BY <1>4, <1>6, <1>8
<1>14. ASSUME NEW c \in Classes, NEW above \in Classes, c < above, Taken[c] > 0
       PROVE  Taken[above] = Len(buf[above])
  <2>1. (c = 1 /\ above = 2) \/ (c = 1 /\ above = 3) \/ (c = 2 /\ above = 3)
    BY <1>14, Pairs
  <2> QED BY <1>2, <1>10, <1>13, <1>14, <2>1
<1> QED BY <1>1, <1>10, <1>12, <1>14, TakenBounds, ThreeClasses

LEMMA DrainFate ==
    ASSUME IngestInv, FateInv, Drain, Depth # 0
    PROVE  FateInv' /\ \E S \in SUBSET Sink!With("waiting") : Sink!Take(S)
<1> USE DEF IngestInv
<1> DEFINE took(c) == ToSet(SubSeq(buf[c], 1, Taken[c]))
           batch == UNION {took(c) : c \in Classes}
           pc == IF Spills THEN "segment" ELSE "swap"
<1>1. /\ wr.pc = "drain" /\ wr' = [wr EXCEPT !.pc = pc, !.batch = batch]
      /\ buf' = [c \in Classes |-> SubSeq(buf[c], Taken[c] + 1, Len(buf[c]))]
      /\ UNCHANGED <<pushed, dropped, lost, agg>>
  BY DEF Drain, stores, history
<1>2. wr'.batch = batch /\ wr'.pc \in {"segment", "swap"}
  <2> HIDE DEF batch
  <2> QED BY <1>1 DEF WriterOK, WriterStates
<1>3. ASSUME NEW c \in Classes
      PROVE  /\ took(c) \subseteq ToSet(buf[c]) /\ ToSet(buf'[c]) = ToSet(buf[c]) \ took(c)
             /\ Taken[c] > 0 => took(c) # {}
             /\ Taken[c] = Len(buf[c]) => took(c) = ToSet(buf[c])
             /\ ~(Taken[c] > 0) => took(c) = {}
  <2>1. buf[c] \in Seq(Events) /\ OfOneClass(c, buf[c]) /\ Taken[c] \in 0 .. Len(buf[c])
    BY TakenShape DEF LanesOK
  <2>2. buf'[c] = SubSeq(buf[c], Taken[c] + 1, Len(buf[c]))
    BY <1>1
  <2>3. /\ took(c) \subseteq ToSet(buf[c]) /\ ToSet(buf'[c]) = ToSet(buf[c]) \ took(c)
        /\ Taken[c] > 0 => took(c) # {}
        /\ Taken[c] = Len(buf[c]) => ToSet(buf'[c]) = {}
    BY <2>1, <2>2, LaneSetSplit
  <2>4. ~(Taken[c] > 0) => took(c) = {}
    <3> DEFINE old == SubSeq(buf[c], 1, Taken[c])
    <3>1. ASSUME ~(Taken[c] > 0) PROVE old \in Seq(Events) /\ Len(old) = 0
      <4>1. 1 \in Int /\ Taken[c] \in Int /\ Taken[c] = 0
        BY <2>1, <3>1, LenProperties
      <4>2. \A i \in 1 .. Taken[c] : buf[c][i] \in Events
        BY <4>1
      <4> QED BY <4>1, <4>2, SubSeqProperties
    <3> HIDE DEF old
    <3>2. ~(Taken[c] > 0) => ToSet(old) = {}
      BY <3>1, LaneSet
    <3> QED BY <3>2 DEF old
  <2> QED BY <2>3, <2>4
<1>4. /\ \A c \in Classes : ToSet(buf[c]) = {e \in Buffered : Class[e] = c}
      /\ Buffered \subseteq pushed \ dropped /\ Buffered \subseteq Events
      /\ \A e \in Buffered : e \in ToSet(buf[Class[e]]) /\ Class[e] \in Classes
  BY InLane, ClassAssumption
<1> HIDE DEF took
<1>5. batch \subseteq Buffered
  BY <1>3, <1>4
<1>6. Buffered' = Buffered \ batch
  <2>1. Buffered' = UNION {ToSet(buf'[c]) : c \in Classes}
    BY DEF Buffered
  <2> QED BY <1>3, <1>4, <2>1
<1>7. batch # {}
  BY <1>3, TakenShape
<1>8. \A e \in batch : \A other \in Buffered \ batch : Class[other] <= Class[e]
  <2> SUFFICES ASSUME NEW e \in batch, NEW other \in Buffered, ~(Class[other] <= Class[e])
               PROVE  other \in batch
    OBVIOUS
  <2>1. Class[e] \in Classes /\ Class[other] \in Classes /\ e \in took(Class[e])
    BY <1>3, <1>4, <1>5
  <2>2. Class[e] < Class[other] /\ Taken[Class[e]] > 0
    BY <1>3, <2>1 DEF Classes
  <2>3. took(Class[other]) = ToSet(buf[Class[other]])
    BY <1>3, <2>1, <2>2, TakenShape
  <2> QED BY <1>4, <2>1, <2>3
<1>9. wr.batch = {}
  BY <1>1 DEF FateInv, BatchHeld
<1> HIDE DEF batch
<1>10. ASSUME NEW x \in batch PROVE Fate'[x] = "taken" /\ Placed(x)'
  <2>1. x \in Events /\ Placed(x) /\ x \in Buffered /\ x \in pushed /\ x \notin dropped
    BY <1>4, <1>5 DEF FateInv
  <2>2. /\ x \notin dropped' /\ x \notin lost' /\ agg'[x] = 0 /\ x \in wr'.batch
        /\ x \notin Buffered' /\ x \in pushed'
    BY <1>1, <1>2, <1>6, <2>1 DEF Placed
  <2> QED BY <2>1, <2>2 DEF Fate, Placed
<1>11. ASSUME NEW x \in Events \ batch PROVE Fate'[x] = Fate[x] /\ Placed(x)'
  BY <1>1, <1>2, <1>6, <1>9, Stays DEF FateInv
<1>12. FateInv'
  BY <1>2, <1>7, <1>10, <1>11 DEF FateInv, BatchHeld
<1>13. Fate' = [x \in Events |-> IF x \in batch THEN "taken" ELSE Fate[x]]
  BY <1>10, <1>11, FateMoved
<1>14. Sink!With("waiting") = Buffered /\ Sink!With("taken") = {}
  BY <1>9, FateIs
<1>15. Sink!Take(batch)
  BY <1>5, <1>7, <1>8, <1>13, <1>14 DEF Sink!Take, Sink!Move
<1> QED BY <1>5, <1>12, <1>14, <1>15

LEMMA SinkCounts == \A S : Sink!Cardinality(S) = Cardinality(S)
BY DEF Sink!Cardinality, Cardinality, Sink!IsFiniteSet, IsFiniteSet

(* A push moves its event, and the one it evicts.                           *)
LEMMA PushFate ==
    ASSUME IngestInv, FateInv, NEW e \in Events, Push(e)
    PROVE  /\ FateInv'
           /\ \/ Sink!Accept(e) \/ Sink!Refuse(e)
              \/ \E victim \in Events : Sink!Displace(e, victim)
<1> USE DEF IngestInv
<1> DEFINE c0 == Class[e]
<1>1. /\ e \notin pushed /\ pushed' = pushed \cup {e} /\ UNCHANGED <<wr, lost, agg>>
  BY DEF Push, stores
<1>2. /\ \A c \in Classes : ToSet(buf[c]) = {x \in Buffered : Class[x] = c}
      /\ Buffered \subseteq pushed \ dropped /\ Buffered \subseteq Events
      /\ \A x \in Buffered : x \in ToSet(buf[Class[x]])
      /\ \A x \in Events : Class[x] \in Classes
  BY InLane, ClassAssumption
<1>3. e \notin dropped /\ e \notin lost /\ agg[e] = 0 /\ e \notin wr.batch /\ e \notin Buffered
  BY <1>1, <1>2 DEF LanesOK, FateInv, Placed
<1>4. Sink!With("waiting") = Buffered /\ Fate[e] = "new"
  BY <1>1, FateIs
<1>5. Sink!Full <=> Full
  <2>1. Sink!Cardinality(Sink!With("waiting")) = Depth
    BY <1>4, DepthIsSize, SinkCounts
  <2> QED BY <2>1 DEF Sink!Full, Full
<1>6. BatchHeld'
  BY <1>1 DEF FateInv, BatchHeld
<1>7. ASSUME NEW x \in Events, x \in dropped' <=> x \in dropped, x \in Buffered' <=> x \in Buffered
      PROVE  Fate'[x] = Fate[x] /\ Placed(x)'
  BY <1>1, <1>7, Stays DEF FateInv
<1>8. ASSUME e \in Buffered', e \notin dropped' PROVE Fate'[e] = "waiting" /\ Placed(e)'
  BY <1>1, <1>3, <1>8 DEF Fate, Placed
<1>9. ASSUME NEW x \in Events, x \in Buffered \cup {e}, x \notin Buffered', x \in dropped'
      PROVE  Fate'[x] = "dropped" /\ Placed(x)'
  <2>1. x \notin lost' /\ agg'[x] = 0 /\ x \notin wr'.batch /\ x \in pushed'
    BY <1>1, <1>2, <1>3, <1>9 DEF FateInv, Placed
  <2> QED BY <1>9, <2>1 DEF Fate, Placed
<1>10. CASE ~Full /\ PushBack(buf, e) /\ UNCHANGED <<drops, dropped>>
  <2>1. Buffered' = Buffered \cup {e}
    <3>1. Buffered' = Held(buf) \cup {e}
      BY <1>2, <1>10, PushedSet DEF LanesOK
    <3> QED BY <3>1 DEF Held, Buffered
  <2>2. \A x \in Events : Fate'[x] = (IF x \in {e} THEN "waiting" ELSE Fate[x]) /\ Placed(x)'
    BY <1>3, <1>7, <1>8, <1>10, <2>1
  <2>3. Fate' = [x \in Events |-> IF x \in {e} THEN "waiting" ELSE Fate[x]]
    <3>1. Fate' = [x \in Events |-> Fate'[x]]
      BY DEF Fate
    <3> QED BY <2>2, <3>1
  <2>4. Sink!Accept(e)
    BY <1>4, <1>5, <1>10, <2>3 DEF Sink!Accept, Sink!Move
  <2> QED BY <1>6, <2>2, <2>4 DEF FateInv
<1>11. ASSUME Full, NEW d \in Evictable(c0), \A other \in Evictable(c0) : d <= other,
              CountDrop(Head(buf[d])), PushBack([buf EXCEPT ![d] = Tail(@)], e)
       PROVE  FateInv' /\ \E victim \in Events : Sink!Displace(e, victim)
  <2> DEFINE lanes == [buf EXCEPT ![d] = Tail(@)]
  <2>1. d \in Classes /\ d < c0 /\ buf[d] # <<>> /\ buf[d] \in Seq(Events)
    BY DEF Evictable, Classes, LanesOK
  <2>v. PICK v \in Events : v = Head(buf[d])
    BY <2>1, HeadTailProperties
  <2>2. v \in ToSet(buf[d]) /\ ToSet(Tail(buf[d])) = ToSet(buf[d]) \ {v} /\ Tail(buf[d]) \in Seq(Events)
    BY <2>v, <2>1, LaneSetTail, HeadTailProperties DEF LanesOK
  <2>3. v \in Buffered /\ Class[v] = d /\ v \in Events /\ v # e
    BY <1>2, <1>3, <2>1, <2>2
  <2>4. /\ lanes \in [Classes -> Seq(Events)]
        /\ \A c \in Classes : ToSet(lanes[c]) = ToSet(buf[c]) \ {v}
    <3>1. lanes \in [Classes -> Seq(Events)] /\ lanes[d] = Tail(buf[d])
          /\ \A c \in Classes \ {d} : lanes[c] = buf[c]
      BY <2>1, <2>2 DEF LanesOK
    <3>2. \A c \in Classes \ {d} : v \notin ToSet(buf[c])
      BY <1>2, <2>3
    <3> HIDE DEF lanes
    <3> QED BY <2>2, <3>1, <3>2
  <2>5. dropped' = dropped \cup {v}
    BY <1>11, <2>v DEF CountDrop
  <2>6. PushBack(lanes, e)
    BY <1>11
  <2> HIDE DEF lanes
  <2>7. Buffered' = (Buffered \ {v}) \cup {e}
    <3>1. Buffered' = Held(lanes) \cup {e}
      BY <1>2, <2>4, <2>6, PushedSet
    <3>2. Held(lanes) = Buffered \ {v}
      BY <2>4 DEF Held, Buffered
    <3> QED BY <3>1, <3>2
  <2>8. Fate'[e] = "waiting" /\ Placed(e)'
    BY <1>3, <1>8, <2>3, <2>5, <2>7
  <2>9. Fate'[v] = "dropped" /\ Placed(v)'
    BY <1>9, <2>3, <2>5, <2>7
  <2>10. \A x \in Events \ {e, v} : Fate'[x] = Fate[x] /\ Placed(x)'
    BY <1>7, <2>5, <2>7
  <2>11. FateInv'
    BY <1>6, <2>8, <2>9, <2>10 DEF FateInv
  <2>12. Fate' = [Fate EXCEPT ![e] = "waiting", ![v] = "dropped"]
    <3>1. Fate' = [x \in Events |-> Fate'[x]] /\ Fate = [x \in Events |-> Fate[x]]
      BY DEF Fate
    <3> QED BY <2>3, <2>8, <2>9, <2>10, <3>1
  <2>13. \A other \in Buffered : Class[v] <= Class[other]
    <3> SUFFICES ASSUME NEW other \in Buffered, ~(d <= Class[other]) PROVE FALSE
      BY <2>3
    <3>1. Class[other] \in Classes /\ other \in ToSet(buf[Class[other]])
      BY <1>2
    <3>2. Class[other] \in {1, 2} /\ Class[other] < c0
      BY <1>2, <2>1, <3>1 DEF Classes
    <3>3. buf[Class[other]] # <<>>
      <4>1. ToSet(<<>>) = {}
        BY DEF ToSet
      <4> QED BY <3>1, <4>1
    <3>4. Class[other] \in Evictable(c0)
      BY <3>2, <3>3 DEF Evictable
    <3> QED BY <1>11, <3>4
  <2>14. Class[v] < Class[e]
    BY <2>1, <2>3
  <2>15. Sink!Displace(e, v)
    BY <1>4, <1>5, <1>11, <2>3, <2>12, <2>13, <2>14 DEF Sink!Displace
  <2> QED BY <2>3, <2>11, <2>15
<1>12. CASE Full /\ Evictable(c0) = {} /\ CountDrop(e) /\ UNCHANGED buf
  <2>1. Buffered' = Buffered /\ dropped' = dropped \cup {e}
    BY <1>12 DEF Buffered, CountDrop
  <2>2. \A x \in Events : Fate'[x] = (IF x \in {e} THEN "dropped" ELSE Fate[x]) /\ Placed(x)'
    BY <1>3, <1>7, <1>9, <2>1
  <2>3. Fate' = [x \in Events |-> IF x \in {e} THEN "dropped" ELSE Fate[x]]
    <3>1. Fate' = [x \in Events |-> Fate'[x]]
      BY DEF Fate
    <3> QED BY <2>2, <3>1
  <2>4. \A other \in Buffered : Class[e] <= Class[other]
    <3> SUFFICES ASSUME NEW other \in Buffered, ~(c0 <= Class[other]) PROVE FALSE
      OBVIOUS
    <3>1. Class[other] \in Classes /\ other \in ToSet(buf[Class[other]])
      BY <1>2
    <3>2. Class[other] \in {1, 2} /\ Class[other] < c0
      BY <1>2, <3>1 DEF Classes
    <3>3. buf[Class[other]] # <<>>
      <4>1. ToSet(<<>>) = {}
        BY DEF ToSet
      <4> QED BY <3>1, <4>1
    <3>4. Class[other] \in Evictable(c0)
      BY <3>2, <3>3 DEF Evictable
    <3> QED BY <1>12, <3>4
  <2>5. Sink!Refuse(e)
    BY <1>4, <1>5, <1>12, <2>3, <2>4 DEF Sink!Refuse, Sink!Move
  <2> QED BY <1>6, <2>2, <2>5 DEF FateInv
<1> QED BY <1>10, <1>11, <1>12 DEF Push

LEMMA InitFate == Init => FateInv /\ Sink!Init
<1> SUFFICES ASSUME Init PROVE FateInv /\ Sink!Init
  OBVIOUS
<1>1. /\ dropped = {} /\ lost = {} /\ pushed = {} /\ wr.batch = {} /\ wr.pc = "wait"
      /\ \A e \in Events : agg[e] = 0
  BY DEF Init, Waiting
<1>2. Buffered = {}
  BY <1>1, InitIngest, InLane DEF IngestInv
<1>3. FateInv
  BY <1>1, <1>2 DEF FateInv, BatchHeld, Placed
<1>4. Fate = [e \in Events |-> "new"]
  BY <1>1, <1>2 DEF Fate
<1> QED BY <1>3, <1>4 DEF Sink!Init

LEMMA StepFate ==
    ASSUME IngestInv, FateInv, [Next]_vars
    PROVE  FateInv' /\ [Sink!Next]_Fate
<1>1. ASSUME NEW e \in Events, Push(e) PROVE FateInv' /\ Sink!Next
  BY <1>1, PushFate DEF Sink!Next
<1>2. CASE Drain /\ Depth # 0
  BY <1>2, DrainFate DEF Sink!Next
<1>3. CASE Commit
  BY <1>3, CommitFate DEF Sink!Next
<1>4. CASE StatementFails
  BY <1>4, FailFate DEF Sink!Next
<1>5. CASE \/ Stop \/ Wake \/ SeeStop \/ LastFlush \/ UpdatePressure \/ WriteSegment
           \/ SwapDrops \/ RecordDrops \/ (Drain /\ Depth = 0) \/ UNCHANGED vars
  BY <1>5, QuietSteps
<1> QED BY <1>1, <1>2, <1>3, <1>4, <1>5 DEF Next, Writer, Flush

(* "lowest class first" (the header of ingest.rs): IngestQueue implements   *)
(* LossySink under the mapping Fate, for any events, classes and capacity.  *)
(* Every step of the queue and its writer is a step of the sink or none: an *)
(* event is dropped only from a full buffer and for want of a lower class,  *)
(* and a batch leaves nothing above what it takes.                          *)
THEOREM QueueIsLossySink == Spec => SinkSpec
<1>1. Init => FateInv /\ Sink!Init
  BY InitFate
<1>2. IngestInv /\ FateInv /\ [Next]_vars => FateInv' /\ [Sink!Next]_Fate
  BY StepFate
<1> QED BY <1>1, <1>2, IngestAlways, PTL DEF Spec, SinkSpec, Sink!Spec
=============================================================================
