--------------------------- MODULE VcdFeedProofs ---------------------------
(***************************************************************************)
(* The timestamps of the output VCD increase strictly, for every circuit,  *)
(* waveform and cycle limit, glitches included.  They are the stamps of    *)
(* the rows without the first, so the argument is about those: a stamp is  *)
(* vcd_time_last_active, which only moves up to a vcd_time that is over.   *)
(*                                                                         *)
(* And although only changes are written, a reader who applies them in     *)
(* order sees the simulated outputs at each timestamp: what he has seen is *)
(* what last_val remembers (DumpShown).                                    *)
(***************************************************************************)
EXTENDS VcdFeed, TLAPS, SequenceTheorems, WellFoundedInduction

Entry == [stamp : Time, values : UNION {[O -> BOOLEAN] : O \in SUBSET Output}]

RowsTyped ==
  /\ rows \in Seq(Row) /\ dump \in Seq(Entry)
  /\ vcdTime \in Time /\ lastActive \in Time \cup {Never}
  /\ level \subseteq Pin /\ flags \subseteq Watched /\ delayed \subseteq Pin

(* Only the first row is unstamped, and until it is there no timestamp has *)
(* been active.                                                            *)
FirstUnstamped ==
  /\ Len(rows) = 0 => active /\ lastActive = Never
  /\ \A n \in 1 .. Len(rows) : rows[n].stamp = Never <=> n = 1

RowsOrdered ==
  /\ Len(rows) > 0 /\ phase = "read" => lastActive < vcdTime
  /\ \A n \in 2 .. Len(rows) :
       rows[n].stamp < vcdTime /\ (phase = "read" => rows[n].stamp < lastActive)
  /\ \A m, n \in 2 .. Len(rows) : m < n => rows[m].stamp < rows[n].stamp

(* What has been written so far are the stamps from the second row on.     *)
DumpFollowsRows ==
  /\ next \in 1 .. Len(rows) + 1
  /\ phase \in {"read", "simulate"} => next = 1
  /\ next = 1 => Len(dump) = 0
  /\ next > 1 => Len(dump) = next - 2
  /\ \A n \in 1 .. Len(dump) : dump[n].stamp = rows[n + 1].stamp

StampInv == RowsTyped /\ FirstUnstamped /\ RowsOrdered /\ DumpFollowsRows

----------------------------------------------------------------------------
LEMMA InitStamp == Init => StampInv
BY BoundAssumption DEF Init, StampInv, RowsTyped, FirstUnstamped, RowsOrdered,
   DumpFollowsRows, Time, Never

LEMMA StampType ==
  ASSUME NEW s \in Seq(Row), NEW n \in 1 .. Len(s)
  PROVE  s[n].stamp \in Time \cup {Never} /\ s[n].stamp \in Nat
<1>1. s[n] \in Row OBVIOUS
<1>2. s[n].stamp \in Time \cup {Never} BY <1>1 DEF Row
<1>3. QED BY <1>2, BoundAssumption DEF Time, Never

(* A row pushed at an active timestamp: the lemma both actions share.      *)
LEMMA RowPushed ==
  ASSUME StampInv, phase = "read", rows' = NewRow
  PROVE  /\ rows' \in Seq(Row) /\ Len(rows') = Len(rows) + 1
         /\ \A n \in 1 .. Len(rows) : rows'[n] = rows[n]
         /\ rows'[Len(rows')].stamp = lastActive
         /\ \A n \in 1 .. Len(rows') : rows'[n].stamp = Never <=> n = 1
         /\ \A n \in 2 .. Len(rows') : rows'[n].stamp <= lastActive /\ lastActive < vcdTime
         /\ \A m, n \in 2 .. Len(rows') : m < n => rows'[m].stamp < rows'[n].stamp
<1> USE BoundAssumption
<1> DEFINE r == [level |-> level, flags |-> flags, stamp |-> lastActive]
<1>1. rows \in Seq(Row) /\ r \in Row BY DEF StampInv, RowsTyped, Row
<1>2. rows' = Append(rows, r) BY DEF NewRow
<1> HIDE DEF r
<1>3. /\ rows' \in Seq(Row) /\ Len(rows') = Len(rows) + 1
      /\ \A n \in 1 .. Len(rows) : rows'[n] = rows[n]
      /\ rows'[Len(rows) + 1] = r
  BY <1>1, <1>2
<1>4. r.stamp = lastActive BY DEF r
<1>5. /\ lastActive = Never <=> Len(rows) = 0
      /\ Len(rows) > 0 => lastActive < vcdTime
      /\ lastActive \in Nat /\ vcdTime \in Nat /\ Len(rows) \in Nat
  BY DEF StampInv, RowsTyped, FirstUnstamped, RowsOrdered, Time, Never
<1>6. \A n \in 1 .. Len(rows') : n \in 1 .. Len(rows) \/ n = Len(rows) + 1
  BY <1>3, <1>5
<1>7. \A n \in 1 .. Len(rows') : rows'[n].stamp = Never <=> n = 1
  BY <1>3, <1>4, <1>5, <1>6 DEF StampInv, FirstUnstamped
<1>8. \A n \in 2 .. Len(rows) : rows[n].stamp \in Nat /\ rows[n].stamp < lastActive
  BY <1>1, <1>5, StampType DEF StampInv, RowsOrdered
<1>9. ASSUME NEW n \in 2 .. Len(rows')
      PROVE  rows'[n].stamp <= lastActive /\ lastActive < vcdTime
  BY <1>3, <1>4, <1>5, <1>8
<1>10. ASSUME NEW m \in 2 .. Len(rows'), NEW n \in 2 .. Len(rows'), m < n
       PROVE  rows'[m].stamp < rows'[n].stamp
  <2>1. m \in 2 .. Len(rows) /\ rows'[m] = rows[m] BY <1>3, <1>5, <1>10
  <2>2. CASE n = Len(rows) + 1 BY <2>1, <2>2, <1>3, <1>4, <1>8
  <2>3. CASE n \in 2 .. Len(rows)
    BY <2>1, <2>3, <1>3, <1>5, <1>10 DEF StampInv, RowsOrdered
  <2>4. QED BY <2>2, <2>3, <1>3, <1>5
<1>11. QED BY <1>3, <1>4, <1>7, <1>9, <1>10

LEMMA NextStamp == StampInv /\ [Next]_vars => StampInv'
<1> SUFFICES ASSUME StampInv, [Next]_vars PROVE StampInv'
  OBVIOUS
<1> USE BoundAssumption
<1>1. vcdTime \in Nat /\ lastActive \in Nat /\ Len(rows) \in Nat /\ Len(dump) \in Nat
  BY DEF StampInv, RowsTyped, Time, Never
<1>2. ASSUME NEW p \in Pin, NEW v \in Value, ChangeTo(p, v) PROVE StampInv'
  <2>1. UNCHANGED <<vcdTime, lastActive, level, rows, phase, next, dump>>
    BY <1>2 DEF ChangeTo, writing
  <2>2. (active => active') /\ flags' \subseteq Watched /\ delayed' \subseteq Pin
    BY <1>2 DEF ChangeTo, Raised, StampInv, RowsTyped
  <2>3. QED
    BY <2>1, <2>2 DEF StampInv, RowsTyped, FirstUnstamped, RowsOrdered, DumpFollowsRows
<1>3. ASSUME NEW t \in Time, Timestamp(t) PROVE StampInv'
  <2>1. /\ phase = "read" /\ phase' = "read" /\ t > vcdTime /\ vcdTime' = t
        /\ dump' = dump /\ next' = next /\ t \in Nat
    BY <1>3 DEF Timestamp, writing, Time
  <2>2. next = 1 /\ Len(dump) = 0 BY <2>1 DEF StampInv, DumpFollowsRows
  <2>3. level' \subseteq Pin /\ flags' \subseteq Watched /\ delayed' \subseteq Pin
    BY <1>3 DEF Timestamp, Toggle, StampInv, RowsTyped
  <2>4. CASE active
    <3>1. rows' = NewRow /\ lastActive' = vcdTime BY <1>3, <2>4 DEF Timestamp, NextLabel
    <3>2. RowsTyped'
      BY <1>3, <2>1, <2>3, <3>1, RowPushed DEF StampInv, RowsTyped
    <3>3. FirstUnstamped' BY <2>1, <3>1, <1>1, RowPushed DEF FirstUnstamped
    <3>4. RowsOrdered'
      <4>1. \A n \in 2 .. Len(rows') : rows'[n].stamp < vcdTime
        <5>1. SUFFICES ASSUME NEW n \in 2 .. Len(rows') PROVE rows'[n].stamp < vcdTime
          OBVIOUS
        <5>2. rows'[n].stamp <= lastActive /\ lastActive < vcdTime
          BY <2>1, <3>1, <5>1, RowPushed
        <5>3. rows'[n].stamp \in Nat
          BY <1>1, <3>2, <5>1, StampType DEF RowsTyped
        <5>4. QED BY <1>1, <5>2, <5>3
      <4>2. \A n \in 2 .. Len(rows') : rows'[n].stamp \in Nat
        BY <3>2, StampType DEF RowsTyped
      <4>3. \A m, n \in 2 .. Len(rows') : m < n => rows'[m].stamp < rows'[n].stamp
        BY <2>1, <3>1, RowPushed
      <4>4. QED BY <4>1, <4>2, <4>3, <2>1, <3>1, <1>1 DEF RowsOrdered
    <3>5. DumpFollowsRows' BY <1>1, <2>1, <2>2, <3>1, RowPushed DEF DumpFollowsRows
    <3>6. QED BY <3>2, <3>3, <3>4, <3>5 DEF StampInv
  <2>5. CASE ~active
    <3>1. rows' = rows /\ lastActive' = lastActive /\ Len(rows) > 0
      BY <1>1, <1>3, <2>5 DEF Timestamp, NextLabel, StampInv, FirstUnstamped
    <3>2. RowsTyped' BY <1>3, <2>1, <2>3, <3>1 DEF StampInv, RowsTyped
    <3>3. FirstUnstamped' BY <1>1, <3>1 DEF StampInv, FirstUnstamped
    <3>4. \A n \in 2 .. Len(rows) : rows[n].stamp \in Nat
      BY StampType DEF StampInv, RowsTyped
    <3>5. RowsOrdered'
      BY <1>1, <2>1, <3>1, <3>4 DEF StampInv, RowsOrdered
    <3>6. DumpFollowsRows' BY <2>1, <3>1 DEF StampInv, DumpFollowsRows
    <3>7. QED BY <3>2, <3>3, <3>5, <3>6 DEF StampInv
  <2>6. QED BY <2>4, <2>5
<1>4. CASE StopAtLimit
  <2>1. /\ phase = "read" /\ phase' = "simulate" /\ rows' = NewRow
        /\ UNCHANGED <<vcdTime, lastActive, level, delayed, dump, next>>
        /\ flags' = {}
    BY <1>4 DEF StopAtLimit, writing
  <2>2. RowsTyped' BY <2>1, RowPushed DEF StampInv, RowsTyped
  <2>3. FirstUnstamped' BY <1>1, <2>1, RowPushed DEF FirstUnstamped
  <2>4. \A n \in 2 .. Len(rows') : rows'[n].stamp \in Nat
    BY <2>2, StampType DEF RowsTyped
  <2>5. \A n \in 2 .. Len(rows') : rows'[n].stamp < vcdTime
    BY <1>1, <2>1, <2>4, RowPushed
  <2>6. \A m, n \in 2 .. Len(rows') : m < n => rows'[m].stamp < rows'[n].stamp
    BY <2>1, RowPushed
  <2>7. RowsOrdered' BY <2>1, <2>5, <2>6 DEF RowsOrdered
  <2>8. DumpFollowsRows'
    BY <1>1, <2>1, RowPushed DEF StampInv, DumpFollowsRows
  <2>9. QED BY <2>2, <2>3, <2>7, <2>8 DEF StampInv
<1>5. CASE EndOfFile
  BY <1>5 DEF EndOfFile, reading, writing, StampInv, RowsTyped, FirstUnstamped,
     RowsOrdered, DumpFollowsRows
<1>6. CASE Simulate
  BY <1>6 DEF Simulate, reading, writing, StampInv, RowsTyped, FirstUnstamped,
     RowsOrdered, DumpFollowsRows
<1>7. CASE WriteStamp
  <2>1. PICK e : /\ dump' = Append(dump, e) /\ e.stamp = rows[next].stamp /\ e \in Entry
    <3> DEFINE vals == [o \in Output |-> o \in results[next]]
               values == [o \in Differing(vals) |-> vals[o]]
               e == [stamp |-> rows[next].stamp, values |-> values]
    <3>1. dump' = Append(dump, e) BY <1>7 DEF WriteStamp
    <3>2. next \in 1 .. Len(rows) /\ rows[next].stamp # Never
      BY <1>1, <1>7 DEF WriteStamp, StampInv, DumpFollowsRows
    <3>3. rows[next].stamp \in Time BY <3>2, StampType DEF StampInv, RowsTyped
    <3>4. Differing(vals) \in SUBSET Output BY DEF Differing
    <3>5. values \in [Differing(vals) -> BOOLEAN]
      <4>1. \A o \in Output : vals[o] \in BOOLEAN OBVIOUS
      <4> DEFINE D == Differing(vals)
      <4>2. \A o \in D : vals[o] \in BOOLEAN BY <3>4, <4>1
      <4> HIDE DEF D, vals
      <4>3. [o \in D |-> vals[o]] \in [D -> BOOLEAN] BY <4>2
      <4>4. QED BY <4>3 DEF D
    <3>6. e \in Entry BY <3>3, <3>4, <3>5 DEF Entry
    <3>7. QED BY <3>1, <3>6
  <2>2. /\ dump \in Seq(Entry) /\ dump' \in Seq(Entry) /\ Len(dump') = Len(dump) + 1
        /\ \A n \in 1 .. Len(dump) : dump'[n] = dump[n]
        /\ dump'[Len(dump) + 1].stamp = rows[next].stamp
    BY <2>1 DEF StampInv, RowsTyped
  <2>3. /\ next \in 1 .. Len(rows) /\ rows[next].stamp # Never /\ next' = next + 1
        /\ phase = "write"
        /\ UNCHANGED <<vcdTime, lastActive, active, level, flags, delayed, rows, phase>>
    BY <1>1, <1>7 DEF WriteStamp, reading, StampInv, DumpFollowsRows
  <2>4. next # 1 BY <2>3 DEF StampInv, FirstUnstamped
  <2>5. Len(dump) = next - 2 BY <1>1, <2>3, <2>4 DEF StampInv, DumpFollowsRows
  <2>6. \A n \in 1 .. Len(dump') : dump'[n].stamp = rows[n + 1].stamp
    <3>1. SUFFICES ASSUME NEW n \in 1 .. Len(dump')
                   PROVE  dump'[n].stamp = rows[n + 1].stamp
      OBVIOUS
    <3>2. CASE n \in 1 .. Len(dump) BY <2>2, <3>2 DEF StampInv, DumpFollowsRows
    <3>3. CASE n = Len(dump) + 1
      <4>1. n + 1 = next BY <1>1, <2>3, <2>5, <3>3
      <4>2. QED BY <2>2, <3>3, <4>1
    <3>4. QED BY <1>1, <2>2, <3>1, <3>2, <3>3
  <2>7. DumpFollowsRows' BY <1>1, <2>2, <2>3, <2>4, <2>5, <2>6 DEF DumpFollowsRows
  <2>8. QED BY <2>2, <2>3, <2>7 DEF StampInv, RowsTyped, FirstUnstamped, RowsOrdered
<1>8. CASE SkipUnstamped
  <2>1. /\ next \in 1 .. Len(rows) /\ rows[next].stamp = Never /\ next' = next + 1
        /\ phase = "write"
        /\ UNCHANGED <<reading, rows, phase, dump>>
    BY <1>1, <1>8 DEF SkipUnstamped, StampInv, DumpFollowsRows
  <2>2. next = 1 BY <2>1 DEF StampInv, FirstUnstamped
  <2>3. DumpFollowsRows' BY <1>1, <2>1, <2>2 DEF StampInv, DumpFollowsRows
  <2>4. QED BY <2>1, <2>3 DEF reading, StampInv, RowsTyped, FirstUnstamped, RowsOrdered
<1>9. CASE Finish
  BY <1>9 DEF Finish, reading, writing, StampInv, RowsTyped, FirstUnstamped,
     RowsOrdered, DumpFollowsRows
<1>10. CASE Done \/ UNCHANGED vars
  BY <1>10 DEF Done, vars, reading, writing, StampInv, RowsTyped, FirstUnstamped,
     RowsOrdered, DumpFollowsRows
<1>11. QED
  BY <1>2, <1>3, <1>4, <1>5, <1>6, <1>7, <1>8, <1>9, <1>10 DEF Next

LEMMA StampsFromInv == StampInv => StampsIncrease
<1> SUFFICES ASSUME StampInv PROVE StampsIncrease
  OBVIOUS
<1>1. Len(dump) \in Nat /\ Len(rows) \in Nat BY DEF StampInv, RowsTyped
<1>2. \A n \in 1 .. Len(dump) : n + 1 \in 2 .. Len(rows) /\ dump[n].stamp = rows[n + 1].stamp
  BY <1>1 DEF StampInv, DumpFollowsRows
<1>3. \A n \in 1 .. Len(dump) : dump[n].stamp < vcdTime
  BY <1>2 DEF StampInv, RowsOrdered
<1>4. ASSUME NEW m \in 1 .. Len(dump), NEW n \in 1 .. Len(dump), m < n
      PROVE  dump[m].stamp < dump[n].stamp
  BY <1>1, <1>2, <1>4 DEF StampInv, RowsOrdered
<1>5. QED BY <1>3, <1>4 DEF StampsIncrease

(* The output VCD's timestamps increase, and lie before the last timestamp *)
(* read, whatever the file holds.                                          *)
THEOREM StampsAlwaysIncrease == Spec => []StampsIncrease
BY InitStamp, NextStamp, StampsFromInv, PTL DEF Spec

----------------------------------------------------------------------------
LEMMA LeastElement ==
  ASSUME NEW S \in SUBSET Nat, S # {}
  PROVE  \E d \in S : \A e \in S : d <= e
<1>1. IsWellFoundedOn(OpToRel(<, Nat), Nat) BY NatLessThanWellFounded
<1>2. PICK d \in S : \A e \in S : ~ (<<e, d>> \in OpToRel(<, Nat)) BY <1>1, WFMin
<1>3. \A e \in S : ~(e < d) BY <1>2 DEF OpToRel
<1>4. QED BY <1>3

(* What a reader has seen follows entry by entry.                          *)
LEMMA ShownStep ==
  ASSUME NEW ds \in Seq(Entry)
  PROVE  Shown(ds) =
           [n \in 0 .. Len(ds) |->
              IF n = 0 THEN [o \in {} |-> FALSE] ELSE With(Shown(ds)[n - 1], ds[n].values)]
<1> DEFINE Follows(g, m) ==
             g = [n \in 0 .. m |->
                    IF n = 0 THEN [o \in {} |-> FALSE] ELSE With(g[n - 1], ds[n].values)]
           Bad == {m \in Nat : ~ \E g : Follows(g, m)}
<1>1. Bad = {}
  <2> SUFFICES ASSUME Bad # {} PROVE FALSE
    OBVIOUS
  <2>1. PICK m \in Bad : \A k \in Bad : m <= k
    <3> HIDE DEF Follows
    <3>1. Bad \in SUBSET Nat OBVIOUS
    <3> HIDE DEF Bad
    <3>2. QED BY <3>1, LeastElement
  <2>2. CASE m = 0
    <3>1. Follows([n \in 0 .. 0 |-> [o \in {} |-> FALSE]], 0) OBVIOUS
    <3>2. QED BY <2>1, <2>2, <3>1
  <2>3. CASE m # 0
    <3>1. m \in Nat /\ m - 1 \in Nat /\ m - 1 \notin Bad
      <4> HIDE DEF Follows
      <4>1. m \in Nat OBVIOUS
      <4> HIDE DEF Bad
      <4>2. QED BY <2>1, <2>3, <4>1
    <3>2. PICK g : Follows(g, m - 1)
      <4> HIDE DEF Follows
      <4>1. QED BY <3>1
    <3> DEFINE h == [n \in 0 .. m |-> IF n = m THEN With(g[m - 1], ds[m].values) ELSE g[n]]
    <3>3. \A n \in 0 .. m - 1 : h[n] = g[n] BY <2>1
    <3>4. \A n \in 0 .. m - 1 :
            g[n] = IF n = 0 THEN [o \in {} |-> FALSE] ELSE With(g[n - 1], ds[n].values)
      BY <3>2
    <3>5. ASSUME NEW n \in 0 .. m
          PROVE  h[n] = IF n = 0 THEN [o \in {} |-> FALSE] ELSE With(h[n - 1], ds[n].values)
      <4>1. CASE n = m
        <5>1. h[n] = With(g[m - 1], ds[m].values) BY <2>1, <4>1
        <5>2. h[m - 1] = g[m - 1] BY <2>1, <2>3, <3>3
        <5>3. QED BY <2>3, <4>1, <5>1, <5>2
      <4>2. CASE n # m
        <5>1. n \in 0 .. m - 1 BY <2>1, <4>2
        <5>2. n = 0 \/ h[n - 1] = g[n - 1] BY <2>1, <3>3, <5>1
        <5>3. QED BY <3>3, <3>4, <5>1, <5>2
      <4>3. QED BY <4>1, <4>2
    <3>6. h = [n \in 0 .. m |-> h[n]] OBVIOUS
    <3> HIDE DEF h
    <3>7. Follows(h, m) BY <3>5, <3>6
    <3>8. QED BY <2>1, <3>7
  <2>4. QED BY <2>2, <2>3
<1>2. \E g : Follows(g, Len(ds))
  <2> HIDE DEF Follows
  <2>1. Len(ds) \in Nat OBVIOUS
  <2>2. QED BY <1>1, <2>1
<1>3. QED BY <1>2 DEF Shown

LEMMA ShownOfPrefix ==
  ASSUME NEW ds \in Seq(Entry), NEW e \in Entry
  PROVE  /\ \A n \in 0 .. Len(ds) : Shown(Append(ds, e))[n] = Shown(ds)[n]
         /\ Shown(Append(ds, e))[Len(ds) + 1] = With(Shown(ds)[Len(ds)], e.values)
<1> DEFINE longer == Append(ds, e)
           Bad == {m \in Nat : m <= Len(ds) /\ Shown(longer)[m] # Shown(ds)[m]}
<1>1. /\ longer \in Seq(Entry) /\ Len(longer) = Len(ds) + 1 /\ Len(ds) \in Nat
      /\ longer[Len(ds) + 1] = e
      /\ \A m \in 1 .. Len(ds) : longer[m] = ds[m]
  OBVIOUS
<1> HIDE DEF longer
<1>2. \A m \in 0 .. Len(ds) : Shown(ds)[m] =
        IF m = 0 THEN [o \in {} |-> FALSE] ELSE With(Shown(ds)[m - 1], ds[m].values)
  BY ShownStep
<1>3. \A m \in 0 .. Len(longer) : Shown(longer)[m] =
        IF m = 0 THEN [o \in {} |-> FALSE] ELSE With(Shown(longer)[m - 1], longer[m].values)
  BY <1>1, ShownStep
<1>4. Bad = {}
  <2> SUFFICES ASSUME Bad # {} PROVE FALSE
    OBVIOUS
  <2>1. PICK m \in Bad : \A k \in Bad : m <= k
    <3>1. Bad \in SUBSET Nat OBVIOUS
    <3> HIDE DEF Bad
    <3>2. QED BY <3>1, LeastElement
  <2>2. m \in 0 .. Len(ds) /\ m \in 0 .. Len(longer) /\ Shown(longer)[m] # Shown(ds)[m] BY <1>1
  <2>3. m # 0 BY <1>2, <1>3, <2>2
  <2>4. m - 1 \in Nat /\ m - 1 <= Len(ds) /\ m \in 1 .. Len(ds) BY <1>1, <2>2, <2>3
  <2>5. m - 1 \notin Bad
    <3> HIDE DEF Bad
    <3>1. QED BY <2>1, <2>2, <2>4
  <2>6. Shown(longer)[m - 1] = Shown(ds)[m - 1] BY <2>4, <2>5
  <2>7. longer[m] = ds[m] BY <1>1, <2>4
  <2>8. QED BY <1>2, <1>3, <2>2, <2>3, <2>6, <2>7
<1>5. \A n \in 0 .. Len(ds) : Shown(longer)[n] = Shown(ds)[n] BY <1>1, <1>4
<1>6. Shown(longer)[Len(ds) + 1] = With(Shown(ds)[Len(ds)], e.values)
  <2>1. Len(ds) + 1 \in 0 .. Len(longer) /\ Len(ds) + 1 # 0 /\ (Len(ds) + 1) - 1 = Len(ds)
        /\ Len(ds) \in 0 .. Len(ds)
    BY <1>1
  <2>2. QED BY <1>1, <1>3, <1>5, <2>1
<1>7. QED BY <1>5, <1>6 DEF longer

----------------------------------------------------------------------------
(* The kernel's results are the samples' outputs; what a reader has seen   *)
(* is what the writer remembers, and was the sample at every entry.        *)
DumpShown ==
  /\ phase \in {"write", "done"} => results = Outputs(rows)
  /\ lastVal \in [{} -> BOOLEAN] \cup [Output -> BOOLEAN]
  /\ Shown(dump)[Len(dump)] = lastVal
  /\ \A n \in 1 .. Len(dump) : Shown(dump)[n] = [o \in Output |-> o \in Outputs(rows)[n + 1]]
  /\ phase = "done" => next = Len(rows) + 1
  /\ phase \in {"read", "simulate"} => dump = <<>>

(* An entry holds the outputs that differ from what was last written, so   *)
(* that on top of it they give the new values.                             *)
LEMMA DifferencesRestore ==
  ASSUME NEW vals \in [Output -> BOOLEAN],
         lastVal \in [{} -> BOOLEAN] \cup [Output -> BOOLEAN]
  PROVE  With(lastVal, [o \in Differing(vals) |-> vals[o]]) = vals
<1> DEFINE new == [o \in Differing(vals) |-> vals[o]]
<1>1. DOMAIN lastVal \subseteq Output /\ Differing(vals) \subseteq Output BY DEF Differing
<1>2. (DOMAIN new) \cup (DOMAIN lastVal) = Output BY <1>1 DEF Differing
<1>3. \A o \in Output :
        (IF o \in DOMAIN new THEN new[o] ELSE lastVal[o]) = vals[o]
  BY DEF Differing
<1> HIDE DEF new
<1>4. With(lastVal, new) =
        [o \in (DOMAIN new) \cup (DOMAIN lastVal) |->
           IF o \in DOMAIN new THEN new[o] ELSE lastVal[o]]
  BY DEF With
<1>5. With(lastVal, new) = [o \in Output |-> vals[o]] BY <1>2, <1>3, <1>4
<1>6. QED BY <1>5 DEF new

LEMMA InitShown == Init => DumpShown
<1> SUFFICES ASSUME Init PROVE DumpShown
  OBVIOUS
<1>1. dump = <<>> /\ lastVal = [o \in {} |-> FALSE] /\ phase = "read" BY DEF Init
<1>2. dump \in Seq(Entry) /\ Len(dump) = 0 BY <1>1
<1>3. Shown(dump)[0] = [o \in {} |-> FALSE]
  <2>1. 0 \in 0 .. Len(dump) BY <1>2
  <2>2. QED BY <1>2, <2>1, ShownStep
<1>4. lastVal \in [{} -> BOOLEAN] BY <1>1
<1>5. QED BY <1>1, <1>2, <1>3, <1>4 DEF DumpShown

LEMMA ShownIsKept == StampInv /\ StampInv' /\ DumpShown /\ [Next]_vars => DumpShown'
<1> SUFFICES ASSUME StampInv, StampInv', DumpShown, [Next]_vars PROVE DumpShown'
  OBVIOUS
<1>1. /\ rows \in Seq(Row) /\ Len(rows) \in Nat /\ dump \in Seq(Entry) /\ Len(dump) \in Nat
      /\ dump' \in Seq(Entry) /\ next \in 1 .. Len(rows) + 1
  BY DEF StampInv, RowsTyped, DumpFollowsRows
<1>2. CASE (\E p \in Pin, v \in Value : ChangeTo(p, v)) \/ (\E t \in Time : Timestamp(t))
           \/ StopAtLimit \/ EndOfFile
  <2>1. phase = "read" /\ phase' \in {"read", "simulate"} /\ UNCHANGED writing
    BY <1>2 DEF ChangeTo, Timestamp, StopAtLimit, EndOfFile
  <2>2. dump' = <<>> /\ dump' = dump /\ lastVal' = lastVal /\ Len(dump') = 0
    BY <2>1 DEF DumpShown, writing
  <2>3. Shown(dump')[Len(dump')] = lastVal' BY <2>2 DEF DumpShown
  <2>4. QED BY <2>1, <2>2, <2>3 DEF DumpShown
<1>3. CASE Simulate
  <2>1. /\ phase = "simulate" /\ phase' = "write" /\ results' = Outputs(rows)
        /\ UNCHANGED <<rows, dump, lastVal>>
    BY <1>3 DEF Simulate
  <2>2. Outputs(rows') = Outputs(rows) /\ Shown(dump') = Shown(dump) BY <2>1
  <2>3. QED BY <2>1, <2>2 DEF DumpShown
<1>4. CASE WriteStamp
  <2> DEFINE vals == [o \in Output |-> o \in results[next]]
             entry == [stamp |-> rows[next].stamp, values |-> [o \in Differing(vals) |-> vals[o]]]
  <2>1. /\ phase = "write" /\ rows[next].stamp # Never /\ next <= Len(rows)
        /\ dump' = Append(dump, entry) /\ lastVal' = vals
        /\ UNCHANGED <<rows, phase, results>>
    BY <1>4 DEF WriteStamp
  <2>2. next \in 1 .. Len(rows) /\ next # 1
    BY <1>1, <2>1 DEF StampInv, FirstUnstamped
  <2>3. Len(dump) = next - 2 BY <1>1, <2>2 DEF StampInv, DumpFollowsRows
  <2>4. entry \in Entry
    <3>1. entry = dump'[Len(dump) + 1] /\ Len(dump') = Len(dump) + 1
      <4> HIDE DEF entry
      <4>1. QED BY <1>1, <2>1
    <3>2. QED BY <1>1, <3>1
  <2>5. vals \in [Output -> BOOLEAN] OBVIOUS
  <2>6. With(lastVal, entry.values) = vals
    <3> HIDE DEF vals
    <3>1. entry.values = [o \in Differing(vals) |-> vals[o]] OBVIOUS
    <3>2. QED BY <2>5, <3>1, DifferencesRestore DEF DumpShown
  <2> HIDE DEF entry
  <2>7. /\ \A n \in 0 .. Len(dump) : Shown(dump')[n] = Shown(dump)[n]
        /\ Shown(dump')[Len(dump) + 1] = vals
    BY <1>1, <2>1, <2>4, <2>6, ShownOfPrefix DEF DumpShown
  <2>8. Len(dump') = Len(dump) + 1 BY <1>1, <2>1, <2>4
  <2>9. vals = [o \in Output |-> o \in Outputs(rows)[next]] BY <2>1 DEF DumpShown
  <2>10. Shown(dump')[Len(dump')] = lastVal' BY <2>1, <2>7, <2>8
  <2>11. ASSUME NEW n \in 1 .. Len(dump')
         PROVE  Shown(dump')[n] = [o \in Output |-> o \in Outputs(rows)[n + 1]]
    <3>1. CASE n \in 1 .. Len(dump)
      <4>1. n \in 0 .. Len(dump) BY <1>1, <3>1
      <4>2. Shown(dump)[n] = [o \in Output |-> o \in Outputs(rows)[n + 1]]
        BY <3>1, Zenon DEF DumpShown
      <4>3. QED BY <2>7, <4>1, <4>2, Zenon
    <3>2. CASE n = Len(dump) + 1
      <4>1. n + 1 = next BY <1>1, <2>2, <2>3, <3>2
      <4>2. [o \in Output |-> o \in Outputs(rows)[next]] = [o \in Output |-> o \in Outputs(rows)[n + 1]]
        BY <4>1, Zenon
      <4> HIDE DEF vals
      <4>3. Shown(dump')[n] = vals BY <2>7, <3>2
      <4>4. QED BY <2>9, <4>2, <4>3, Zenon
    <3>3. QED BY <1>1, <2>8, <3>1, <3>2
  <2>12. Outputs(rows') = Outputs(rows) BY <2>1
  <2>13. QED BY <2>1, <2>5, <2>10, <2>11, <2>12 DEF DumpShown
<1>5. CASE SkipUnstamped \/ Finish \/ Done \/ UNCHANGED vars
  <2>1. /\ UNCHANGED <<rows, dump, lastVal, results>>
        /\ \/ phase' = phase /\ (phase = "done" => next' = next)
           \/ phase = "write" /\ phase' = "done" /\ next > Len(rows) /\ next' = next
    BY <1>5 DEF SkipUnstamped, Finish, Done, vars, reading, writing
  <2>2. Outputs(rows') = Outputs(rows) /\ Shown(dump') = Shown(dump) BY <2>1
  <2>3. phase' = "done" => next' = Len(rows') + 1 BY <1>1, <2>1 DEF DumpShown
  <2>4. QED BY <2>1, <2>2, <2>3 DEF DumpShown
<1>6. QED BY <1>2, <1>3, <1>4, <1>5 DEF Next

LEMMA ShowsFromInv == StampInv /\ DumpShown => DumpShowsSamples
<1> SUFFICES ASSUME StampInv, DumpShown PROVE DumpShowsSamples
  OBVIOUS
<1>1. /\ rows \in Seq(Row) /\ Len(rows) \in Nat /\ dump \in Seq(Entry) /\ Len(dump) \in Nat
      /\ next \in 1 .. Len(rows) + 1
  BY DEF StampInv, RowsTyped, DumpFollowsRows
<1>2. /\ Len(Samples) = Len(rows)
      /\ \A n \in 1 .. Len(rows) :
           Samples[n].stamp = rows[n].stamp /\ Samples[n].out = Outputs(rows)[n]
  BY <1>1 DEF Samples
<1>3. \A n \in 1 .. Len(Samples) : Samples[n].stamp = Never <=> n = 1
  BY <1>2 DEF StampInv, FirstUnstamped
<1>4. \A n \in 1 .. Len(dump) : n + 1 \in 1 .. Len(rows)
  BY <1>1 DEF StampInv, DumpFollowsRows
<1>5. \A n \in 1 .. Len(dump) :
        /\ dump[n].stamp = Samples[n + 1].stamp
        /\ Shown(dump)[n] = [o \in Output |-> o \in Samples[n + 1].out]
  BY <1>2, <1>4 DEF StampInv, DumpFollowsRows, DumpShown
<1>6. phase = "done" => Len(dump) = IF rows = <<>> THEN 0 ELSE Len(Samples) - 1
  <2>1. rows = <<>> <=> Len(rows) = 0 BY <1>1
  <2>2. QED BY <1>1, <1>2, <2>1 DEF StampInv, DumpFollowsRows, DumpShown
<1>7. QED BY <1>3, <1>5, <1>6 DEF DumpShowsSamples

(* Whoever reads the output VCD sees the simulated outputs at each stamp.  *)
THEOREM DumpAlwaysShowsSamples == Spec => []DumpShowsSamples
BY InitStamp, NextStamp, InitShown, ShownIsKept, ShowsFromInv, PTL DEF Spec

----------------------------------------------------------------------------
(***************************************************************************)
(* The stimulus that cuda_test assembles is that of an event-driven        *)
(* simulator, for every circuit, waveform and cycle limit.                 *)
(*                                                                         *)
(* Two things carry it.  While a timestamp is being read, the edge flags   *)
(* are those between the pins before it and the pins with the delayed      *)
(* changes, however often a pin changes (EdgesKnown).  And a row that is   *)
(* pushed leaves the registers after the earlier rows alone                *)
(* (RegistersOfPrefix): the induction over rows takes a least row where    *)
(* they would differ.                                                      *)
(***************************************************************************)
EdgesKnown ==
  /\ phase = "read" => flags = EdgesBetween(level, Toggle(level, delayed))
  /\ phase = "read" => (active <=> Len(rows) = 0 \/ flags # {})

----------------------------------------------------------------------------
(* The registers before row n + 1 follow from those before row n.          *)
LEMMA RegistersStep ==
  ASSUME NEW rs \in Seq(Row)
  PROVE  Registers(rs) =
           [n \in 0 .. Len(rs) |->
              IF n = 0 THEN {} ELSE Latch(Registers(rs)[n - 1], rs[n].level, rs[n].flags)]
<1> DEFINE Follows(g, m) ==
             g = [n \in 0 .. m |->
                    IF n = 0 THEN {} ELSE Latch(g[n - 1], rs[n].level, rs[n].flags)]
           Bad == {m \in Nat : ~ \E g : Follows(g, m)}
<1>1. Bad = {}
  <2> SUFFICES ASSUME Bad # {} PROVE FALSE
    OBVIOUS
  <2>1. PICK m \in Bad : \A k \in Bad : m <= k
    <3> HIDE DEF Follows
    <3>1. Bad \in SUBSET Nat OBVIOUS
    <3> HIDE DEF Bad
    <3>2. QED BY <3>1, LeastElement
  <2>2. CASE m = 0
    <3>1. Follows([n \in 0 .. 0 |-> {}], 0) OBVIOUS
    <3>2. QED BY <2>1, <2>2, <3>1
  <2>3. CASE m # 0
    <3>1. m \in Nat /\ m - 1 \in Nat /\ m - 1 \notin Bad
      <4> HIDE DEF Follows
      <4>1. m \in Nat OBVIOUS
      <4> HIDE DEF Bad
      <4>2. QED BY <2>1, <2>3, <4>1
    <3>2. PICK g : Follows(g, m - 1)
      <4> HIDE DEF Follows
      <4>1. QED BY <3>1
    <3> DEFINE h == [n \in 0 .. m |->
                       IF n = m THEN Latch(g[m - 1], rs[m].level, rs[m].flags) ELSE g[n]]
    <3>3. \A n \in 0 .. m - 1 : h[n] = g[n] BY <2>1
    <3>4. \A n \in 0 .. m - 1 :
            g[n] = IF n = 0 THEN {} ELSE Latch(g[n - 1], rs[n].level, rs[n].flags)
      BY <3>2
    <3>5. ASSUME NEW n \in 0 .. m
          PROVE  h[n] = IF n = 0 THEN {} ELSE Latch(h[n - 1], rs[n].level, rs[n].flags)
      <4>1. CASE n = m
        <5>1. h[n] = Latch(g[m - 1], rs[m].level, rs[m].flags) BY <2>1, <4>1
        <5>2. h[m - 1] = g[m - 1] BY <2>1, <2>3, <3>3
        <5>3. QED BY <2>3, <4>1, <5>1, <5>2
      <4>2. CASE n # m
        <5>1. n \in 0 .. m - 1 BY <2>1, <4>2
        <5>2. n = 0 \/ h[n - 1] = g[n - 1] BY <2>1, <3>3, <5>1
        <5>3. QED BY <3>3, <3>4, <5>1, <5>2
      <4>3. QED BY <4>1, <4>2
    <3>6. h = [n \in 0 .. m |-> h[n]] OBVIOUS
    <3> HIDE DEF h
    <3>7. Follows(h, m) BY <3>5, <3>6
    <3>8. QED BY <2>1, <3>7
  <2>4. QED BY <2>2, <2>3
<1>2. \E g : Follows(g, Len(rs))
  <2> HIDE DEF Follows
  <2>1. Len(rs) \in Nat OBVIOUS
  <2>2. QED BY <1>1, <2>1
<1>3. QED BY <1>2 DEF Registers

LEMMA RegistersOfPrefix ==
  ASSUME NEW rs \in Seq(Row), NEW r \in Row, NEW n \in 0 .. Len(rs)
  PROVE  Registers(Append(rs, r))[n] = Registers(rs)[n]
<1> DEFINE longer == Append(rs, r)
           Bad == {m \in Nat : m <= Len(rs) /\ Registers(longer)[m] # Registers(rs)[m]}
<1>1. /\ longer \in Seq(Row) /\ Len(longer) = Len(rs) + 1 /\ Len(rs) \in Nat
      /\ \A m \in 1 .. Len(rs) : longer[m] = rs[m]
  OBVIOUS
<1> HIDE DEF longer
<1>2. ASSUME NEW m \in 0 .. Len(rs)
      PROVE  /\ Registers(rs)[m] =
                  IF m = 0 THEN {} ELSE Latch(Registers(rs)[m - 1], rs[m].level, rs[m].flags)
             /\ Registers(longer)[m] =
                  IF m = 0 THEN {}
                  ELSE Latch(Registers(longer)[m - 1], longer[m].level, longer[m].flags)
  <2>1. m \in 0 .. Len(longer) BY <1>1
  <2>2. Registers(rs) =
          [k \in 0 .. Len(rs) |->
             IF k = 0 THEN {} ELSE Latch(Registers(rs)[k - 1], rs[k].level, rs[k].flags)]
    BY RegistersStep
  <2>3. Registers(longer) =
          [k \in 0 .. Len(longer) |->
             IF k = 0 THEN {}
             ELSE Latch(Registers(longer)[k - 1], longer[k].level, longer[k].flags)]
    BY <1>1, RegistersStep
  <2>4. QED BY <2>1, <2>2, <2>3
<1>3. Bad = {}
  <2> SUFFICES ASSUME Bad # {} PROVE FALSE
    OBVIOUS
  <2>1. PICK m \in Bad : \A k \in Bad : m <= k
    <3>1. Bad \in SUBSET Nat OBVIOUS
    <3> HIDE DEF Bad
    <3>2. QED BY <3>1, LeastElement
  <2>2. m \in 0 .. Len(rs) /\ Registers(longer)[m] # Registers(rs)[m] BY <1>1
  <2>3. m # 0 BY <1>2, <2>2
  <2>4. m - 1 \in Nat /\ m - 1 <= Len(rs) /\ m \in 1 .. Len(rs) BY <1>1, <2>2, <2>3
  <2>5. m - 1 \notin Bad
    <3> HIDE DEF Bad
    <3>1. QED BY <2>1, <2>2, <2>4
  <2>6. Registers(longer)[m - 1] = Registers(rs)[m - 1] BY <2>4, <2>5
  <2>7. longer[m] = rs[m] BY <1>1, <2>4
  <2>8. QED BY <1>2, <2>2, <2>3, <2>6, <2>7
<1>4. QED BY <1>1, <1>3 DEF longer

LEMMA AppendIs ==
  ASSUME NEW T, NEW u \in Seq(T), NEW s \in T
  PROVE  [n \in 1 .. Len(u) + 1 |-> IF n <= Len(u) THEN u[n] ELSE s] = Append(u, s)
<1> DEFINE v == [n \in 1 .. Len(u) + 1 |-> IF n <= Len(u) THEN u[n] ELSE s]
           w == Append(u, s)
<1>1. w \in Seq(T) /\ Len(w) = Len(u) + 1 /\ Len(u) \in Nat /\ w[Len(u) + 1] = s
      /\ \A n \in 1 .. Len(u) : w[n] = u[n] /\ u[n] \in T
  OBVIOUS
<1>2. v \in [1 .. Len(u) + 1 -> T] BY <1>1
<1>3. v \in Seq(T) /\ Len(v) = Len(u) + 1 BY <1>1, <1>2
<1>4. ASSUME NEW n \in 1 .. Len(u) + 1 PROVE v[n] = w[n]
  <2>1. n \in 1 .. Len(u) \/ (n = Len(u) + 1 /\ ~(n <= Len(u))) BY <1>1
  <2>2. QED BY <1>1, <2>1
<1> HIDE DEF v, w
<1>5. v = w BY <1>1, <1>3, <1>4, SeqEqual
<1>6. QED BY <1>5 DEF v, w

(* A row that is pushed adds one sample, of the registers so far, and      *)
(* clocks them with the edges of the row.                                  *)
LEMMA OneMoreSample ==
  ASSUME rows \in Seq(Row), NEW r \in Row, rows' = Append(rows, r)
  PROVE  /\ Samples' = Append(Samples, [stamp |-> r.stamp,
                                        out |-> Out(Registers(rows)[Len(rows)], r.level)])
         /\ Registers(rows')[Len(rows')] =
              Latch(Registers(rows)[Len(rows)], r.level, r.flags)
         /\ Len(Samples) = Len(rows) /\ Len(Samples') = Len(rows')
<1>1. /\ rows' \in Seq(Row) /\ Len(rows') = Len(rows) + 1 /\ Len(rows) \in Nat
      /\ \A n \in 1 .. Len(rows) : rows'[n] = rows[n]
      /\ rows'[Len(rows) + 1] = r
  OBVIOUS
<1> DEFINE q == Registers(rows)
           nq == Registers(rows')
<1>2. \A n \in 0 .. Len(rows) : nq[n] = q[n] BY RegistersOfPrefix
<1>3. nq[Len(rows) + 1] = Latch(nq[Len(rows)], r.level, r.flags)
  <2>1. nq = [n \in 0 .. Len(rows') |->
                IF n = 0 THEN {} ELSE Latch(nq[n - 1], rows'[n].level, rows'[n].flags)]
    BY <1>1, RegistersStep
  <2> HIDE DEF nq
  <2>2. Len(rows) + 1 \in 0 .. Len(rows') /\ Len(rows) + 1 # 0
        /\ (Len(rows) + 1) - 1 = Len(rows)
    BY <1>1
  <2>3. QED BY <1>1, <2>1, <2>2
<1>4. /\ Samples = [n \in 1 .. Len(rows) |->
                      [stamp |-> rows[n].stamp, out |-> Out(q[n - 1], rows[n].level)]]
      /\ Samples' = [n \in 1 .. Len(rows') |->
                       [stamp |-> rows'[n].stamp, out |-> Out(nq[n - 1], rows'[n].level)]]
  BY DEF Samples, Outputs
<1> HIDE DEF q, nq
<1> DEFINE s == [stamp |-> r.stamp, out |-> Out(q[Len(rows)], r.level)]
<1>5. Samples' = [n \in 1 .. Len(rows) + 1 |-> IF n <= Len(rows) THEN Samples[n] ELSE s]
  <2>1. ASSUME NEW n \in 1 .. Len(rows) + 1
        PROVE  [stamp |-> rows'[n].stamp, out |-> Out(nq[n - 1], rows'[n].level)] =
                 IF n <= Len(rows) THEN Samples[n] ELSE s
    <3>1. CASE n <= Len(rows)
      <4>1. n \in 1 .. Len(rows) /\ n - 1 \in 0 .. Len(rows) BY <1>1, <3>1
      <4>2. rows'[n] = rows[n] /\ nq[n - 1] = q[n - 1] BY <1>1, <1>2, <4>1
      <4>3. QED BY <1>4, <3>1, <4>1, <4>2
    <3>2. CASE n = Len(rows) + 1
      <4>1. n - 1 = Len(rows) /\ ~(n <= Len(rows)) /\ Len(rows) \in 0 .. Len(rows) BY <1>1, <3>2
      <4>2. rows'[n] = r /\ nq[n - 1] = q[Len(rows)] BY <1>1, <1>2, <3>2, <4>1
      <4>3. QED BY <4>1, <4>2
    <3>3. QED BY <1>1, <3>1, <3>2
  <2> HIDE DEF s
  <2>2. QED BY <1>1, <1>4, <2>1
<1>6. Samples \in Seq({Samples[n] : n \in 1 .. Len(rows)} \cup {s}) /\ Len(Samples) = Len(rows)
  <2>1. Samples = [n \in 1 .. Len(rows) |-> Samples[n]] BY <1>4
  <2> HIDE DEF s
  <2>2. QED BY <1>1, <2>1
<1>7. Samples' = Append(Samples, s)
  <2> DEFINE T == {Samples[n] : n \in 1 .. Len(rows)} \cup {s}
             u == Samples
  <2>1. s \in T /\ u \in Seq(T) /\ Len(u) = Len(rows) BY <1>6
  <2>2. Samples' = [n \in 1 .. Len(u) + 1 |-> IF n <= Len(u) THEN u[n] ELSE s]
    BY <1>5, <2>1
  <2> HIDE DEF s, T, u
  <2>3. Samples' = Append(u, s) BY <2>1, <2>2, AppendIs
  <2>4. QED BY <2>3 DEF u
<1>8. QED BY <1>1, <1>2, <1>3, <1>5, <1>6, <1>7 DEF q, nq, s

----------------------------------------------------------------------------
(* What a timestamp's changes amount to.                                   *)
LEMMA NoChange ==
  ASSUME NEW S PROVE Toggle(S, {}) = S /\ EdgesBetween(S, Toggle(S, {})) = {}
BY DEF Toggle, EdgesBetween

LEMMA EdgesAreKept == StampInv /\ EdgesKnown /\ [Next]_vars => EdgesKnown'
<1> SUFFICES ASSUME StampInv, EdgesKnown, [Next]_vars PROVE EdgesKnown'
  OBVIOUS
<1>1. ASSUME NEW p \in Pin, NEW v \in Value, ChangeTo(p, v) PROVE EdgesKnown'
  <2>1. UNCHANGED <<level, rows, phase>> /\ phase = "read" BY <1>1 DEF ChangeTo, writing
  <2>2. CASE Unchanged(p, v) BY <1>1, <2>1, <2>2 DEF ChangeTo, EdgesKnown
  <2>3. CASE ~Unchanged(p, v)
    <3>1. /\ flags' = flags \cup Raised(p)
          /\ active' = (active \/ Raised(p) # {})
          /\ delayed' = delayed \cup {p}
      BY <1>1, <2>3 DEF ChangeTo
    <3>2. Watched \subseteq Pin \X Direction BY CircuitAssumption
    <3>3. EdgesBetween(level, Toggle(level, delayed \cup {p}))
            = EdgesBetween(level, Toggle(level, delayed)) \cup Raised(p)
      BY <3>2 DEF EdgesBetween, Toggle, Raised, Direction
    <3>4. flags' = EdgesBetween(level', Toggle(level', delayed'))
      BY <2>1, <3>1, <3>3 DEF EdgesKnown
    <3>5. active' <=> Len(rows') = 0 \/ flags' # {}
      BY <2>1, <3>1 DEF EdgesKnown
    <3>6. QED BY <3>4, <3>5 DEF EdgesKnown
  <2>4. QED BY <2>2, <2>3
<1>2. ASSUME NEW t \in Time, Timestamp(t) PROVE EdgesKnown'
  <2>1. /\ phase = "read" /\ ~active' /\ delayed' = {} /\ flags' = (IF active THEN {} ELSE flags)
        /\ rows' = (IF active THEN NewRow ELSE rows)
    BY <1>2 DEF Timestamp
  <2>2. flags' = {} BY <2>1 DEF EdgesKnown
  <2>3. Len(rows') # 0
    <3>1. CASE active
      <4>1. Len(rows') = Len(rows) + 1 BY <2>1, <3>1, RowPushed
      <4>2. Len(rows) \in Nat BY DEF StampInv, RowsTyped
      <4>3. QED BY <4>1, <4>2
    <3>2. CASE ~active BY <2>1, <3>2 DEF EdgesKnown
    <3>3. QED BY <3>1, <3>2
  <2>4. EdgesBetween(level', Toggle(level', delayed')) = {} BY <2>1, NoChange
  <2>5. QED BY <2>1, <2>2, <2>3, <2>4 DEF EdgesKnown
<1>3. CASE StopAtLimit \/ EndOfFile \/ Simulate \/ Finish
  <2>1. phase' # "read" BY <1>3 DEF StopAtLimit, EndOfFile, Simulate, Finish
  <2>2. QED BY <2>1 DEF EdgesKnown
<1>4. CASE WriteStamp \/ SkipUnstamped
  <2>1. phase' = phase /\ phase # "read" BY <1>4 DEF WriteStamp, SkipUnstamped
  <2>2. QED BY <2>1 DEF EdgesKnown
<1>5. CASE Done \/ UNCHANGED vars
  BY <1>5 DEF Done, vars, reading, writing, EdgesKnown
<1>6. QED BY <1>1, <1>2, <1>3, <1>4, <1>5 DEF Next

LEMMA InitEdges == Init => EdgesKnown
<1> SUFFICES ASSUME Init PROVE EdgesKnown
  OBVIOUS
<1>1. flags = {} /\ active /\ delayed = {} /\ Len(rows) = 0 BY DEF Init
<1>2. EdgesBetween(level, Toggle(level, delayed)) = {} BY <1>1, NoChange
<1>3. QED BY <1>1, <1>2 DEF EdgesKnown

----------------------------------------------------------------------------
AbstractVars ==
  <<vcdTime, level, Toggle(level, delayed), Registers(rows)[Len(rows)], lastActive,
    Samples, phase = "read">>

LEMMA InitRefines == Init => Events!Init
<1> SUFFICES ASSUME Init PROVE Events!Init
  OBVIOUS
<1>1. /\ rows = <<>> /\ level = {} /\ delayed = {} /\ vcdTime = 0 /\ lastActive = Never
      /\ phase = "read"
  BY DEF Init
<1>2. rows \in Seq(Row) /\ Len(rows) = 0 BY <1>1
<1>3. Registers(rows)[Len(rows)] = {}
  <2>1. Registers(rows) =
          [n \in 0 .. Len(rows) |->
             IF n = 0 THEN {} ELSE Latch(Registers(rows)[n - 1], rows[n].level, rows[n].flags)]
    BY <1>2, RegistersStep
  <2>2. 0 \in 0 .. Len(rows) BY <1>2
  <2>3. QED BY <1>2, <2>1, <2>2
<1>4. Samples = <<>>
  <2>1. 1 .. Len(rows) = {} BY <1>2
  <2>2. QED BY <2>1 DEF Samples
<1>5. Toggle(level, delayed) = {} BY <1>1, NoChange
<1>6. lastActive = Events!Never BY <1>1 DEF Never, Events!Never
<1>7. (phase = "read") = TRUE BY <1>1
<1>8. QED BY <1>1, <1>3, <1>4, <1>5, <1>6, <1>7, Zenon DEF Events!Init

(* A row pushed while the edges are known is a sample of the event-driven  *)
(* simulator, which has one due.                                           *)
LEMMA PushedIsSampled ==
  ASSUME StampInv, EdgesKnown, phase = "read", active, rows' = NewRow
  PROVE  Events!HasEdge /\ Events!Sample /\ Len(Samples') = Len(rows')
<1> DEFINE r == [level |-> level, flags |-> flags, stamp |-> lastActive]
<1>1. rows \in Seq(Row) /\ r \in Row BY DEF StampInv, RowsTyped, Row
<1>2. rows' = Append(rows, r) BY DEF NewRow
<1>3. r.stamp = lastActive /\ r.level = level /\ r.flags = flags OBVIOUS
<1> HIDE DEF r
<1>4. /\ Samples' = Append(Samples, [stamp |-> r.stamp,
                                     out |-> Out(Registers(rows)[Len(rows)], r.level)])
      /\ Registers(rows')[Len(rows')] = Latch(Registers(rows)[Len(rows)], r.level, r.flags)
      /\ Len(Samples) = Len(rows) /\ Len(Samples') = Len(rows')
  BY <1>1, <1>2, OneMoreSample
<1>5. flags = EdgesBetween(level, Toggle(level, delayed)) BY DEF EdgesKnown
<1>6. Events!Sample BY <1>3, <1>4, <1>5 DEF Events!Sample, Events!EdgesBetween, EdgesBetween
<1>7. Events!HasEdge
  <2>1. CASE Len(rows) = 0
    <3>1. 1 .. Len(rows) = {} BY <2>1
    <3>2. Samples = <<>> BY <3>1 DEF Samples
    <3>3. QED BY <3>2 DEF Events!HasEdge
  <2>2. CASE flags # {}
    BY <1>5, <2>2 DEF Events!HasEdge, Events!EdgesBetween, EdgesBetween
  <2>3. QED BY <2>1, <2>2 DEF EdgesKnown
<1>8. QED BY <1>4, <1>6, <1>7

LEMMA NextRefines ==
  ASSUME StampInv, EdgesKnown, [Next]_vars
  PROVE  [Events!Next]_AbstractVars
<1>1. ASSUME NEW p \in Pin, NEW v \in Value, ChangeTo(p, v) PROVE Events!Change
  <2>1. UNCHANGED <<vcdTime, lastActive, level, rows, phase>> /\ phase = "read"
    BY <1>1 DEF ChangeTo, writing
  <2>2. Toggle(level', delayed') \in SUBSET Pin
    BY <1>1 DEF ChangeTo, Toggle, StampInv, RowsTyped
  <2>3. UNCHANGED Samples BY <2>1 DEF Samples
  <2>4. QED BY <2>1, <2>2, <2>3 DEF Events!Change
<1>2. ASSUME NEW t \in Time, Timestamp(t) PROVE Events!Advance
  <2>1. /\ phase = "read" /\ phase' = "read" /\ t > vcdTime /\ vcdTime' = t
        /\ ~ (active /\ LimitReached(Len(NewRow)))
        /\ level' = Toggle(level, delayed) /\ delayed' = {}
        /\ rows' = (IF active THEN NewRow ELSE rows)
        /\ lastActive' = (IF active THEN vcdTime ELSE lastActive)
    BY <1>2 DEF Timestamp, NextLabel
  <2>2. Toggle(level', delayed') = Toggle(level, delayed) BY <2>1, NoChange
  <2>3. vcdTime' \in {u \in Events!Time : u > vcdTime} BY <2>1 DEF Events!Time, Time
  <2>4. CASE active
    <3>1. Events!HasEdge /\ Events!Sample /\ Len(Samples') = Len(rows')
      BY <2>1, <2>4, PushedIsSampled
    <3>2. rows' = NewRow /\ ~ (Len(rows') >= MaxCycles)
      BY <2>1, <2>4 DEF LimitReached
    <3>3. Len(rows') \in Nat BY <2>1, <3>2, RowPushed
    <3>4. Len(Samples') < MaxCycles BY <3>1, <3>2, <3>3, BoundAssumption
    <3>5. QED BY <2>1, <2>2, <2>3, <2>4, <3>1, <3>4 DEF Events!Advance
  <2>5. CASE ~active
    <3>1. UNCHANGED <<rows, lastActive>> BY <2>1, <2>5
    <3>2. UNCHANGED Samples BY <3>1 DEF Samples
    <3>3. flags = {} /\ Len(rows) # 0 BY <2>1, <2>5 DEF EdgesKnown
    <3>4. EdgesBetween(level, Toggle(level, delayed)) = {} BY <2>1, <3>3 DEF EdgesKnown
    <3>5. Samples # <<>>
      <4>1. Len(rows) \in Nat BY DEF StampInv, RowsTyped
      <4>2. 1 \in 1 .. Len(rows) BY <3>3, <4>1
      <4>3. DOMAIN Samples = 1 .. Len(rows) BY DEF Samples
      <4>4. QED BY <4>2, <4>3
    <3>6. ~Events!HasEdge BY <3>4, <3>5 DEF Events!HasEdge, Events!EdgesBetween, EdgesBetween
    <3>7. QED BY <2>1, <2>2, <2>3, <3>1, <3>2, <3>6 DEF Events!Advance
  <2>6. QED BY <2>4, <2>5
<1>3. ASSUME StopAtLimit PROVE Events!Stop
  <2>1. /\ phase = "read" /\ phase' = "simulate" /\ active /\ rows' = NewRow
        /\ LimitReached(Len(NewRow))
        /\ UNCHANGED <<vcdTime, lastActive, level, delayed>>
    BY <1>3 DEF StopAtLimit
  <2>2. Events!HasEdge /\ Events!Sample /\ Len(Samples') = Len(rows')
    BY <2>1, PushedIsSampled
  <2>3. Len(Samples') >= MaxCycles BY <2>1, <2>2 DEF LimitReached
  <2>4. (phase = "read")' = FALSE BY <2>1
  <2>5. UNCHANGED Toggle(level, delayed) BY <2>1, Zenon
  <2>6. QED BY <2>1, <2>2, <2>3, <2>4, <2>5, Zenon DEF Events!Stop
<1>4. ASSUME EndOfFile PROVE Events!Stop
  <2>1. /\ phase = "read" /\ phase' = "simulate"
        /\ UNCHANGED <<vcdTime, lastActive, level, delayed, rows>>
    BY <1>4 DEF EndOfFile, reading
  <2>2. UNCHANGED Samples BY <2>1 DEF Samples
  <2>3. (phase = "read")' = FALSE BY <2>1
  <2>4. UNCHANGED <<Toggle(level, delayed), Registers(rows)[Len(rows)]>> BY <2>1, Zenon
  <2>5. QED BY <2>1, <2>2, <2>3, <2>4, Zenon DEF Events!Stop
<1>5. ASSUME Simulate \/ WriteStamp \/ SkipUnstamped \/ Finish \/ Done \/ UNCHANGED vars
      PROVE  UNCHANGED AbstractVars
  <2>1. /\ UNCHANGED <<vcdTime, lastActive, level, delayed, rows>>
        /\ (phase = "read") = (phase' = "read")
    BY <1>5 DEF Simulate, WriteStamp, SkipUnstamped, Finish, Done, vars, reading
  <2>2. UNCHANGED Samples BY <2>1 DEF Samples
  <2>3. UNCHANGED <<Toggle(level, delayed), Registers(rows)[Len(rows)], phase = "read">>
    BY <2>1, Zenon
  <2>4. QED BY <2>1, <2>2, <2>3, Zenon DEF AbstractVars
<1>6. Events!Change \/ Events!Advance \/ Events!Stop \/ UNCHANGED AbstractVars
  BY <1>1, <1>2, <1>3, <1>4, <1>5, Zenon DEF Next
<1>7. QED BY <1>6, Zenon DEF Events!Next

(* The rows give the simulator exactly the edges, pins and stamps of an    *)
(* event-driven simulation of the waveform, to the last active timestamp   *)
(* or to the limit.  (A pin that changes twice at one timestamp stays      *)
(* toggled, so the waveform is then not quite the file's.)                 *)
THEOREM StimulusIsEventDriven == Spec => ImplementsEventSim
<1>1. StampInv /\ EdgesKnown /\ [Next]_vars => [Events!Next]_Events!vars
  BY NextRefines DEF Events!vars, AbstractVars
<1>2. QED
  BY <1>1, InitRefines, InitStamp, InitEdges, NextStamp, EdgesAreKept, PTL
  DEF Spec, ImplementsEventSim, Events!Spec
============================================================================
