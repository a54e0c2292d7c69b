---------------------------- MODULE RecordProofs ----------------------------
(***************************************************************************)
(* What the reports make of the day's record, for any messages, any number *)
(* of streaks and registrations, and a clock of any length.                *)
(*                                                                         *)
(* A report sees lines, and the properties speak of facts; the invariant   *)
(* ties the two.  A line tells of something that is so for good            *)
(* (LinesInv), and what must be on record by now is (WrittenInv).  A       *)
(* message has at most one line of its sender and one of a reader, so      *)
(* that the first and the last of its lines are one of two.                *)
(*                                                                         *)
(* The status is a scan, line by line and file by file.  A line that the   *)
(* bell writes is stamped by the clock, so that no file after its own has  *)
(* a line yet and no place is after its place: the scan of the longer      *)
(* record is one more Scan (ScanAppend), and the invariant follows it      *)
(* (BellInv, HeldInv).  A send that crosses midnight writes into an        *)
(* earlier file, but a line the scan passes over.                          *)
(*                                                                         *)
(* That a scan of any length is defined and grows by one Scan is argued by *)
(* the least number for which it would fail (NatMin).                      *)
(***************************************************************************)
EXTENDS Record, WellFoundedInduction, TLAPS

\* A set of natural numbers has a least one.
LEMMA NatMin ==
    ASSUME NEW T, T \subseteq Nat, T # {}
    PROVE  \E x \in T : \A y \in T : x <= y
<1> DEFINE Less == {p \in Nat \X Nat : p[1] < p[2]}
<1>1. OpToRel(<, Nat) = Less
  BY Zenon DEF OpToRel
<1>2. IsWellFoundedOn(Less, Nat)
  BY <1>1, NatLessThanWellFounded, Zenon
<1>3. PICK x \in T : \A y \in T : ~ (<<y, x>> \in Less)
  <2> HIDE DEF Less
  <2>1. QED
    BY <1>2, WFMin, Zenon
<1>4. ASSUME NEW y \in T PROVE x <= y
  <2>1. x \in Nat /\ y \in Nat
    OBVIOUS
  <2>2. y < x => <<y, x>> \in Less
    BY <2>1, Zenon
  <2>3. ~(y < x)
    BY <1>3, <2>2, Zenon
  <2>4. QED
    BY <2>1, <2>3
<1>5. QED
  BY <1>4

-----------------------------------------------------------------------------
(* The clock.                                                              *)

\* The clock read in seconds, and the seconds in days, goes forward.
LEMMA Division ==
    ASSUME NEW t \in Nat, NEW n \in Nat \ {0}
    PROVE  /\ t \div n \in Nat
           /\ \A u \in Nat : u <= t => u \div n <= t \div n
  OBVIOUS

LEMMA SecondType ==
    ASSUME NEW t \in Nat
    PROVE  Second(t) \in Nat /\ \A u \in Nat : u <= t => Second(u) <= Second(t)
  BY RecordAssumption, Division DEF Second

LEMMA DayType ==
    ASSUME NEW s \in Nat
    PROVE  Day(s) \in Nat /\ \A r \in Nat : r <= s => Day(r) <= Day(s)
  BY RecordAssumption, Division DEF Day

\* Every second of the clock has its day file.
LEMMA LastDayType == LastDay \in Nat \ {0}
<1>1. MaxTime \in Nat
  BY RecordAssumption
<1>2. QED
  BY <1>1, SecondType, DayType DEF LastDay

LEMMA SecondsType ==
    /\ Seconds \subseteq Nat
    /\ \A t \in 0 .. MaxTime : Second(t) \in Seconds
    /\ \A s \in Seconds : Day(s) + 1 \in Days
<1>1. MaxTime \in Nat
  BY RecordAssumption
<1>2. Second(MaxTime) \in Nat
  BY <1>1, SecondType
<1>3. ASSUME NEW t \in 0 .. MaxTime PROVE Second(t) \in Seconds
  <2>1. t \in Nat /\ t <= MaxTime
    BY <1>1
  <2>2. QED
    BY <1>1, <2>1, SecondType DEF Seconds
<1>4. ASSUME NEW s \in Seconds PROVE Day(s) + 1 \in Days
  <2>1. s \in Nat /\ s <= Second(MaxTime)
    BY <1>2 DEF Seconds
  <2>2. Day(s) \in Nat /\ Day(s) <= Day(Second(MaxTime)) /\ Day(Second(MaxTime)) \in Nat
    BY <1>2, <2>1, DayType
  <2>3. QED
    BY <2>2 DEF Days, LastDay
<1>5. QED
  BY <1>2, <1>3, <1>4 DEF Seconds

-----------------------------------------------------------------------------
(* The scan.                                                               *)

\* What stands after each line of a file is defined.
LEMMA ScanFileAt ==
    ASSUME NEW b, NEW S, NEW s \in Seq(S)
    PROVE  \E at : /\ at = [n \in 0 .. Len(s) |-> IF n = 0 THEN b ELSE Scan(at[n - 1], s[n])]
                   /\ ScanFile(b, s) = at[Len(s)]
<1> DEFINE Def(at, k) == at = [n \in 0 .. k |-> IF n = 0 THEN b ELSE Scan(at[n - 1], s[n])]
           Bad == {k \in Nat : ~ \E at : Def(at, k)}
<1>1. Bad = {}
  <2> SUFFICES ASSUME Bad # {} PROVE FALSE
    OBVIOUS
  <2>1. PICK k \in Bad : \A j \in Bad : k <= j
    BY NatMin
  <2>2. k \in Nat /\ ~ \E at : Def(at, k)
    BY <2>1
  <2>3. k # 0
    <3> SUFFICES ASSUME k = 0 PROVE FALSE
      OBVIOUS
    <3>1. Def([n \in 0 .. 0 |-> b], 0)
      OBVIOUS
    <3>2. QED
      BY <3>1, <2>2
  <2>4. k - 1 \in Nat /\ k - 1 \notin Bad
    <3>1. k - 1 \in Nat /\ k - 1 < k
      BY <2>2, <2>3
    <3>2. k - 1 \in Bad => k <= k - 1
      BY <2>1, Zenon
    <3>3. QED
      BY <3>1, <3>2
  <2>5. PICK g : Def(g, k - 1)
    BY <2>4
  <2> DEFINE h == [n \in 0 .. k |-> IF n = k THEN Scan(g[k - 1], s[k]) ELSE g[n]]
  <2>6. \A n \in 0 .. k : h[n] = IF n = 0 THEN b ELSE Scan(h[n - 1], s[n])
    BY <2>5, <2>2, <2>3
  <2>7. Def(h, k)
    BY <2>6
  <2>8. QED
    BY <2>7, <2>2
<1>2. PICK at : Def(at, Len(s))
  BY <1>1
<1>3. QED
  BY <1>2 DEF ScanFile

\* A file without lines changes nothing.
LEMMA ScanFileEmpty == ASSUME NEW b PROVE ScanFile(b, <<>>) = b
<1>1. <<>> \in Seq({}) /\ Len(<<>>) = 0
  OBVIOUS
<1>2. PICK at : /\ at = [n \in 0 .. Len(<<>>) |-> IF n = 0 THEN b ELSE Scan(at[n - 1], <<>>[n])]
                /\ ScanFile(b, <<>>) = at[Len(<<>>)]
  BY <1>1, ScanFileAt
<1>3. at[0] = b
  BY <1>1, <1>2
<1>4. QED
  BY <1>1, <1>2, <1>3

\* One more line of a file is one more Scan.
LEMMA ScanFileAppend ==
    ASSUME NEW b, NEW S, NEW s \in Seq(S), NEW e \in S
    PROVE  ScanFile(b, Append(s, e)) = Scan(ScanFile(b, s), e)
<1> DEFINE t == Append(s, e)
           L == Len(s)
<1>1. t \in Seq(S) /\ Len(t) = L + 1 /\ t[L + 1] = e /\ L \in Nat /\ \A n \in 1 .. L : t[n] = s[n]
  OBVIOUS
<1> HIDE DEF t
<1>2. PICK f : /\ f = [n \in 0 .. Len(s) |-> IF n = 0 THEN b ELSE Scan(f[n - 1], s[n])]
               /\ ScanFile(b, s) = f[Len(s)]
  BY ScanFileAt
<1>3. PICK g : /\ g = [n \in 0 .. Len(t) |-> IF n = 0 THEN b ELSE Scan(g[n - 1], t[n])]
               /\ ScanFile(b, t) = g[Len(t)]
  BY <1>1, ScanFileAt
<1> DEFINE Bad == {n \in 0 .. L : f[n] # g[n]}
<1>4. Bad = {}
  <2> SUFFICES ASSUME Bad # {} PROVE FALSE
    OBVIOUS
  <2>1. PICK k \in Bad : \A j \in Bad : k <= j
    <3>1. Bad \subseteq Nat
      BY <1>1
    <3> HIDE DEF Bad
    <3>2. QED
      BY <3>1, NatMin
  <2>2. k # 0
    BY <2>1, <1>1, <1>2, <1>3
  <2>3. f[k - 1] = g[k - 1]
    <3>1. k - 1 \in 0 .. L /\ ~(k <= k - 1)
      BY <2>1, <2>2, <1>1
    <3>2. QED
      BY <3>1, <2>1
  <2>4. f[k] = Scan(f[k - 1], s[k]) /\ g[k] = Scan(g[k - 1], t[k]) /\ s[k] = t[k]
    BY <2>1, <2>2, <1>1, <1>2, <1>3
  <2>5. QED
    BY <2>1, <2>3, <2>4
<1>5. f[L] = g[L]
  BY <1>1, <1>4
<1>6. g[L + 1] = Scan(g[L], e)
  BY <1>1, <1>3
<1>7. QED
  BY <1>1, <1>2, <1>3, <1>5, <1>6 DEF t

\* What stands after each file is defined.
LEMMA ScanFilesAt ==
    ASSUME NEW record
    PROVE  \E after :
              /\ after = [d \in 0 .. LastDay |->
                             IF d = 0 THEN [streak |-> NoStreak, lastRead |-> None]
                             ELSE ScanFile(after[d - 1], record[d])]
              /\ ScanFiles(record) = after[LastDay]
<1> DEFINE b == [streak |-> NoStreak, lastRead |-> None]
           Def(after, k) == after = [d \in 0 .. k |->
                               IF d = 0 THEN b ELSE ScanFile(after[d - 1], record[d])]
           Bad == {k \in Nat : ~ \E after : Def(after, k)}
<1>1. Bad = {}
  <2> SUFFICES ASSUME Bad # {} PROVE FALSE
    OBVIOUS
  <2>1. PICK k \in Bad : \A j \in Bad : k <= j
    BY NatMin
  <2>2. k \in Nat /\ ~ \E after : Def(after, k)
    BY <2>1
  <2>3. k # 0
    <3> SUFFICES ASSUME k = 0 PROVE FALSE
      OBVIOUS
    <3>1. Def([d \in 0 .. 0 |-> b], 0)
      OBVIOUS
    <3>2. QED
      BY <3>1, <2>2
  <2>4. k - 1 \in Nat /\ k - 1 \notin Bad
    <3>1. k - 1 \in Nat /\ k - 1 < k
      BY <2>2, <2>3
    <3>2. k - 1 \in Bad => k <= k - 1
      BY <2>1, Zenon
    <3>3. QED
      BY <3>1, <3>2
  <2>5. PICK g : Def(g, k - 1)
    BY <2>4
  <2> DEFINE h == [d \in 0 .. k |-> IF d = k THEN ScanFile(g[k - 1], record[k]) ELSE g[d]]
  <2>6. \A d \in 0 .. k : h[d] = IF d = 0 THEN b ELSE ScanFile(h[d - 1], record[d])
    BY <2>5, <2>2, <2>3
  <2>7. Def(h, k)
    BY <2>6
  <2>8. QED
    BY <2>7, <2>2
<1>2. LastDay \in Nat
  BY LastDayType
<1>3. PICK after : Def(after, LastDay)
  BY <1>1, <1>2
<1>4. QED
  BY <1>3 DEF ScanFiles

\* A line that is appended to the record is looked at last, whatever follows the
\* file it goes to: nothing, or the line is one the scan passes over.
LEMMA ScanAppend ==
    ASSUME NEW record \in [Days -> Seq(Lines)], NEW d \in Days, NEW e \in Lines,
           \/ \A k \in d + 1 .. LastDay : record[k] = <<>>
           \/ \A x : Scan(x, e) = x
    PROVE  ScanFiles([record EXCEPT ![d] = Append(@, e)]) = Scan(ScanFiles(record), e)
<1> DEFINE b == [streak |-> NoStreak, lastRead |-> None]
           longer == [record EXCEPT ![d] = Append(@, e)]
<1>1. LastDay \in Nat /\ d \in 1 .. LastDay
  BY LastDayType DEF Days
<1>2. longer \in [Days -> Seq(Lines)] /\ longer[d] = Append(record[d], e)
      /\ \A k \in Days \ {d} : longer[k] = record[k]
  OBVIOUS
<1> HIDE DEF longer
<1>3. PICK f : /\ f = [k \in 0 .. LastDay |->
                          IF k = 0 THEN b ELSE ScanFile(f[k - 1], record[k])]
               /\ ScanFiles(record) = f[LastDay]
  BY ScanFilesAt
<1>4. PICK g : /\ g = [k \in 0 .. LastDay |->
                          IF k = 0 THEN b ELSE ScanFile(g[k - 1], longer[k])]
               /\ ScanFiles(longer) = g[LastDay]
  BY ScanFilesAt
<1> DEFINE Bad == {k \in 0 .. LastDay : g[k] # IF k < d THEN f[k] ELSE Scan(f[k], e)}
<1>5. Bad = {}
  <2> SUFFICES ASSUME Bad # {} PROVE FALSE
    OBVIOUS
  <2>1. PICK k \in Bad : \A j \in Bad : k <= j
    <3>1. Bad \subseteq Nat
      BY <1>1
    <3> HIDE DEF Bad
    <3>2. QED
      BY <3>1, NatMin
  <2>2. k # 0
    BY <1>1, <1>3, <1>4
  <2>3. k \in 1 .. LastDay /\ k - 1 \in 0 .. LastDay /\ k \in Days
    BY <1>1, <2>2 DEF Days
  <2>4. g[k - 1] = IF k - 1 < d THEN f[k - 1] ELSE Scan(f[k - 1], e)
    <3>1. k - 1 \in Bad => k <= k - 1
      BY <2>1, Zenon
    <3>2. k - 1 \notin Bad
      BY <3>1, <2>3, <1>1
    <3>3. QED
      BY <3>2, <2>3
  <2>5. f[k] = ScanFile(f[k - 1], record[k]) /\ g[k] = ScanFile(g[k - 1], longer[k])
    BY <2>3, <1>1, <1>3, <1>4
  <2>6. CASE k < d
    <3>1. longer[k] = record[k] /\ k - 1 < d
      BY <2>6, <2>3, <1>1, <1>2
    <3>2. QED
      BY <3>1, <2>4, <2>5, <2>6
  <2>7. CASE k = d
    <3>1. longer[k] = Append(record[k], e) /\ k - 1 < d /\ ~(k < d) /\ record[k] \in Seq(Lines)
      BY <2>7, <2>3, <1>1, <1>2
    <3>2. ScanFile(f[k - 1], Append(record[k], e)) = Scan(ScanFile(f[k - 1], record[k]), e)
      BY <3>1, ScanFileAppend
    <3>3. QED
      BY <3>1, <3>2, <2>4, <2>5
  <2>8. CASE d < k
    <3>1. longer[k] = record[k] /\ ~(k - 1 < d) /\ ~(k < d) /\ k \in d + 1 .. LastDay
      BY <2>8, <2>3, <1>1, <1>2
    <3>2. g[k - 1] = Scan(f[k - 1], e) /\ g[k] = ScanFile(g[k - 1], record[k])
      BY <3>1, <2>4, <2>5
    <3>3. CASE \A x : Scan(x, e) = x
      BY <3>1, <3>2, <3>3, <2>5
    <3>4. CASE \A j \in d + 1 .. LastDay : record[j] = <<>>
      <4>1. record[k] = <<>>
        BY <3>1, <3>4
      <4>2. QED
        BY <4>1, <3>1, <3>2, <2>5, ScanFileEmpty
    <3>5. QED
      BY <3>3, <3>4
  <2>9. QED
    BY <2>3, <1>1, <2>6, <2>7, <2>8
<1>6. g[LastDay] = Scan(f[LastDay], e)
  BY <1>1, <1>5
<1>7. QED
  BY <1>3, <1>4, <1>6 DEF longer

-----------------------------------------------------------------------------
(* The parts of the invariant.                                             *)

\* A streak that is not ending has a try left.
Streaks(most) == [tries : 0 .. MaxTries, rangs : 0 .. most, ending : Results \cup {"no"}]
StreakTyped ==
    /\ streak \in [Seatings -> Streaks(trials)]
    /\ \A n \in Seatings : streak[n].ending = "no" => streak[n].tries < MaxTries

\* What became of a message, and what was written of it.
FactsInv ==
    /\ mail \cap taken = {}
    /\ \A m \in Msgs :
          /\ post[m] \in {"new", "stamped", "queued", "checked"} =>
                m \notin mail \cup taken /\ loss[m] = "no"
          /\ post[m] \in {"stored", "sent"} => m \in mail \cup taken \/ loss[m] # "no"

\* A line of a message tells of what its sender or its reader has done.
MessageLine(e) ==
    /\ e.seat = None /\ e.status \in {"sent", "failed", "read"}
    /\ e.status \in {"sent", "failed"} =>
          post[e.uid] = e.status /\ e.to = "seat" /\ e.ts = stamp[e.uid]
    /\ e.status = "read" => e.uid \in taken \ unrecorded /\ e.to = None

OtherLine(e) ==
    /\ e.seat = "seat" /\ e.status \in {"bell-try", "bell-gave-up", "queue-deleted"}
    /\ e.status \in {"bell-try", "bell-gave-up"} => e.result \in Results

\* A message has at most one line of its sender and one of a reader.
LinesInv ==
    /\ \A p \in Places : IF At(p).uid = None THEN OtherLine(At(p)) ELSE MessageLine(At(p))
    /\ \A p, q \in Places :
          At(p).uid # None /\ At(p).uid = At(q).uid
             /\ (At(p).status = "read" <=> At(q).status = "read") => p = q

\* What is done and told is on record, or its append failed.
Written(m, status) == \E p \in Places : At(p).uid = m /\ At(p).status = status
WrittenInv ==
    \A m \in Msgs :
       /\ post[m] = "sent" => Written(m, "sent") \/ Swallowed(m, "sent")
       /\ m \in taken \ unrecorded => Written(m, "read") \/ Swallowed(m, "read")
       /\ loss[m] = "later" =>
             \E p \in Places : At(p).status = "queue-deleted" /\ At(p).ts > stamp[m]

\* The scan stands where the bell wrote last, and its read is one of the lines.
ScanStates ==
    [streak : [try : Nat, result : Results \cup {None}, ts : Nat, stopped : BOOLEAN,
               rang : Nat, last : Results \cup {None}, heldSince : Nat \cup {None}],
     lastRead : Nat \cup {None}]
BellInv ==
    /\ Scanned \in ScanStates
    /\ lastBell = None \/ lastBell \in [n : 1 .. seatings, ts : Seconds, stopped : BOOLEAN]
    /\ lastBell # None =>
          /\ Scanned.streak.result # None \/ Scanned.streak.stopped
          /\ Scanned.streak.ts = lastBell.ts /\ Scanned.streak.stopped = lastBell.stopped
          /\ row # None /\ lastBell.n = row.n => lastBell.ts >= Second(row.at)
    /\ \/ Scanned.lastRead = None
       \/ \E p \in Places : At(p).status = "read" /\ At(p).ts = Scanned.lastRead

\* A run of held tries ends the record exactly when the scan stands in one, and its
\* stamp is the stamp of the first.
HeldInv ==
    /\ Run # {} <=> ~Scanned.streak.stopped /\ Scanned.streak.result = "held"
    /\ Run # {} => \E p \in Run : /\ \A q \in Run : p = q \/ Precedes(p, q)
                                  /\ Scanned.streak.heldSince = At(p).ts

-----------------------------------------------------------------------------
(* Places.                                                                 *)

\* A place is a file and a number of a line in it.
LEMMA PlacesOf ==
    ASSUME NEW record \in [Days -> Seq(Lines)]
    PROVE  LET P == UNION {{d} \X DOMAIN record[d] : d \in Days}
           IN  /\ \A p \in P : /\ p[1] \in Days /\ p[2] \in 1 .. Len(record[p[1]])
                               /\ p = <<p[1], p[2]>> /\ record[p[1]][p[2]] \in Lines
               /\ \A d \in Days : \A i \in 1 .. Len(record[d]) : <<d, i>> \in P
               /\ \A d \in Days : Len(record[d]) \in Nat
<1> DEFINE P == UNION {{d} \X DOMAIN record[d] : d \in Days}
<1>1. \A d \in Days : record[d] \in Seq(Lines) /\ DOMAIN record[d] = 1 .. Len(record[d])
  OBVIOUS
<1>2. \A d \in Days : Len(record[d]) \in Nat
  BY <1>1
<1>3. ASSUME NEW p \in P
      PROVE  /\ p[1] \in Days /\ p[2] \in 1 .. Len(record[p[1]])
             /\ p = <<p[1], p[2]>> /\ record[p[1]][p[2]] \in Lines
  <2>1. PICK d \in Days : p \in {d} \X DOMAIN record[d]
    OBVIOUS
  <2>2. p[1] = d /\ p[2] \in 1 .. Len(record[d]) /\ p = <<p[1], p[2]>>
    BY <2>1, <1>1
  <2>3. record[d][p[2]] \in Lines
    BY <2>2, <1>1
  <2>4. QED
    BY <2>2, <2>3
<1>4. ASSUME NEW d \in Days, NEW i \in 1 .. Len(record[d]) PROVE <<d, i>> \in P
  BY <1>1
<1>5. QED
  BY <1>2, <1>3, <1>4

LEMMA PlaceType ==
    ASSUME files \in [Days -> Seq(Lines)]
    PROVE  /\ \A p \in Places : /\ p[1] \in Days /\ p[2] \in 1 .. Len(files[p[1]])
                                /\ p = <<p[1], p[2]>> /\ At(p) \in Lines
           /\ \A d \in Days : \A i \in 1 .. Len(files[d]) : <<d, i>> \in Places
           /\ \A d \in Days : Len(files[d]) \in Nat
  BY PlacesOf, Zenon DEF Places, At

\* One line more, at place z; those that were there stay where they are.
Appended(z, e) ==
    /\ z \notin Places /\ Places' = Places \cup {z}
    /\ At(z)' = e /\ \A p \in Places : At(p)' = At(p)

\* An append adds one place, after all others of its file and of the files before it.
LEMMA AppendedAt ==
    ASSUME files \in [Days -> Seq(Lines)],
           NEW at \in Seconds, NEW e \in Lines, Appends(at, e)
    PROVE  /\ files' \in [Days -> Seq(Lines)]
           /\ \E z : /\ Appended(z, e) /\ z[1] = Day(at) + 1
                     /\ \A p \in Places : p[1] <= z[1] => Precedes(p, z)
<1> DEFINE d == Day(at) + 1
<1> PICK z : z = <<d, Len(files[d]) + 1>>
  OBVIOUS
<1>1. d \in Days /\ Days \subseteq Nat
  BY SecondsType, LastDayType DEF Days
<1>2. files' = [files EXCEPT ![d] = Append(@, e)]
  BY DEF Appends
<1> HIDE DEF d
<1>3. /\ files[d] \in Seq(Lines) /\ files'[d] = Append(files[d], e)
      /\ \A k \in Days \ {d} : files'[k] = files[k]
  BY <1>1, <1>2
<1>4. files' \in [Days -> Seq(Lines)]
  BY <1>1, <1>2
<1>5. /\ Len(files[d]) \in Nat /\ Len(files'[d]) = Len(files[d]) + 1
      /\ files'[d][Len(files[d]) + 1] = e
      /\ \A i \in 1 .. Len(files[d]) : files'[d][i] = files[d][i]
  BY <1>3
<1>6. z \notin Places
  BY <1>5, PlaceType
<1>7. /\ \A p \in Places' : /\ p[1] \in Days /\ p[2] \in 1 .. Len(files'[p[1]])
                            /\ p = <<p[1], p[2]>>
      /\ \A k \in Days : \A i \in 1 .. Len(files'[k]) : <<k, i>> \in Places'
  BY <1>4, PlacesOf, Zenon DEF Places
<1>8. Places' = Places \cup {z}
  <2>1. z \in Places'
    BY <1>1, <1>5, <1>7
  <2>2. ASSUME NEW p \in Places PROVE p \in Places'
    <3>1. p[1] \in Days /\ p[2] \in 1 .. Len(files[p[1]]) /\ p = <<p[1], p[2]>>
      BY PlaceType
    <3>2. p[2] \in 1 .. Len(files'[p[1]])
      <4>1. CASE p[1] = d
        BY <4>1, <3>1, <1>5
      <4>2. CASE p[1] # d
        BY <4>2, <3>1, <1>3
      <4>3. QED
        BY <4>1, <4>2
    <3>3. QED
      BY <3>1, <3>2, <1>7, Zenon
  <2>3. ASSUME NEW p \in Places', p # z PROVE p \in Places
    <3>1. p[1] \in Days /\ p[2] \in 1 .. Len(files'[p[1]]) /\ p = <<p[1], p[2]>>
      BY <1>7
    <3>2. p[2] \in 1 .. Len(files[p[1]])
      <4>1. CASE p[1] = d
        <5>1. p[2] # Len(files[d]) + 1
          BY <4>1, <3>1, <2>3
        <5>2. QED
          BY <4>1, <5>1, <3>1, <1>5
      <4>2. CASE p[1] # d
        BY <4>2, <3>1, <1>3
      <4>3. QED
        BY <4>1, <4>2
    <3>3. QED
      BY <3>1, <3>2, PlaceType, Zenon
  <2>4. QED
    BY <2>1, <2>2, <2>3
<1>9. At(z)' = e
  BY <1>5 DEF At
<1>10. ASSUME NEW p \in Places PROVE At(p)' = At(p)
  <2>1. p[1] \in Days /\ p[2] \in 1 .. Len(files[p[1]])
    BY PlaceType
  <2>2. files'[p[1]][p[2]] = files[p[1]][p[2]]
    <3>1. CASE p[1] = d
      BY <3>1, <2>1, <1>5
    <3>2. CASE p[1] # d
      BY <3>2, <2>1, <1>3
    <3>3. QED
      BY <3>1, <3>2
  <2>3. QED
    BY <2>2 DEF At
<1>11. ASSUME NEW p \in Places, p[1] <= z[1] PROVE Precedes(p, z)
  <2>1. p[1] \in Days /\ p[2] \in 1 .. Len(files[p[1]])
    BY PlaceType
  <2>2. p[1] \in Nat /\ d \in Nat /\ p[1] <= d
    BY <2>1, <1>1, <1>11, Zenon
  <2>3. CASE p[1] = d
    BY <2>1, <2>3, <1>5 DEF Precedes
  <2>4. CASE p[1] # d
    BY <2>2, <2>4 DEF Precedes
  <2>5. QED
    BY <2>3, <2>4
<1>12. Appended(z, e) /\ z[1] = Day(at) + 1
  BY <1>6, <1>8, <1>9, <1>10 DEF Appended, d
<1>13. QED
  BY <1>4, <1>11, <1>12


-----------------------------------------------------------------------------
(* Types.                                                                  *)

RecordType ==
    /\ now \in 0 .. MaxTime /\ files \in [Days -> Seq(Lines)]
    /\ \A p \in Places : At(p).ts <= Second(now) /\ p[1] = Day(At(p).ts) + 1
    /\ stamp \in [Msgs -> Seconds] /\ \A m \in Msgs : stamp[m] <= Second(now)
FactType ==
    /\ row = None \/ (row.n \in 1 .. seatings /\ row.at \in 0 .. now)
    /\ queue \in BOOLEAN /\ (mail # {} => queue) /\ leaver \in {"off", "row", "queue"}
    /\ mail \subseteq Msgs /\ unrecorded \subseteq taken /\ taken \subseteq Msgs
    /\ post \in [Msgs -> Posts] /\ loss \in [Msgs -> Losses]
    /\ seatings \in 0 .. MaxSeatings /\ faults \in 0 .. MaxFaults
    /\ unwritten \subseteq (Msgs \cup {None}) \X Statuses
BellType == StreakTyped /\ trials \in 0 .. MaxTrials
Types == RecordType /\ FactType /\ BellType

\* The types of the proof are those of the module, kept apart by what they speak of.
LEMMA TypesSuffice == Types => TypeOK
  BY DEF Types, RecordType, FactType, BellType, StreakTyped, Streaks, TypeOK

LEMMA Bounds ==
    /\ MaxTries \in Nat \ {0}
    /\ MaxTime \in Nat /\ MaxTrials \in Nat /\ MaxSeatings \in Nat /\ MaxFaults \in Nat
  BY RecordAssumption

\* What an append does to the record, to its types and to the scan.
LEMMA AppendStep ==
    ASSUME RecordType, NEW at \in Seconds, at <= Second(now),
           NEW e \in Lines, e.ts = at, Appends(at, e), UNCHANGED <<now, stamp>>
    PROVE  /\ RecordType'
           /\ \E z : /\ Appended(z, e)
                     /\ at = Second(now) => \A p \in Places : Precedes(p, z)
           /\ at = Second(now) \/ (\A x : Scan(x, e) = x) => Scanned' = Scan(Scanned, e)
<1> DEFINE d == Day(at) + 1
<1>1. now \in Nat /\ Second(now) \in Seconds /\ Seconds \subseteq Nat /\ d \in Days
      /\ Days \subseteq Nat
  BY SecondsType, Bounds DEF RecordType, Days
<1>2. PICK z : /\ Appended(z, e) /\ z[1] = d
               /\ \A p \in Places : p[1] <= z[1] => Precedes(p, z)
  BY AppendedAt DEF RecordType
<1>3. files' \in [Days -> Seq(Lines)]
  BY AppendedAt DEF RecordType
<1>4. \A p \in Places' : At(p)'.ts <= Second(now) /\ p[1] = Day(At(p)'.ts) + 1
  BY <1>2 DEF Appended, RecordType
<1>5. RecordType'
  BY <1>3, <1>4 DEF RecordType
<1>6. ASSUME at = Second(now), NEW p \in Places PROVE p[1] <= d
  <2>1. At(p) \in Lines /\ At(p).ts \in Nat /\ At(p).ts <= at /\ p[1] = Day(At(p).ts) + 1
    BY <1>1, <1>6, PlaceType DEF RecordType, Lines
  <2>2. Day(At(p).ts) <= Day(at) /\ Day(at) \in Nat /\ Day(At(p).ts) \in Nat
    BY <1>1, <2>1, DayType
  <2>3. QED
    BY <2>1, <2>2
<1>7. at = Second(now) => \A p \in Places : Precedes(p, z)
  BY <1>2, <1>6
<1>8. ASSUME at = Second(now), NEW k \in d + 1 .. LastDay PROVE files[k] = <<>>
  <2>1. k \in Days /\ ~(k <= d) /\ k \in Nat
    BY <1>1, LastDayType DEF Days
  <2>2. <<k, 1>> \notin Places
    BY <1>6, <1>8, <2>1
  <2>3. files[k] \in Seq(Lines) /\ ~(1 \in 1 .. Len(files[k]))
    BY <2>1, <2>2, PlaceType DEF RecordType
  <2>4. QED
    BY <2>3
<1>9. ASSUME at = Second(now) \/ (\A x : Scan(x, e) = x) PROVE Scanned' = Scan(Scanned, e)
  <2>1. files' = [files EXCEPT ![d] = Append(@, e)]
    BY DEF Appends
  <2>2. ScanFiles(files') = Scan(ScanFiles(files), e)
    BY <1>1, <1>8, <1>9, <2>1, ScanAppend DEF RecordType
  <2>3. QED
    BY <2>2 DEF Scanned
<1>10. QED
  BY <1>2, <1>5, <1>7, <1>9

\* The lines have their type.
LEMMA MessageLineType ==
    ASSUME NEW status \in {"sent", "failed", "read"}, NEW m \in Msgs, NEW to \in {"seat", None},
           NEW ts \in Seconds
    PROVE  Line(status, m, to, ts) \in Lines
  BY Bounds DEF Line, Lines, Statuses

LEMMA SeatLineType ==
    ASSUME NEW status \in {"bell-try", "bell-gave-up", "queue-deleted"}, NEW ts \in Seconds,
           NEW try \in 0 .. MaxTries, NEW result \in Results \cup {None},
           NEW rang \in 0 .. MaxTrials
    PROVE  SeatLine(status, ts, try, result, rang) \in Lines
  BY DEF SeatLine, Lines, Statuses

\* Nothing is written at first.
LEMMA TypesInit == Init => Types
<1> SUFFICES ASSUME Init PROVE Types
  OBVIOUS
<1> USE Bounds DEF Init
<1>1. RecordType
  <2>1. 0 \in Seconds /\ Second(now) \in Nat
    BY SecondsType, SecondType DEF Seconds
  <2>2. files \in [Days -> Seq(Lines)]
    OBVIOUS
  <2>3. Places = {}
    BY DEF Places
  <2>4. QED
    BY <2>1, <2>2, <2>3 DEF RecordType
<1>2. FactType
  <2>1. queue \in BOOLEAN
    BY Zenon
  <2>2. post \in [Msgs -> Posts] /\ loss \in [Msgs -> Losses]
    BY DEF Posts, Losses
  <2>3. seatings \in 0 .. MaxSeatings /\ faults \in 0 .. MaxFaults
    OBVIOUS
  <2>4. QED
    BY <2>1, <2>2, <2>3 DEF FactType
<1>3. BellType
  BY DEF BellType, StreakTyped, Streaks, Quiet
<1>4. QED
  BY <1>1, <1>2, <1>3 DEF Types

\* A streak that goes on stays within its own type.
LEMMA StreakStep ==
    ASSUME BellType, trials' \in Nat, trials <= trials', trials' <= MaxTrials,
           NEW n \in Seatings, NEW s \in Streaks(trials'), s.ending = "no" => s.tries < MaxTries,
           streak' = [streak EXCEPT ![n] = s]
    PROVE  BellType'
<1> USE Bounds
<1>1. streak \in [Seatings -> Streaks(trials)] /\ trials \in Nat
  BY DEF BellType, StreakTyped
<1>2. Streaks(trials) \subseteq Streaks(trials')
  BY <1>1 DEF Streaks
<1>3. streak \in [Seatings -> Streaks(trials')]
  BY <1>1, <1>2
<1>4. streak' \in [Seatings -> Streaks(trials')]
  BY <1>3
<1>5. \A k \in Seatings : streak'[k] = IF k = n THEN s ELSE streak[k]
  BY <1>1
<1>6. \A k \in Seatings : streak'[k].ending = "no" => streak'[k].tries < MaxTries
  BY <1>5 DEF BellType, StreakTyped
<1>7. QED
  BY <1>4, <1>6 DEF BellType, StreakTyped, Streaks

LEMMA QuietType ==
    ASSUME NEW most \in Nat
    PROVE  Quiet \in Streaks(most) /\ Quiet.ending = "no" /\ Quiet.tries < MaxTries
  BY Bounds DEF Quiet, Streaks

\* A try of the bell n, of a new streak or of the one that stands.
Try(n, result) == fire(n, result) \/ again(n, result)

LEMMA TryIs ==
    ASSUME Types, NEW n \in Seatings, NEW result \in Results, Try(n, result)
    PROVE  \E before \in Streaks(trials) :
              /\ before.ending = "no" /\ before.tries < MaxTries /\ counted(n, before, result)
              /\ n <= seatings
              /\ UNCHANGED <<now, seat, facts, sends, seatings, loss>>
<1>1. trials \in Nat /\ streak[n] \in Streaks(trials)
      /\ (streak[n].ending = "no" => streak[n].tries < MaxTries)
  BY Bounds DEF Types, BellType, StreakTyped
<1>2. CASE fire(n, result)
  <2>1. /\ counted(n, Quiet, result) /\ n <= seatings
        /\ UNCHANGED <<now, seat, facts, sends, seatings, loss>>
    BY <1>2 DEF fire
  <2>2. QED
    BY <1>1, <2>1, QuietType, Zenon
<1>3. CASE again(n, result)
  <2>1. /\ counted(n, streak[n], result) /\ n <= seatings /\ streak[n].ending = "no"
        /\ UNCHANGED <<now, seat, facts, sends, seatings, loss>>
    BY <1>3 DEF again
  <2>2. QED
    BY <1>1, <2>1, Zenon
<1>4. QED
  BY <1>2, <1>3 DEF Try

\* The lines of a bell have their type, and its streak goes on within its own.
LEMMA TryTypes ==
    ASSUME Types, NEW n \in Seatings, NEW result \in Results, Try(n, result)
    PROVE  /\ \E e \in Lines : /\ e.uid = None /\ e.seat = "seat" /\ e.status = "bell-try"
                               /\ e.result = result /\ e.ts = Second(now)
                               /\ LogEvent(Second(now), e)
           /\ BellType' /\ n <= seatings /\ Rings(n, FALSE)
           /\ UNCHANGED <<now, seat, facts, sends, seatings, loss>>
<1> USE Bounds
<1>1. PICK before \in Streaks(trials) :
              /\ before.ending = "no" /\ before.tries < MaxTries /\ counted(n, before, result)
              /\ n <= seatings
              /\ UNCHANGED <<now, seat, facts, sends, seatings, loss>>
  BY TryIs
<1>2. /\ before.tries \in 0 .. MaxTries /\ before.rangs \in 0 .. trials
      /\ trials < MaxTrials /\ trials \in Nat /\ trials' = trials + 1
      /\ Rings(n, FALSE)
  <2>1. trials \in 0 .. MaxTrials
    BY DEF Types, BellType
  <2>2. trials < MaxTrials /\ trials' = trials + 1 /\ Rings(n, FALSE)
    BY <1>1 DEF counted
  <2>3. before.tries \in 0 .. MaxTries /\ before.rangs \in 0 .. trials
    BY DEF Streaks
  <2>4. trials \in Nat
    BY <2>1
  <2>5. QED
    BY <2>2, <2>3, <2>4
<1>3. Second(now) \in Seconds /\ before.tries + 1 \in 0 .. MaxTries
  BY <1>1, <1>2, SecondsType DEF Types, RecordType
<1> DEFINE e == SeatLine("bell-try", Second(now), before.tries + 1, result, 0)
           ended == result # "held" /\ before.tries + 1 = MaxTries
           s == [tries |-> IF result = "held" THEN before.tries ELSE before.tries + 1,
                 rangs |-> before.rangs + (IF result = "rang" THEN 1 ELSE 0),
                 ending |-> IF ended THEN result ELSE "no"]
<1>4. e \in Lines
  BY <1>3, SeatLineType
<1>5. LogEvent(Second(now), e)
  BY <1>1 DEF counted, LogBellTry
<1>6. /\ e.uid = None /\ e.seat = "seat" /\ e.status = "bell-try" /\ e.result = result
      /\ e.ts = Second(now)
  BY DEF SeatLine
<1>7. streak' = [streak EXCEPT ![n] = s]
  BY <1>1 DEF counted
<1>8. s \in Streaks(trials') /\ (s.ending = "no" => s.tries < MaxTries)
  <2>1. /\ s.tries \in 0 .. MaxTries /\ s.rangs \in 0 .. trials'
        /\ s.ending = "no" => s.tries < MaxTries
    BY <1>1, <1>2, RecordAssumption
  <2>2. QED
    BY <2>1 DEF Streaks
<1> HIDE DEF e, s
<1>9. BellType'
  <2>1. BellType /\ trials' \in Nat /\ trials <= trials' /\ trials' <= MaxTrials
    BY <1>2 DEF Types
  <2>2. QED
    BY <1>7, <1>8, <2>1, StreakStep
<1>10. QED
  BY <1>1, <1>2, <1>4, <1>5, <1>6, <1>9

LEMMA GaveUpTypes ==
    ASSUME Types, NEW n \in Seatings, GaveUp(n)
    PROVE  /\ \E e \in Lines : /\ e.uid = None /\ e.seat = "seat" /\ e.status = "bell-gave-up"
                               /\ e.result \in Results /\ e.ts = Second(now)
                               /\ LogEvent(Second(now), e)
           /\ BellType' /\ n <= seatings /\ Rings(n, TRUE)
           /\ UNCHANGED <<now, seat, facts, sends, seatings, loss>>
<1> USE Bounds
<1>1. /\ streak[n] \in Streaks(trials) /\ streak[n].ending # "no"
      /\ trials \in 0 .. MaxTrials /\ trials' = trials
      /\ streak' = [streak EXCEPT ![n] = Quiet]
  BY DEF Types, BellType, StreakTyped, GaveUp
<1>2. /\ streak[n].ending \in Results /\ streak[n].rangs \in 0 .. MaxTrials
      /\ Second(now) \in Seconds /\ MaxTries \in 0 .. MaxTries
  BY <1>1, SecondsType DEF Types, RecordType, Streaks
<1> DEFINE e == SeatLine("bell-gave-up", Second(now), MaxTries, streak[n].ending, streak[n].rangs)
<1>3. e \in Lines
  BY <1>2, SeatLineType
<1>4. LogEvent(Second(now), e)
  BY DEF GaveUp, LogBellGaveUp
<1>5. /\ e.uid = None /\ e.seat = "seat" /\ e.status = "bell-gave-up"
      /\ e.result = streak[n].ending /\ e.ts = Second(now)
  BY DEF SeatLine
<1> HIDE DEF e
<1>6. BellType'
  <2>1. BellType /\ trials' \in Nat /\ trials <= trials' /\ trials' <= MaxTrials
    BY <1>1 DEF Types
  <2>2. Quiet \in Streaks(trials') /\ (Quiet.ending = "no" => Quiet.tries < MaxTries)
    BY <2>1, QuietType
  <2>3. QED
    BY <1>1, <2>1, <2>2, StreakStep
<1>7. QED
  BY <1>2, <1>3, <1>4, <1>5, <1>6 DEF GaveUp

\* A step that writes nothing leaves the record and what is read from it alone.
LEMMA Unwritten ==
    ASSUME UNCHANGED files
    PROVE  /\ Places' = Places /\ \A p \in Places : At(p)' = At(p)
           /\ Tries' = Tries /\ Run' = Run /\ Scanned' = Scanned
<1>1. Places' = Places
  BY DEF Places
<1>2. \A p : At(p)' = At(p)
  BY DEF At
<1>3. Tries' = Tries
  BY <1>1, <1>2 DEF Tries
<1>4. Run' = Run
  BY <1>2, <1>3 DEF Run
<1>5. Scanned' = Scanned
  BY DEF Scanned
<1>6. QED
  BY <1>1, <1>2, <1>3, <1>4, <1>5

LEMMA RecordTypeKept ==
    ASSUME RecordType, UNCHANGED <<now, files, stamp>>
    PROVE  RecordType'
  BY Unwritten DEF RecordType

\* The lines each writer appends: where they belong by the clock, and their type.
LEMMA SendEndsWrites ==
    ASSUME Types, NEW m \in Msgs, SendEnds(m)
    PROVE  /\ stamp[m] \in Seconds /\ stamp[m] <= Second(now) /\ UNCHANGED <<now, stamp>>
           /\ \E status \in {"sent", "failed"} :
                 LET e == Line(status, m, "seat", stamp[m])
                 IN  /\ e \in Lines /\ e.ts = stamp[m] /\ LogEvent(stamp[m], e)
                     /\ post[m] \in {"stored", "refused"}
                     /\ status = "sent" <=> post[m] = "stored"
                     /\ post' = [post EXCEPT ![m] = status]
<1>1. stamp[m] \in Seconds /\ stamp[m] <= Second(now) /\ UNCHANGED <<now, stamp>>
  BY DEF Types, RecordType, SendEnds
<1>2. ASSUME NEW status \in {"sent", "failed"}
      PROVE  LET e == Line(status, m, "seat", stamp[m]) IN e \in Lines /\ e.ts = stamp[m]
  BY <1>1, MessageLineType DEF Line
<1>3. CASE Goto(m, "stored", "sent") /\ LogSent(m)
  BY <1>1, <1>2, <1>3 DEF Goto, LogSent
<1>4. CASE Goto(m, "refused", "failed") /\ LogFailed(m)
  BY <1>1, <1>2, <1>4 DEF Goto, LogFailed
<1>5. QED
  BY <1>3, <1>4 DEF SendEnds

\* The lines a reader and a leaver append.
LEMMA NowWrites ==
    ASSUME Types
    PROVE  /\ Second(now) \in Seconds /\ Second(now) <= Second(now)
           /\ \A m \in Msgs : LET e == Line("read", m, None, Second(now))
                              IN  e \in Lines /\ e.ts = Second(now)
           /\ LET e == SeatLine("queue-deleted", Second(now), 0, None, 0)
              IN  e \in Lines /\ e.ts = Second(now)
<1>1. Second(now) \in Seconds /\ Second(now) <= Second(now)
  <2>1. Second(now) \in Seconds /\ Seconds \subseteq Nat
    BY SecondsType DEF Types, RecordType
  <2>2. \A n \in Nat : n <= n
    OBVIOUS
  <2>3. QED
    BY <2>1, <2>2, Zenon
<1>2. ASSUME NEW m \in Msgs
      PROVE  LET e == Line("read", m, None, Second(now)) IN e \in Lines /\ e.ts = Second(now)
  BY <1>1, MessageLineType DEF Line
<1>3. LET e == SeatLine("queue-deleted", Second(now), 0, None, 0)
      IN  e \in Lines /\ e.ts = Second(now)
  <2>1. 0 \in 0 .. MaxTries /\ 0 \in 0 .. MaxTrials
    BY Bounds
  <2>2. QED
    BY <1>1, <2>1, SeatLineType DEF SeatLine
<1>4. QED
  BY <1>1, <1>2, <1>3

\* An append that fails is noted, and is one of the faults.
LEMMA LogEventFacts ==
    ASSUME Types, NEW at, NEW e \in Lines, LogEvent(at, e)
    PROVE  /\ faults' \in 0 .. MaxFaults /\ unwritten' \subseteq (Msgs \cup {None}) \X Statuses
           /\ unwritten \subseteq unwritten'
           /\ \/ Appends(at, e) /\ OnRecord
              \/ UNCHANGED files /\ <<e.uid, e.status>> \in unwritten' /\ ~OnRecord
<1>1. /\ faults \in 0 .. MaxFaults /\ MaxFaults \in Nat
      /\ unwritten \subseteq (Msgs \cup {None}) \X Statuses
  BY Bounds DEF Types, FactType
<1>2. <<e.uid, e.status>> \in (Msgs \cup {None}) \X Statuses
  BY DEF Lines
<1>3. CASE Appends(at, e) /\ UNCHANGED failures
  BY <1>1, <1>3 DEF failures, OnRecord
<1>4. CASE Fault /\ unwritten' = unwritten \cup {<<e.uid, e.status>>} /\ UNCHANGED files
  BY <1>1, <1>2, <1>4 DEF Fault, OnRecord
<1>5. QED
  BY <1>3, <1>4 DEF LogEvent

\* What a leaver appends, and when.
LEMMA LeaverWrites ==
    ASSUME Types, unsubscribe
    PROVE  \/ leaver # "queue" /\ UNCHANGED <<files, failures>>
           \/ /\ leaver = "queue" /\ leaver' = "off" /\ UNCHANGED <<row, queue, mail>>
              /\ \E e \in Lines : /\ e.uid = None /\ e.seat = "seat"
                                  /\ e.status = "queue-deleted" /\ e.ts = Second(now)
                                  /\ LogEvent(Second(now), e)
<1>1. CASE leaver # "queue"
  BY <1>1 DEF unsubscribe
<1>2. CASE leaver = "queue"
  <2> DEFINE e == SeatLine("queue-deleted", Second(now), 0, None, 0)
  <2>1. LogEvent(Second(now), e) /\ leaver' = "off" /\ UNCHANGED <<row, queue, mail>>
    BY <1>2 DEF unsubscribe, LogQueueDeleted
  <2>2. e \in Lines /\ e.ts = Second(now)
    BY NowWrites
  <2>3. e.uid = None /\ e.seat = "seat" /\ e.status = "queue-deleted"
    BY DEF SeatLine
  <2>4. QED
    BY <1>2, <2>1, <2>2, <2>3
<1>3. QED
  BY <1>1, <1>2

\* Who does what keeps the facts in their types.
LEMMA FactTypeStep == Types /\ [Next]_vars => FactType'
<1> SUFFICES ASSUME Types, [Next]_vars PROVE FactType'
  OBVIOUS
<1> USE Bounds DEF facts, sends, seat, bell, failures
<1> DEFINE Rest == /\ row' = None \/ (row'.n \in 1 .. seatings' /\ row'.at \in 0 .. now')
                   /\ queue' \in BOOLEAN /\ (mail' # {} => queue')
                   /\ leaver' \in {"off", "row", "queue"}
                   /\ mail' \subseteq Msgs /\ unrecorded' \subseteq taken' /\ taken' \subseteq Msgs
                   /\ post' \in [Msgs -> Posts] /\ loss' \in [Msgs -> Losses]
                   /\ seatings' \in 0 .. MaxSeatings
\* The faults, and what failed to be written.
<1>1. ASSUME Rest, faults' \in 0 .. MaxFaults,
             unwritten' \subseteq (Msgs \cup {None}) \X Statuses
      PROVE  FactType'
  BY <1>1 DEF FactType
<1>2. /\ FactType /\ faults \in 0 .. MaxFaults /\ now \in 0 .. MaxTime
      /\ unwritten \subseteq (Msgs \cup {None}) \X Statuses
  BY DEF Types, FactType, RecordType
<1>3. ASSUME Tick PROVE FactType'
  BY <1>2, <1>3 DEF Tick, FactType
<1>4. ASSUME NEW m \in Msgs, SendBegins(m) \/ SendLooks(m) \/ SendQueue(m) \/ SendKilled(m)
      PROVE  FactType'
  <2>1. Rest /\ UNCHANGED unwritten
    BY <1>2, <1>4
       DEF SendBegins, SendLooks, SendQueue, SendKilled, Goto, FactType, Posts
  <2>2. faults' \in 0 .. MaxFaults
    BY <1>2, <1>4 DEF SendBegins, SendLooks, SendQueue, SendKilled, Fault
  <2>3. QED
    BY <1>1, <1>2, <2>1, <2>2
<1>5. ASSUME NEW m \in Msgs, SendEnds(m) PROVE FactType'
  <2>1. Rest
    BY <1>2, <1>5 DEF SendEnds, Goto, FactType, Posts
  <2>2. \E e \in Lines : LogEvent(stamp[m], e)
    BY <1>5, SendEndsWrites
  <2>3. QED
    BY <1>1, <2>1, <2>2, LogEventFacts
<1>6. ASSUME NEW m \in Msgs, Ack(m) PROVE FactType'
  BY <1>2, <1>6 DEF Ack, FactType
<1>7. ASSUME NEW m \in Msgs, ReadEnds(m) PROVE FactType'
  <2>1. Rest
    BY <1>2, <1>7 DEF ReadEnds, FactType
  <2>2. \E e \in Lines : LogEvent(Second(now), e)
    BY <1>7, NowWrites DEF ReadEnds, LogRead
  <2>3. QED
    BY <1>1, <2>1, <2>2, LogEventFacts
<1>8. ASSUME subscribe \/ CreateQueue \/ displaceOrRefuse PROVE FactType'
  <2>1. CASE subscribe
    BY <1>2, <2>1 DEF subscribe, FactType
  <2>2. CASE CreateQueue
    BY <1>2, <2>2, Zenon DEF CreateQueue, FactType
  <2>3. CASE displaceOrRefuse
    BY <1>2, <2>3 DEF displaceOrRefuse, FactType
  <2>4. QED
    BY <1>8, <2>1, <2>2, <2>3
<1>9. ASSUME unsubscribe PROVE FactType'
  <2>1. loss' \in [Msgs -> Losses]
    BY <1>2, <1>9 DEF unsubscribe, FactType, Losses
  <2>2. Rest
    BY <1>2, <1>9, <2>1 DEF unsubscribe, FactType
  <2>3. QED
    BY <1>1, <1>2, <1>9, <2>2, LeaverWrites, LogEventFacts
<1>10. ASSUME LeaverKilled PROVE FactType'
  BY <1>2, <1>10 DEF LeaverKilled, Fault, FactType, Losses
<1>11. ASSUME NEW n \in Seatings, GaveUp(n) \/ \E result \in Results : Try(n, result)
       PROVE  FactType'
  <2>1. UNCHANGED <<now, seat, facts, sends, seatings, loss>>
    BY <1>11, GaveUpTypes, TryTypes
  <2>2. Rest
    BY <1>2, <2>1 DEF FactType
  <2>3. \E e \in Lines : LogEvent(Second(now), e)
    BY <1>11, GaveUpTypes, TryTypes
  <2>4. QED
    BY <1>1, <2>2, <2>3, LogEventFacts
<1>12. CASE UNCHANGED vars
  BY <1>2, <1>12 DEF vars, FactType
<1>13. QED
  BY <1>3, <1>4, <1>5, <1>6, <1>7, <1>8, <1>9, <1>10, <1>11, <1>12 DEF Next, Try

\* Every append goes to the file of its stamp, and the clock only moves on.
LEMMA LogEventRecord ==
    ASSUME Types, NEW at \in Seconds, at <= Second(now), NEW e \in Lines, e.ts = at,
           LogEvent(at, e), UNCHANGED <<now, stamp>>
    PROVE  RecordType'
<1>1. RecordType
  BY DEF Types
<1>2. CASE Appends(at, e)
  BY <1>1, <1>2, AppendStep
<1>3. CASE UNCHANGED files
  BY <1>1, <1>3, RecordTypeKept
<1>4. QED
  BY <1>2, <1>3, LogEventFacts

LEMMA RecordTypeStep == Types /\ [Next]_vars => RecordType'
<1> SUFFICES ASSUME Types, [Next]_vars PROVE RecordType'
  OBVIOUS
<1> USE DEF facts, sends, seat, bell
<1>0. RecordType
  BY DEF Types
<1>1. ASSUME Tick PROVE RecordType'
  <2>1. /\ now' \in 0 .. MaxTime /\ now \in Nat /\ now' \in Nat /\ now <= now'
        /\ UNCHANGED <<files, stamp>>
    BY <1>1, <1>0, Bounds DEF Tick, RecordType
  <2>2. Second(now) <= Second(now') /\ Second(now) \in Nat /\ Second(now') \in Nat
    BY <2>1, SecondType
  <2>3. ASSUME NEW s \in Seconds, s <= Second(now) PROVE s <= Second(now')
    BY <2>2, <2>3, SecondsType
  <2>4. \A p \in Places : At(p).ts \in Seconds
    BY <1>0, PlaceType DEF RecordType, Lines
  <2>5. Places' = Places /\ \A p \in Places : At(p)' = At(p)
    BY <2>1, Unwritten
  <2>6. \A p \in Places : At(p).ts <= Second(now')
    BY <1>0, <2>3, <2>4 DEF RecordType
  <2>7. \A m \in Msgs : stamp[m] <= Second(now')
    BY <1>0, <2>3 DEF RecordType
  <2>8. QED
    BY <1>0, <2>1, <2>5, <2>6, <2>7 DEF RecordType, Second
<1>2. ASSUME NEW m \in Msgs, SendBegins(m) PROVE RecordType'
  <2>1. UNCHANGED <<now, files>> /\ stamp' = [stamp EXCEPT ![m] = Second(now)]
    BY <1>2 DEF SendBegins
  <2>2. Second(now) \in Seconds /\ Second(now) <= Second(now)
    BY NowWrites
  <2>3. Places' = Places /\ \A p \in Places : At(p)' = At(p)
    BY <2>1, Unwritten
  <2>4. stamp' \in [Msgs -> Seconds] /\ \A k \in Msgs : stamp'[k] <= Second(now)
    BY <1>0, <2>1, <2>2 DEF RecordType
  <2>5. QED
    BY <1>0, <2>1, <2>3, <2>4 DEF RecordType
<1>3. ASSUME NEW m \in Msgs, SendLooks(m) \/ SendQueue(m) \/ SendKilled(m) \/ Ack(m)
      PROVE  RecordType'
  BY <1>0, <1>3, RecordTypeKept DEF SendLooks, SendQueue, SendKilled, Ack
<1>4. ASSUME NEW m \in Msgs, SendEnds(m) PROVE RecordType'
  BY <1>4, SendEndsWrites, LogEventRecord
<1>5. ASSUME NEW m \in Msgs, ReadEnds(m) PROVE RecordType'
  <2>1. LogEvent(Second(now), Line("read", m, None, Second(now))) /\ UNCHANGED <<now, stamp>>
    BY <1>5 DEF ReadEnds, LogRead
  <2>2. QED
    BY <2>1, NowWrites, LogEventRecord
<1>6. ASSUME subscribe \/ CreateQueue \/ displaceOrRefuse \/ LeaverKilled PROVE RecordType'
  BY <1>0, <1>6, RecordTypeKept DEF subscribe, CreateQueue, displaceOrRefuse, LeaverKilled
<1>7. ASSUME unsubscribe PROVE RecordType'
  <2>1. UNCHANGED <<now, stamp>>
    BY <1>7 DEF unsubscribe
  <2>2. CASE UNCHANGED files
    BY <1>0, <2>1, <2>2, RecordTypeKept
  <2>3. ASSUME NEW e \in Lines, e.ts = Second(now), LogEvent(Second(now), e) PROVE RecordType'
    BY <2>1, <2>3, NowWrites, LogEventRecord
  <2>4. QED
    BY <1>7, <2>2, <2>3, LeaverWrites
<1>8. ASSUME NEW n \in Seatings, GaveUp(n) \/ \E result \in Results : Try(n, result)
      PROVE  RecordType'
  <2>1. /\ \E e \in Lines : e.ts = Second(now) /\ LogEvent(Second(now), e)
        /\ UNCHANGED <<now, stamp>>
    BY <1>8, GaveUpTypes, TryTypes
  <2>2. QED
    BY <2>1, NowWrites, LogEventRecord
<1>9. CASE UNCHANGED vars
  BY <1>0, <1>9, RecordTypeKept DEF vars
<1>10. QED
  BY <1>1, <1>2, <1>3, <1>4, <1>5, <1>6, <1>7, <1>8, <1>9 DEF Next, Try

\* A bell's streak stays within its tries and rangs.
LEMMA BellTypeStep == Types /\ [Next]_vars => BellType'
<1> SUFFICES ASSUME Types, [Next]_vars PROVE BellType'
  OBVIOUS
<1> USE DEF facts, sends, seat, bell
<1>1. ASSUME UNCHANGED <<streak, trials>> PROVE BellType'
  BY <1>1 DEF Types, BellType, StreakTyped, Streaks
<1>2. ASSUME \/ Tick \/ subscribe \/ CreateQueue \/ displaceOrRefuse \/ unsubscribe \/ LeaverKilled
             \/ \E m \in Msgs : \/ SendBegins(m) \/ SendLooks(m) \/ SendQueue(m) \/ SendEnds(m)
                                \/ SendKilled(m) \/ Ack(m) \/ ReadEnds(m)
      PROVE  UNCHANGED <<streak, trials>>
  BY <1>2 DEF Tick, subscribe, CreateQueue, displaceOrRefuse, unsubscribe, LeaverKilled,
              SendBegins, SendLooks, SendQueue, SendEnds, SendKilled, Ack, ReadEnds
<1>3. ASSUME NEW n \in Seatings, GaveUp(n) \/ \E result \in Results : Try(n, result)
      PROVE  BellType'
  BY <1>3, GaveUpTypes, TryTypes
<1>4. CASE UNCHANGED vars
  BY <1>1, <1>4 DEF vars
<1>5. QED
  BY <1>1, <1>2, <1>3, <1>4 DEF Next, Try

LEMMA TypesStep == Types /\ [Next]_vars => Types'
  BY FactTypeStep, RecordTypeStep, BellTypeStep DEF Types

-----------------------------------------------------------------------------
(* What becomes of a message, and the lines that tell of it.               *)

\* A message is waiting, taken or lost once its send was stored, and nowhere before.
LEMMA FactsStep == Types /\ FactsInv /\ [Next]_vars => FactsInv'
<1> SUFFICES ASSUME Types, FactsInv, [Next]_vars PROVE FactsInv'
  OBVIOUS
<1> USE DEF Types, FactType, RecordType, FactsInv, facts, sends, seat, bell
<1>1. ASSUME UNCHANGED <<facts, sends, loss>> PROVE FactsInv'
  BY <1>1
<1>2. ASSUME NEW m \in Msgs, SendBegins(m) PROVE FactsInv'
  BY <1>2 DEF SendBegins, Goto
<1>3. ASSUME NEW m \in Msgs, SendLooks(m) PROVE FactsInv'
  BY <1>3 DEF SendLooks, Goto
<1>4. ASSUME NEW m \in Msgs, SendQueue(m) PROVE FactsInv'
  BY <1>4 DEF SendQueue, Goto
<1>5. ASSUME NEW m \in Msgs, SendEnds(m) PROVE FactsInv'
  BY <1>5 DEF SendEnds, Goto
<1>6. ASSUME NEW m \in Msgs, SendKilled(m) PROVE FactsInv'
  BY <1>6 DEF SendKilled
<1>7. ASSUME NEW m \in Msgs, Ack(m) PROVE FactsInv'
  BY <1>7 DEF Ack
<1>8. ASSUME NEW m \in Msgs, ReadEnds(m) PROVE FactsInv'
  BY <1>8 DEF ReadEnds
<1>9. ASSUME unsubscribe PROVE FactsInv'
  <2>1. UNCHANGED <<taken, post>> /\ mail' \subseteq mail
    BY <1>9 DEF unsubscribe
  <2>2. CASE UNCHANGED <<mail, loss>>
    BY <2>1, <2>2
  <2>3. CASE mail' = {} /\ loss' = [m \in Msgs |-> IF m \in mail THEN "unrecorded" ELSE loss[m]]
    BY <2>1, <2>3
  <2>4. ASSUME UNCHANGED mail, \A m \in Msgs : loss'[m] = "no" <=> loss[m] = "no"
        PROVE  FactsInv'
    BY <2>1, <2>4
  <2>5. CASE leaver = "queue"
    <3>1. /\ UNCHANGED mail
          /\ loss' = [m \in Msgs |-> CASE loss[m] # "unrecorded" -> loss[m]
                                      [] loss[m] = "unrecorded" /\ ~OnRecord -> "never"
                                      [] OTHER -> IF Second(now) > stamp[m] THEN "later" ELSE "same"]
      BY <1>9, <2>5 DEF unsubscribe
    <3>2. \A m \in Msgs : loss'[m] = "no" <=> loss[m] = "no"
      BY <3>1
    <3>3. QED
      BY <2>4, <3>1, <3>2
  <2>6. QED
    BY <1>9, <2>2, <2>3, <2>5 DEF unsubscribe
<1>10. ASSUME LeaverKilled PROVE FactsInv'
  BY <1>10 DEF LeaverKilled
<1>11. ASSUME NEW n \in Seatings, GaveUp(n) \/ \E result \in Results : Try(n, result)
       PROVE  UNCHANGED <<facts, sends, loss>>
  BY <1>11, GaveUpTypes, TryTypes
<1>12. ASSUME Tick \/ subscribe \/ CreateQueue \/ displaceOrRefuse \/ UNCHANGED vars
       PROVE  UNCHANGED <<facts, sends, loss>>
  BY <1>12 DEF Tick, subscribe, CreateQueue, displaceOrRefuse, vars
<1>13. QED
  BY <1>1, <1>2, <1>3, <1>4, <1>5, <1>6, <1>7, <1>8, <1>9, <1>10, <1>11, <1>12 DEF Next, Try

\* What a line says of a message stays so.
Persist ==
    /\ \A k \in Msgs : post[k] \in {"sent", "failed"} => post'[k] = post[k] /\ stamp'[k] = stamp[k]
    /\ taken \ unrecorded \subseteq taken' \ unrecorded'
    /\ \A k \in Msgs : loss[k] # "no" => stamp'[k] = stamp[k]
    /\ unwritten \subseteq unwritten'

LEMMA PersistStep == Types /\ FactsInv /\ [Next]_vars => Persist
<1> SUFFICES ASSUME Types, FactsInv, [Next]_vars PROVE Persist
  OBVIOUS
<1> USE DEF facts, sends, seat, bell, failures
<1> DEFINE Rest ==
      /\ \A k \in Msgs : post[k] \in {"sent", "failed"} => post'[k] = post[k] /\ stamp'[k] = stamp[k]
      /\ taken \ unrecorded \subseteq taken' \ unrecorded'
      /\ \A k \in Msgs : loss[k] # "no" => stamp'[k] = stamp[k]
<1>1. /\ post \in [Msgs -> Posts] /\ stamp \in [Msgs -> Seconds] /\ mail \cap taken = {}
      /\ unrecorded \subseteq taken
      /\ \A m \in Msgs : post[m] = "new" => loss[m] = "no"
  BY DEF Types, FactType, RecordType, FactsInv
<1>2. ASSUME UNCHANGED <<taken, unrecorded, post, stamp>> PROVE Rest
  BY <1>2
<1>3. ASSUME UNCHANGED unwritten \/ \E at : \E e \in Lines : LogEvent(at, e)
      PROVE  unwritten \subseteq unwritten'
  BY <1>3, LogEventFacts
<1>4. ASSUME NEW m \in Msgs, SendBegins(m) \/ SendLooks(m) \/ SendQueue(m) \/ SendKilled(m) \/ Ack(m)
      PROVE  Rest /\ UNCHANGED unwritten
  <2>1. CASE SendBegins(m)
    BY <1>1, <2>1 DEF SendBegins, Goto
  <2>2. CASE SendLooks(m) \/ SendQueue(m) \/ SendKilled(m)
    BY <1>1, <2>2 DEF SendLooks, SendQueue, SendKilled, Goto
  <2>3. CASE Ack(m)
    BY <1>1, <2>3 DEF Ack
  <2>4. QED
    BY <1>4, <2>1, <2>2, <2>3
<1>5. ASSUME NEW m \in Msgs, SendEnds(m) PROVE Rest /\ \E at : \E e \in Lines : LogEvent(at, e)
  <2>1. Rest
    BY <1>1, <1>5 DEF SendEnds, Goto
  <2>2. QED
    BY <1>5, <2>1, SendEndsWrites
<1>6. ASSUME NEW m \in Msgs, ReadEnds(m) PROVE Rest /\ \E at : \E e \in Lines : LogEvent(at, e)
  <2>1. Rest
    BY <1>1, <1>6 DEF ReadEnds
  <2>2. QED
    BY <1>6, <2>1, NowWrites DEF ReadEnds, LogRead
<1>7. ASSUME unsubscribe
      PROVE  Rest /\ (UNCHANGED unwritten \/ \E at : \E e \in Lines : LogEvent(at, e))
  <2>1. UNCHANGED <<taken, unrecorded, post, stamp>>
    BY <1>7 DEF unsubscribe
  <2>2. QED
    BY <1>2, <1>7, <2>1, LeaverWrites
<1>8. ASSUME NEW n \in Seatings, GaveUp(n) \/ \E result \in Results : Try(n, result)
      PROVE  Rest /\ \E at : \E e \in Lines : LogEvent(at, e)
  <2>1. UNCHANGED <<taken, unrecorded, post, stamp>> /\ \E at : \E e \in Lines : LogEvent(at, e)
    BY <1>8, GaveUpTypes, TryTypes
  <2>2. QED
    BY <1>2, <2>1
<1>9. ASSUME Tick \/ subscribe \/ CreateQueue \/ displaceOrRefuse \/ LeaverKilled \/ UNCHANGED vars
      PROVE  UNCHANGED <<taken, unrecorded, post, stamp, unwritten>>
  BY <1>9 DEF Tick, subscribe, CreateQueue, displaceOrRefuse, LeaverKilled, vars
<1> HIDE DEF Rest
<1>10. Rest /\ unwritten \subseteq unwritten'
  BY <1>2, <1>3, <1>4, <1>5, <1>6, <1>7, <1>8, <1>9 DEF Next, Try
<1>11. QED
  BY <1>10 DEF Rest, Persist

\* A line appended is a message's first of its kind, or a seat's.
LEMMA LinesAppend ==
    ASSUME Types, LinesInv, Persist, NEW z, NEW e \in Lines, Appended(z, e),
           IF e.uid = None THEN OtherLine(e) ELSE MessageLine(e)',
           \A p \in Places : e.uid # None /\ At(p).uid = e.uid
                                => ~(At(p).status = "read" <=> e.status = "read")
    PROVE  LinesInv'
<1>1. \A p \in Places : At(p) \in Lines
  BY PlaceType DEF Types, RecordType
<1>2. ASSUME NEW p \in Places', At(p)'.uid = None PROVE OtherLine(At(p)')
  BY <1>2 DEF Appended, LinesInv
<1>3. ASSUME NEW p \in Places', At(p)'.uid # None PROVE MessageLine(At(p))'
  <2>1. CASE p = z
    BY <1>3, <2>1 DEF Appended, MessageLine
  <2>2. CASE p # z
    <3>1. p \in Places /\ At(p)' = At(p) /\ At(p) \in Lines /\ At(p).uid \in Msgs
      BY <1>1, <1>3, <2>2 DEF Appended, Lines
    <3>2. MessageLine(At(p))
      BY <1>3, <3>1 DEF LinesInv
    <3>3. QED
      BY <3>1, <3>2 DEF MessageLine, Persist
  <2>3. QED
    BY <2>1, <2>2
<1>4. ASSUME NEW p \in Places', NEW q \in Places',
             At(p)'.uid # None, At(p)'.uid = At(q)'.uid,
             At(p)'.status = "read" <=> At(q)'.status = "read"
      PROVE  p = q
  BY <1>4 DEF Appended, LinesInv
<1>5. QED
  BY <1>2, <1>3, <1>4 DEF LinesInv, OtherLine

LEMMA LinesKept ==
    ASSUME Types, LinesInv, Persist, UNCHANGED files
    PROVE  LinesInv'
<1>1. Places' = Places /\ \A p \in Places : At(p)' = At(p) /\ At(p) \in Lines
  BY Unwritten, PlaceType DEF Types, RecordType
<1>2. ASSUME NEW p \in Places', At(p)'.uid = None PROVE OtherLine(At(p)')
  BY <1>1, <1>2 DEF LinesInv
<1>3. ASSUME NEW p \in Places', At(p)'.uid # None PROVE MessageLine(At(p))'
  <2>1. p \in Places /\ At(p)' = At(p) /\ At(p).uid \in Msgs
    BY <1>1, <1>3 DEF Lines
  <2>2. MessageLine(At(p))
    BY <1>3, <2>1 DEF LinesInv
  <2>3. QED
    BY <2>1, <2>2 DEF MessageLine, Persist
<1>4. QED
  BY <1>1, <1>2, <1>3 DEF LinesInv, OtherLine

\* What is on record stays there.
LEMMA WrittenAppend ==
    ASSUME NEW m, NEW z, NEW e, Appended(z, e)
    PROVE  /\ Written(m, "sent") => Written(m, "sent")'
           /\ Written(m, "read") => Written(m, "read")'
           /\ e.uid = m => Written(m, e.status)'
  BY DEF Appended, Written

\* A deletion of the seat's queue that is later than the send of m is on record.
DeletedAfter(m) == \E p \in Places : At(p).status = "queue-deleted" /\ At(p).ts > stamp[m]

LEMMA WrittenByAppend ==
    ASSUME WrittenInv, Persist, NEW z, NEW e, Appended(z, e),
           \A k \in Msgs :
              /\ post'[k] = "sent" => post[k] = "sent" \/ (e.uid = k /\ e.status = "sent")
              /\ k \in taken' \ unrecorded' =>
                    k \in taken \ unrecorded \/ (e.uid = k /\ e.status = "read")
              /\ loss'[k] = "later" =>
                    loss[k] = "later" \/ (e.status = "queue-deleted" /\ e.ts > stamp'[k])
    PROVE  WrittenInv'
<1>0. \A k \in Msgs : \A status : Swallowed(k, status) => Swallowed(k, status)'
  BY DEF Persist, Swallowed
<1>1. ASSUME NEW k \in Msgs, post'[k] = "sent" PROVE Written(k, "sent")' \/ Swallowed(k, "sent")'
  BY <1>0, <1>1, WrittenAppend DEF WrittenInv
<1>2. ASSUME NEW k \in Msgs, k \in taken' \ unrecorded'
      PROVE  Written(k, "read")' \/ Swallowed(k, "read")'
  <2>1. CASE k \in taken \ unrecorded
    BY <1>0, <2>1, WrittenAppend DEF WrittenInv
  <2>2. CASE e.uid = k /\ e.status = "read"
    BY <2>2 DEF Appended, Written
  <2>3. QED
    BY <1>2, <2>1, <2>2
<1>3. ASSUME NEW k \in Msgs, loss'[k] = "later" PROVE DeletedAfter(k)'
  <2>1. CASE loss[k] = "later"
    <3>1. PICK p \in Places : At(p).status = "queue-deleted" /\ At(p).ts > stamp[k]
      BY <2>1 DEF WrittenInv
    <3>2. stamp'[k] = stamp[k]
      BY <2>1 DEF Persist
    <3>3. QED
      BY <3>1, <3>2 DEF Appended, DeletedAfter
  <2>2. CASE e.status = "queue-deleted" /\ e.ts > stamp'[k]
    BY <2>2 DEF Appended, DeletedAfter
  <2>3. QED
    BY <1>3, <2>1, <2>2
<1>4. QED
  BY <1>1, <1>2, <1>3 DEF WrittenInv, DeletedAfter

LEMMA WrittenKept ==
    ASSUME WrittenInv, Persist, UNCHANGED files,
           \A k \in Msgs :
              /\ post'[k] = "sent" => post[k] = "sent" \/ Swallowed(k, "sent")'
              /\ k \in taken' \ unrecorded' => k \in taken \ unrecorded \/ Swallowed(k, "read")'
              /\ loss'[k] = "later" => loss[k] = "later"
    PROVE  WrittenInv'
<1>1. Places' = Places /\ \A p \in Places : At(p)' = At(p)
  BY Unwritten
<1>2. \A k \in Msgs : loss[k] = "later" => stamp'[k] = stamp[k]
  BY DEF Persist
<1>3. \A k \in Msgs : /\ Written(k, "sent") => Written(k, "sent")'
                      /\ Written(k, "read") => Written(k, "read")'
                      /\ \A status : Swallowed(k, status) => Swallowed(k, status)'
  BY <1>1 DEF Written, Persist, Swallowed
<1>4. ASSUME NEW k \in Msgs, loss'[k] = "later" PROVE DeletedAfter(k)'
  <2>1. PICK p \in Places : At(p).status = "queue-deleted" /\ At(p).ts > stamp[k]
    BY <1>4 DEF WrittenInv
  <2>2. QED
    BY <1>1, <1>2, <1>4, <2>1 DEF DeletedAfter
<1>5. QED
  BY <1>3, <1>4 DEF WrittenInv, DeletedAfter

\* What the lines say of the messages is so, and what must be written is, or failed.
LEMMA MessagesStep ==
    Types /\ FactsInv /\ LinesInv /\ WrittenInv /\ [Next]_vars => LinesInv' /\ WrittenInv'
<1> SUFFICES ASSUME Types, FactsInv, LinesInv, WrittenInv, [Next]_vars
             PROVE  LinesInv' /\ WrittenInv'
  OBVIOUS
<1> USE DEF facts, sends, seat, bell
<1>1. Persist /\ RecordType
  BY PersistStep DEF Types
<1>2. /\ post \in [Msgs -> Posts] /\ taken \subseteq Msgs /\ loss \in [Msgs -> Losses]
      /\ \A k \in Msgs : k \in mail => k \notin taken
  BY DEF Types, FactType, FactsInv
<1>3. None \notin Msgs
  BY RecordAssumption
\* What a step that writes nothing does to a message no line tells yet.
<1> DEFINE Untold == \A k \in Msgs :
              /\ post'[k] = "sent" => post[k] = "sent" \/ Swallowed(k, "sent")'
              /\ k \in taken' \ unrecorded' => k \in taken \ unrecorded \/ Swallowed(k, "read")'
              /\ loss'[k] = "later" => loss[k] = "later"
<1>4. ASSUME UNCHANGED files, Untold PROVE LinesInv' /\ WrittenInv'
  BY <1>1, <1>4, LinesKept, WrittenKept
<1>5. ASSUME UNCHANGED <<taken, unrecorded, loss>>,
             \A k \in Msgs : post'[k] = "sent" => post[k] = "sent"
      PROVE  Untold
  BY <1>5
<1>6. ASSUME NEW m \in Msgs, SendEnds(m) PROVE LinesInv' /\ WrittenInv'
  <2>1. PICK status \in {"sent", "failed"} :
                 LET e == Line(status, m, "seat", stamp[m])
                 IN  /\ e \in Lines /\ e.ts = stamp[m] /\ LogEvent(stamp[m], e)
                     /\ post[m] \in {"stored", "refused"}
                     /\ status = "sent" <=> post[m] = "stored"
                     /\ post' = [post EXCEPT ![m] = status]
    BY <1>6, SendEndsWrites
  <2>2. PICK e : e = Line(status, m, "seat", stamp[m])
    OBVIOUS
  <2>3. /\ e \in Lines /\ e.ts = stamp[m] /\ LogEvent(stamp[m], e)
        /\ post[m] \in {"stored", "refused"} /\ post' = [post EXCEPT ![m] = status]
        /\ stamp[m] \in Seconds /\ stamp[m] <= Second(now) /\ UNCHANGED <<now, stamp>>
    BY <1>6, <2>1, <2>2, SendEndsWrites
  <2>4. e.uid = m /\ e.status = status /\ e.seat = None /\ e.to = "seat"
    BY <2>2 DEF Line
  <2>5. UNCHANGED <<taken, unrecorded, loss>>
    BY <1>6 DEF SendEnds
  <2>6. CASE Appends(stamp[m], e)
    <3>1. PICK z : Appended(z, e)
      BY <1>1, <2>3, <2>6, AppendStep
    <3>2. MessageLine(e)'
      BY <1>2, <2>3, <2>4 DEF MessageLine
    <3>3. ASSUME NEW p \in Places, At(p).uid = m PROVE At(p).status = "read"
      <4>1. MessageLine(At(p))
        BY <1>3, <3>3 DEF LinesInv
      <4>2. QED
        BY <2>3, <3>3, <4>1 DEF MessageLine
    <3>4. LinesInv'
      BY <1>1, <1>3, <2>3, <2>4, <3>1, <3>2, <3>3, LinesAppend
    <3>5. WrittenInv'
      BY <1>1, <1>2, <2>3, <2>4, <2>5, <3>1, WrittenByAppend
    <3>6. QED
      BY <3>4, <3>5
  <2>7. CASE UNCHANGED files /\ <<e.uid, e.status>> \in unwritten'
    <3>1. Swallowed(m, status)'
      BY <2>4, <2>7 DEF Swallowed
    <3>2. Untold
      BY <1>2, <2>3, <2>5, <3>1
    <3>3. QED
      BY <1>4, <2>7, <3>2
  <2>8. QED
    BY <2>3, <2>6, <2>7, LogEventFacts
<1>7. ASSUME NEW m \in Msgs, ReadEnds(m) PROVE LinesInv' /\ WrittenInv'
  <2>1. PICK e : e = Line("read", m, None, Second(now))
    OBVIOUS
  <2>2. /\ m \in unrecorded /\ unrecorded' = unrecorded \ {m} /\ LogEvent(Second(now), e)
        /\ UNCHANGED <<now, stamp, taken, post, loss>> /\ m \in taken
    BY <1>7, <2>1 DEF ReadEnds, LogRead, Types, FactType
  <2>3. e \in Lines /\ e.ts = Second(now) /\ Second(now) \in Seconds /\ Second(now) <= Second(now)
    BY <2>1, NowWrites
  <2>4. e.uid = m /\ e.status = "read" /\ e.seat = None /\ e.to = None
    BY <2>1 DEF Line
  <2>5. CASE Appends(Second(now), e)
    <3>1. PICK z : Appended(z, e)
      BY <1>1, <2>2, <2>3, <2>5, AppendStep
    <3>2. MessageLine(e)'
      BY <2>2, <2>4 DEF MessageLine
    <3>3. ASSUME NEW p \in Places, At(p).uid = m PROVE At(p).status # "read"
      <4>1. MessageLine(At(p))
        BY <1>3, <3>3 DEF LinesInv
      <4>2. QED
        BY <2>2, <3>3, <4>1 DEF MessageLine
    <3>4. LinesInv'
      BY <1>1, <1>3, <2>3, <2>4, <3>1, <3>2, <3>3, LinesAppend
    <3>5. WrittenInv'
      BY <1>1, <2>2, <2>4, <3>1, WrittenByAppend
    <3>6. QED
      BY <3>4, <3>5
  <2>6. CASE UNCHANGED files /\ <<e.uid, e.status>> \in unwritten'
    <3>1. Swallowed(m, "read")'
      BY <2>4, <2>6 DEF Swallowed
    <3>2. Untold
      BY <2>2, <3>1
    <3>3. QED
      BY <1>4, <2>6, <3>2
  <2>7. QED
    BY <2>2, <2>3, <2>5, <2>6, LogEventFacts
\* The lines of the seat are about no message.
<1>8. ASSUME NEW e \in Lines, e.uid = None, OtherLine(e), e.ts = Second(now),
             LogEvent(Second(now), e), UNCHANGED <<now, stamp, taken, unrecorded, post>>,
             \A k \in Msgs : loss'[k] = "later" =>
                    \/ loss[k] = "later"
                    \/ OnRecord /\ e.status = "queue-deleted" /\ e.ts > stamp'[k]
      PROVE  LinesInv' /\ WrittenInv'
  <2>1. CASE Appends(Second(now), e)
    <3>1. PICK z : Appended(z, e)
      BY <1>1, <1>8, <2>1, NowWrites, AppendStep
    <3>2. LinesInv'
      BY <1>1, <1>8, <3>1, LinesAppend
    <3>3. WrittenInv'
      BY <1>1, <1>8, <3>1, WrittenByAppend
    <3>4. QED
      BY <3>2, <3>3
  <2>2. CASE UNCHANGED files /\ ~OnRecord
    BY <1>4, <1>8, <2>2
  <2>3. QED
    BY <1>8, <2>1, <2>2, LogEventFacts
<1>9. ASSUME unsubscribe PROVE LinesInv' /\ WrittenInv'
  <2>1. UNCHANGED <<now, stamp, taken, unrecorded, post>>
    BY <1>9 DEF unsubscribe
  <2>2. CASE leaver # "queue" /\ UNCHANGED files
    <3>1. \A k \in Msgs : loss'[k] = "later" => loss[k] = "later"
      BY <1>2, <1>9, <2>2 DEF unsubscribe
    <3>2. Untold
      BY <2>1, <3>1
    <3>3. QED
      BY <1>4, <2>2, <3>2
  <2>3. ASSUME leaver = "queue",
               NEW e \in Lines, e.uid = None, e.seat = "seat", e.status = "queue-deleted",
               e.ts = Second(now), LogEvent(Second(now), e)
        PROVE  LinesInv' /\ WrittenInv'
    <3>1. OtherLine(e)
      BY <2>3 DEF OtherLine
    <3>2. loss' = [m \in Msgs |-> CASE loss[m] # "unrecorded" -> loss[m]
                                    [] loss[m] = "unrecorded" /\ ~OnRecord -> "never"
                                    [] OTHER -> IF Second(now) > stamp[m] THEN "later" ELSE "same"]
      BY <1>9, <2>3 DEF unsubscribe
    <3>3. ASSUME NEW k \in Msgs, loss'[k] = "later"
          PROVE  loss[k] = "later" \/ (OnRecord /\ e.status = "queue-deleted" /\ e.ts > stamp'[k])
      BY <2>1, <2>3, <3>2, <3>3
    <3>4. QED
      BY <1>8, <2>1, <2>3, <3>1, <3>3
  <2>4. QED
    BY <1>9, <2>2, <2>3, LeaverWrites
<1>10. ASSUME NEW n \in Seatings, GaveUp(n) \/ \E result \in Results : Try(n, result)
       PROVE  LinesInv' /\ WrittenInv'
  <2>1. UNCHANGED <<now, stamp, taken, unrecorded, post, loss>>
    BY <1>10, GaveUpTypes, TryTypes
  <2>2. PICK e \in Lines : /\ e.uid = None /\ e.seat = "seat" /\ e.ts = Second(now)
                           /\ e.status \in {"bell-try", "bell-gave-up"} /\ e.result \in Results
                           /\ LogEvent(Second(now), e)
    <3>1. CASE GaveUp(n)
      BY <3>1, GaveUpTypes
    <3>2. CASE \E result \in Results : Try(n, result)
      BY <3>2, TryTypes
    <3>3. QED
      BY <1>10, <3>1, <3>2
  <2>3. OtherLine(e)
    BY <2>2 DEF OtherLine
  <2>4. QED
    BY <1>8, <2>1, <2>2, <2>3
\* The rest write nothing.
<1>11. ASSUME NEW m \in Msgs, SendBegins(m) \/ SendLooks(m) \/ SendQueue(m) \/ SendKilled(m)
       PROVE  /\ UNCHANGED <<files, taken, unrecorded, loss>>
              /\ \A k \in Msgs : post'[k] = "sent" => post[k] = "sent"
  BY <1>2, <1>11 DEF SendBegins, SendLooks, SendQueue, SendKilled, Goto
<1>12. ASSUME NEW m \in Msgs, Ack(m) PROVE UNCHANGED files /\ Untold
  BY <1>2, <1>12 DEF Ack
<1>13. ASSUME LeaverKilled PROVE UNCHANGED files /\ Untold
  BY <1>2, <1>13 DEF LeaverKilled
<1>14. ASSUME Tick \/ subscribe \/ CreateQueue \/ displaceOrRefuse \/ UNCHANGED vars
       PROVE  UNCHANGED <<files, taken, unrecorded, loss, post>>
  BY <1>14 DEF Tick, subscribe, CreateQueue, displaceOrRefuse, vars
<1> HIDE DEF Untold
<1>15. QED
  BY <1>4, <1>5, <1>6, <1>7, <1>9, <1>10, <1>11, <1>12, <1>13, <1>14 DEF Next, Try

-----------------------------------------------------------------------------
(* What the scan makes of each line.                                       *)

\* What the scan does with each kind of line.
LEMMA LineNumbers == \A e \in Lines : e.ts \in Nat /\ e.try \in Nat /\ e.rang \in Nat
<1> SUFFICES ASSUME NEW e \in Lines PROVE e.ts \in Nat /\ e.try \in Nat /\ e.rang \in Nat
  OBVIOUS
<1>1. e.ts \in Seconds /\ e.try \in 0 .. MaxTries /\ e.rang \in 0 .. MaxTrials
  BY DEF Lines
<1>2. e.ts \in Nat
  BY <1>1, SecondsType, Zenon
<1>3. e.try \in Nat /\ e.rang \in Nat
  BY <1>1, Bounds
<1>4. QED
  BY <1>2, <1>3

LEMMA ScanTry ==
    ASSUME NEW x \in ScanStates, NEW e \in Lines, e.status = "bell-try", e.result \in Results
    PROVE  /\ Scan(x, e) \in ScanStates
           /\ Scan(x, e).streak.result = e.result /\ Scan(x, e).streak.ts = e.ts
           /\ Scan(x, e).streak.stopped = FALSE
           /\ Scan(x, e).streak.heldSince = heldSince(x.streak, e)
           /\ Scan(x, e).lastRead = x.lastRead
<1>1. /\ e.ts \in Nat /\ e.try \in Nat
      /\ x.streak.heldSince \in Nat \cup {None} /\ x.lastRead \in Nat \cup {None}
  BY LineNumbers DEF ScanStates
<1>2. heldSince(x.streak, e) \in Nat \cup {None}
  BY <1>1 DEF heldSince
<1> DEFINE s == [try |-> e.try, result |-> e.result, ts |-> e.ts, stopped |-> FALSE, rang |-> 0,
                 last |-> None, heldSince |-> heldSince(x.streak, e)]
<1>3. Scan(x, e) = [x EXCEPT !.streak = s]
  BY DEF Scan
<1>4. s \in [try : Nat, result : Results \cup {None}, ts : Nat, stopped : BOOLEAN,
             rang : Nat, last : Results \cup {None}, heldSince : Nat \cup {None}]
  BY <1>1, <1>2
<1> HIDE DEF s
<1>5. Scan(x, e) \in ScanStates /\ Scan(x, e).streak = s /\ Scan(x, e).lastRead = x.lastRead
  BY <1>3, <1>4 DEF ScanStates
<1>6. QED
  BY <1>5 DEF s

LEMMA ScanGaveUp ==
    ASSUME NEW x \in ScanStates, NEW e \in Lines, e.status = "bell-gave-up", e.result \in Results
    PROVE  /\ Scan(x, e) \in ScanStates
           /\ Scan(x, e).streak.ts = e.ts
           /\ Scan(x, e).streak.stopped = TRUE
           /\ Scan(x, e).lastRead = x.lastRead
<1>1. e.ts \in Nat /\ e.rang \in Nat
  BY LineNumbers
<1> DEFINE s == [x.streak EXCEPT !.stopped = TRUE, !.ts = e.ts, !.rang = e.rang,
                                 !.last = e.result]
<1>2. Scan(x, e) = [x EXCEPT !.streak = s]
  BY DEF Scan
<1>3. /\ s \in [try : Nat, result : Results \cup {None}, ts : Nat, stopped : BOOLEAN,
                rang : Nat, last : Results \cup {None}, heldSince : Nat \cup {None}]
      /\ s.ts = e.ts /\ s.stopped = TRUE
  BY <1>1 DEF ScanStates
<1> HIDE DEF s
<1>4. Scan(x, e) \in ScanStates /\ Scan(x, e).streak = s /\ Scan(x, e).lastRead = x.lastRead
  BY <1>2, <1>3 DEF ScanStates
<1>5. QED
  BY <1>3, <1>4

LEMMA ScanRead ==
    ASSUME NEW x \in ScanStates, NEW e \in Lines, e.status = "read"
    PROVE  /\ Scan(x, e) \in ScanStates /\ Scan(x, e).streak = x.streak
           /\ Scan(x, e).lastRead \in {x.lastRead, e.ts}
<1>1. e.ts \in Nat
  BY SecondsType DEF Lines
<1> DEFINE l == IF x.lastRead = None THEN e.ts ELSE IF e.ts > x.lastRead THEN e.ts ELSE x.lastRead
<1>2. Scan(x, e) = [x EXCEPT !.lastRead = l]
  BY DEF Scan
<1>3. l \in Nat \cup {None} /\ l \in {x.lastRead, e.ts}
  BY <1>1 DEF ScanStates
<1> HIDE DEF l
<1>4. QED
  BY <1>2, <1>3 DEF ScanStates

LEMMA ScanPassesOver ==
    ASSUME NEW e, e.status \in {"sent", "failed", "queue-deleted"}
    PROVE  \A x : Scan(x, e) = x
  BY DEF Scan

\* Nothing is read from a record with no line.
LEMMA ScanNothing ==
    ASSUME NEW record, \A d \in Days : record[d] = <<>>
    PROVE  ScanFiles(record) = [streak |-> NoStreak, lastRead |-> None]
<1> DEFINE b == [streak |-> NoStreak, lastRead |-> None]
<1>1. LastDay \in Nat \ {0}
  BY LastDayType
<1>2. PICK f : /\ f = [d \in 0 .. LastDay |->
                          IF d = 0 THEN b ELSE ScanFile(f[d - 1], record[d])]
               /\ ScanFiles(record) = f[LastDay]
  BY ScanFilesAt
<1> DEFINE Bad == {d \in 0 .. LastDay : f[d] # b}
<1>3. Bad = {}
  <2> SUFFICES ASSUME Bad # {} PROVE FALSE
    OBVIOUS
  <2>1. PICK k \in Bad : \A j \in Bad : k <= j
    <3>1. Bad \subseteq Nat
      BY <1>1
    <3> HIDE DEF Bad
    <3>2. QED
      BY <3>1, NatMin
  <2>2. k # 0
    BY <1>1, <1>2
  <2>3. k \in 1 .. LastDay /\ k - 1 \in 0 .. LastDay /\ k \in Days
    BY <1>1, <2>2 DEF Days
  <2>4. f[k - 1] = b
    <3>1. k - 1 \in Bad => k <= k - 1
      BY <2>1, Zenon
    <3>2. k - 1 \notin Bad
      BY <3>1, <2>3, <1>1
    <3>3. QED
      BY <3>2, <2>3
  <2>5. f[k] = ScanFile(f[k - 1], record[k]) /\ record[k] = <<>>
    BY <2>3, <1>1, <1>2
  <2>6. f[k] = b
    BY <2>4, <2>5, ScanFileEmpty
  <2>7. QED
    BY <2>6
<1>4. LastDay \in 0 .. LastDay /\ LastDay \notin Bad
  BY <1>1, <1>3
<1>5. QED
  BY <1>2, <1>4

-----------------------------------------------------------------------------
(* The order of the record, and the run of held tries that ends it.        *)

\* Places are in a line: by file, then by number.
LEMMA Ordered ==
    ASSUME NEW p, NEW q, p[1] \in Nat, p[2] \in Nat, q[1] \in Nat, q[2] \in Nat
    PROVE  /\ ~ (Precedes(p, q) /\ Precedes(q, p)) /\ ~ Precedes(p, p)
           /\ p = <<p[1], p[2]>> /\ q = <<q[1], q[2]>> =>
                 p = q \/ Precedes(p, q) \/ Precedes(q, p)
  BY DEF Precedes

LEMMA PlaceNumbers ==
    /\ files \in [Days -> Seq(Lines)] =>
          \A p \in Places : p[1] \in Nat /\ p[2] \in Nat /\ p = <<p[1], p[2]>>
    /\ files' \in [Days -> Seq(Lines)] =>
          \A p \in Places' : p[1] \in Nat /\ p[2] \in Nat /\ p = <<p[1], p[2]>>
<1>1. ASSUME NEW record \in [Days -> Seq(Lines)]
      PROVE  LET P == UNION {{d} \X DOMAIN record[d] : d \in Days}
             IN  \A p \in P : p[1] \in Nat /\ p[2] \in Nat /\ p = <<p[1], p[2]>>
  <2> DEFINE P == UNION {{d} \X DOMAIN record[d] : d \in Days}
  <2>1. /\ \A p \in P : /\ p[1] \in Days /\ p[2] \in 1 .. Len(record[p[1]])
                        /\ p = <<p[1], p[2]>>
        /\ \A d \in Days : Len(record[d]) \in Nat
    BY PlacesOf, Zenon
  <2>2. Days \subseteq Nat
    BY LastDayType DEF Days
  <2> HIDE DEF P
  <2>3. \A p \in P : p[1] \in Nat /\ p[2] \in Nat /\ p = <<p[1], p[2]>>
    BY <2>1, <2>2
  <2>4. QED
    BY <2>3 DEF P
<1>2. QED
  BY <1>1, Zenon DEF Places

BellStatus == {"bell-try", "bell-gave-up"}

\* A held try goes on with the run that ends the record, another line of the bell
\* ends it, and any other line leaves it.
LEMMA RunAppend ==
    ASSUME NEW z, NEW e, Appended(z, e),
           e.status \in BellStatus => \A p \in Places : Precedes(p, z) /\ ~ Precedes(z, p)
    PROVE  /\ e.status \notin BellStatus => Run' = Run
           /\ e.status = "bell-try" /\ e.result = "held" => Run' = Run \cup {z}
           /\ e.status \in BellStatus /\ ~(e.status = "bell-try" /\ e.result = "held") => Run' = {}
<1> DEFINE Held(x) == x.status = "bell-try" /\ x.result = "held"
<1>1. Tries' = IF e.status \in BellStatus THEN Tries \cup {z} ELSE Tries
  BY DEF Tries, Appended, BellStatus
<1>2. /\ z \notin Places /\ Tries \subseteq Places /\ At(z)' = e
      /\ \A p \in Places : At(p)' = At(p)
  BY DEF Tries, Appended
<1>3. Run = {p \in Tries : \A q \in Tries : p = q \/ Precedes(p, q) => Held(At(q))}
  BY DEF Run
<1>4. Run' = {p \in Tries' : \A q \in Tries' : p = q \/ Precedes(p, q) => Held(At(q)')}
  BY DEF Run, Precedes
<1> HIDE DEF Held
<1>5. CASE e.status \notin BellStatus
  BY <1>1, <1>2, <1>3, <1>4, <1>5 DEF BellStatus
<1>6. CASE e.status \in BellStatus /\ Held(e)
  <2>1. z \in Run'
    BY <1>1, <1>2, <1>4, <1>6
  <2>2. ASSUME NEW p \in Tries PROVE p \in Run' <=> p \in Run
    BY <1>1, <1>2, <1>3, <1>4, <1>6
  <2>3. Run' \subseteq Tries \cup {z} /\ Run \subseteq Tries
    BY <1>1, <1>3, <1>4, <1>6
  <2>4. Run' = Run \cup {z}
    BY <2>1, <2>2, <2>3
  <2>5. QED
    BY <1>6, <2>4 DEF Held
<1>7. CASE e.status \in BellStatus /\ ~Held(e)
  <2>1. ASSUME NEW p \in Tries' PROVE p = z \/ Precedes(p, z)
    BY <1>1, <1>2, <1>7
  <2>2. Run' = {}
    BY <1>1, <1>2, <1>4, <1>7, <2>1
  <2>3. QED
    BY <1>7, <2>2 DEF Held
<1>8. QED
  BY <1>5, <1>6, <1>7 DEF Held

-----------------------------------------------------------------------------
(* The bell's report.                                                      *)

\* A run that stays as it was keeps its stamp.
LEMMA HeldKept ==
    ASSUME HeldInv, Run' = Run, Scanned'.streak = Scanned.streak, \A p \in Places : At(p)' = At(p)
    PROVE  HeldInv'
<1>1. Run \subseteq Places
  BY DEF Run, Tries
<1>2. ASSUME Run # {}
      PROVE  \E p \in Run' : /\ \A q \in Run' : p = q \/ Precedes(p, q)
                             /\ Scanned'.streak.heldSince = At(p)'.ts
  BY <1>1, <1>2 DEF HeldInv
<1>3. QED
  BY <1>2 DEF HeldInv, Precedes

\* A bell line is written by the bell of the registered seat, now, and is the last.
LEMMA HeldAppend ==
    ASSUME Types, Scanned \in ScanStates, HeldInv, NEW e \in Lines,
           e.status \in BellStatus, e.result \in Results, NEW z, Appended(z, e),
           \A p \in Places : Precedes(p, z), files' \in [Days -> Seq(Lines)],
           Scanned' = Scan(Scanned, e)
    PROVE  HeldInv'
<1>1. /\ z \in Places' /\ Places \subseteq Places' /\ At(z)' = e
      /\ \A p \in Places : At(p)' = At(p)
  BY DEF Appended
<1>2. \A p \in Places : ~ Precedes(z, p)
  <2>1. ASSUME NEW p \in Places PROVE ~ Precedes(z, p)
    <3>1. p[1] \in Nat /\ p[2] \in Nat /\ z[1] \in Nat /\ z[2] \in Nat
      BY <1>1, PlaceNumbers
    <3>2. QED
      BY <3>1, Ordered
  <2>2. QED
    BY <2>1
<1>3. Run \subseteq Places /\ e.ts \in Nat /\ \A p \in Places : At(p).ts \in Nat
  BY LineNumbers, PlaceType DEF Run, Tries, Types, RecordType
<1> DEFINE s == Scanned.streak
<1>4. CASE e.status = "bell-try" /\ e.result = "held"
  <2>1. Run' = Run \cup {z}
    BY <1>2, <1>4, RunAppend
  <2>2. /\ Scanned'.streak.stopped = FALSE /\ Scanned'.streak.result = "held"
        /\ Scanned'.streak.heldSince = heldSince(s, e)
    BY <1>4, ScanTry
  <2>3. CASE Run = {}
    <3>1. ~ (~s.stopped /\ s.result = "held")
      BY <2>3 DEF HeldInv
    <3>2. heldSince(s, e) = e.ts
      BY <1>4, <3>1 DEF heldSince
    <3>3. QED
      BY <1>1, <2>1, <2>2, <2>3, <3>2 DEF HeldInv
  <2>4. CASE Run # {}
    <3>1. ~s.stopped /\ s.result = "held"
      BY <2>4 DEF HeldInv
    <3>2. PICK p \in Run : /\ \A q \in Run : p = q \/ Precedes(p, q)
                           /\ s.heldSince = At(p).ts
      BY <2>4 DEF HeldInv
    <3>3. s.heldSince \in Nat
      BY <1>3, <3>2
    <3>4. s.heldSince # None
      BY <3>3, RecordAssumption
    <3>5. heldSince(s, e) = s.heldSince
      BY <1>4, <3>1, <3>4 DEF heldSince
    <3>6. Scanned'.streak.heldSince = At(p)'.ts
      BY <1>1, <1>3, <2>2, <3>2, <3>5
    <3>7. \A q \in Run' : p = q \/ Precedes(p, q)
      BY <1>3, <2>1, <3>2
    <3>8. \E k \in Run' : /\ \A q \in Run' : k = q \/ Precedes(k, q)
                          /\ Scanned'.streak.heldSince = At(k)'.ts
      BY <2>1, <3>6, <3>7
    <3>9. QED
      BY <2>1, <2>2, <3>8 DEF HeldInv, Precedes
  <2>5. QED
    BY <2>3, <2>4
<1>5. CASE ~ (e.status = "bell-try" /\ e.result = "held")
  <2>1. Run' = {}
    BY <1>2, <1>5, RunAppend
  <2>2. Scanned'.streak.stopped \/ Scanned'.streak.result # "held"
    BY <1>5, ScanTry, ScanGaveUp DEF BellStatus
  <2>3. QED
    BY <2>1, <2>2 DEF HeldInv
<1>6. QED
  BY <1>4, <1>5

\* The scan of a record that ends with a line of a bell stands at that line.
LEMMA BellAppend ==
    ASSUME Types, BellInv, HeldInv, NEW e \in Lines, e.ts = Second(now), Appends(Second(now), e),
           e.status \in BellStatus, e.result \in Results, NEW n \in Seatings, n <= seatings,
           UNCHANGED <<now, stamp, row, seatings>>,
           lastBell' = [n |-> n, ts |-> e.ts, stopped |-> e.status = "bell-gave-up"]
    PROVE  BellInv' /\ HeldInv'
<1>1. RecordType /\ Second(now) \in Seconds /\ Second(now) <= Second(now)
  BY NowWrites DEF Types
<1>2. RecordType' /\ Scanned' = Scan(Scanned, e)
  BY <1>1, AppendStep
<1>3. PICK z : Appended(z, e) /\ \A p \in Places : Precedes(p, z)
  BY <1>1, AppendStep
<1>4. Scanned \in ScanStates
  BY DEF BellInv
<1>5. HeldInv'
  BY <1>2, <1>3, <1>4, HeldAppend DEF RecordType
<1>6. /\ Scanned' \in ScanStates
      /\ Scanned'.streak.ts = e.ts /\ Scanned'.streak.stopped = (e.status = "bell-gave-up")
      /\ Scanned'.streak.result # None \/ Scanned'.streak.stopped
      /\ Scanned'.lastRead = Scanned.lastRead
  <2>1. CASE e.status = "bell-try"
    BY <1>2, <1>4, <2>1, ScanTry, RecordAssumption
  <2>2. CASE e.status = "bell-gave-up"
    BY <1>2, <1>4, <2>2, ScanGaveUp
  <2>3. QED
    BY <2>1, <2>2 DEF BellStatus
<1>7. n \in 1 .. seatings /\ now \in Nat /\ e.ts \in Seconds
  BY Bounds DEF Types, FactType, RecordType, Lines, Seatings
<1>8. lastBell' \in [n : 1 .. seatings', ts : Seconds, stopped : BOOLEAN]
  BY <1>7
<1>9. ASSUME row # None PROVE lastBell'.ts >= Second(row.at)
  <2>1. row.at \in Nat /\ row.at <= now
    BY <1>7, <1>9 DEF Types, FactType
  <2>2. Second(row.at) <= Second(now) /\ Second(now) \in Nat /\ Second(row.at) \in Nat
    BY <1>7, <2>1, SecondType
  <2>3. QED
    BY <2>2
<1>10. Scanned'.lastRead = None
          \/ \E p \in Places' : At(p)'.status = "read" /\ At(p)'.ts = Scanned'.lastRead
  BY <1>3, <1>6 DEF BellInv, Appended
<1>11. lastBell' # None =>
          /\ Scanned'.streak.result # None \/ Scanned'.streak.stopped
          /\ Scanned'.streak.ts = lastBell'.ts /\ Scanned'.streak.stopped = lastBell'.stopped
          /\ row' # None /\ lastBell'.n = row'.n => lastBell'.ts >= Second(row'.at)
  BY <1>6, <1>9
<1>12. BellInv'
  BY <1>6, <1>8, <1>10, <1>11 DEF BellInv, Second
<1>13. QED
  BY <1>5, <1>12

RowMoves ==
    \/ UNCHANGED <<row, seatings>>
    \/ row' = None /\ UNCHANGED seatings
    \/ row' = [n |-> seatings + 1, at |-> now] /\ seatings' = seatings + 1

\* Any other step leaves the last line of a bell where it was.
LEMMA BellKept ==
    ASSUME Types, BellInv, UNCHANGED lastBell, RowMoves,
           Scanned' \in ScanStates, Scanned'.streak = Scanned.streak,
           \A p \in Places : p \in Places' /\ At(p)' = At(p),
           \/ Scanned'.lastRead = Scanned.lastRead
           \/ \E p \in Places' : At(p)'.status = "read" /\ At(p)'.ts = Scanned'.lastRead
    PROVE  BellInv'
<1>1. seatings \in Nat
  BY Bounds DEF Types, FactType
<1>2. lastBell' = None \/ lastBell' \in [n : 1 .. seatings', ts : Seconds, stopped : BOOLEAN]
  <2>1. CASE lastBell = None
    BY <2>1
  <2>2. CASE lastBell \in [n : 1 .. seatings, ts : Seconds, stopped : BOOLEAN]
    <3>1. 1 .. seatings \subseteq 1 .. seatings'
      BY <1>1 DEF RowMoves
    <3>2. QED
      BY <2>2, <3>1
  <2>3. QED
    BY <2>1, <2>2 DEF BellInv
<1>3. ASSUME lastBell' # None, row' # None, lastBell'.n = row'.n
      PROVE  lastBell'.ts >= Second(row'.at)
  <2>1. lastBell \in [n : 1 .. seatings, ts : Seconds, stopped : BOOLEAN]
    BY <1>3 DEF BellInv
  <2>2. row' # [n |-> seatings + 1, at |-> now]
    <3>1. ASSUME row' = [n |-> seatings + 1, at |-> now] PROVE FALSE
      <4>1. lastBell.n = seatings + 1 /\ lastBell.n \in 1 .. seatings
        BY <1>3, <2>1, <3>1
      <4>2. QED
        BY <1>1, <4>1
    <3>2. QED
      BY <3>1
  <2>3. row' = row
    BY <1>3, <2>2 DEF RowMoves
  <2>4. QED
    BY <1>3, <2>3 DEF BellInv
<1>4. Scanned'.lastRead = None
          \/ \E p \in Places' : At(p)'.status = "read" /\ At(p)'.ts = Scanned'.lastRead
  BY DEF BellInv
<1>5. lastBell' # None =>
          /\ Scanned'.streak.result # None \/ Scanned'.streak.stopped
          /\ Scanned'.streak.ts = lastBell'.ts /\ Scanned'.streak.stopped = lastBell'.stopped
  BY DEF BellInv
<1>6. QED
  BY <1>2, <1>3, <1>4, <1>5 DEF BellInv, Second

\* Every step keeps what the status says of the bell.
LEMMA ReportsStep == Types /\ BellInv /\ HeldInv /\ [Next]_vars => BellInv' /\ HeldInv'
<1> SUFFICES ASSUME Types, BellInv, HeldInv, [Next]_vars PROVE BellInv' /\ HeldInv'
  OBVIOUS
<1> USE DEF facts, sends, seat, bell
<1>1. RecordType /\ Scanned \in ScanStates
  BY DEF Types, BellInv
\* Nothing is written.
<1>2. ASSUME UNCHANGED <<files, lastBell>>, RowMoves PROVE BellInv' /\ HeldInv'
  <2>1. /\ Places' = Places /\ \A p \in Places : At(p)' = At(p)
        /\ Run' = Run /\ Scanned' = Scanned
    BY <1>2, Unwritten
  <2>2. HeldInv'
    BY <2>1, HeldKept
  <2>3. BellInv'
    BY <1>1, <1>2, <2>1, BellKept
  <2>4. QED
    BY <2>2, <2>3
\* A line that is not the bell's is written: the scan passes over it, or reads it.
<1>3. ASSUME NEW at \in Seconds, at <= Second(now), NEW e \in Lines, e.ts = at,
             Appends(at, e), UNCHANGED <<now, stamp, lastBell, row, seatings>>,
             \/ e.status \in {"sent", "failed", "queue-deleted"}
             \/ e.status = "read" /\ at = Second(now)
      PROVE  BellInv' /\ HeldInv'
  <2>1. PICK z : Appended(z, e)
    BY <1>1, <1>3, AppendStep
  <2>2. Scanned' = Scan(Scanned, e)
    BY <1>1, <1>3, AppendStep, ScanPassesOver
  <2>3. Run' = Run
    BY <1>3, <2>1, RunAppend DEF BellStatus
  <2>4. /\ Scanned' \in ScanStates /\ Scanned'.streak = Scanned.streak
        /\ \/ Scanned'.lastRead = Scanned.lastRead
           \/ e.status = "read" /\ Scanned'.lastRead = e.ts
    <3>1. CASE e.status = "read"
      BY <1>1, <2>2, <3>1, ScanRead
    <3>2. CASE e.status \in {"sent", "failed", "queue-deleted"}
      BY <1>1, <2>2, <3>2, ScanPassesOver
    <3>3. QED
      BY <1>3, <3>1, <3>2
  <2>5. /\ z \in Places' /\ At(z)' = e
        /\ \A p \in Places : p \in Places' /\ At(p)' = At(p)
    BY <2>1 DEF Appended
  <2>6. HeldInv'
    BY <2>3, <2>4, <2>5, HeldKept
  <2>7. RowMoves
    BY <1>3 DEF RowMoves
  <2>8. \/ Scanned'.lastRead = Scanned.lastRead
        \/ \E p \in Places' : At(p)'.status = "read" /\ At(p)'.ts = Scanned'.lastRead
    BY <2>4, <2>5
  <2>9. BellInv'
    BY <1>3, <2>4, <2>5, <2>7, <2>8, BellKept
  <2>10. QED
    BY <2>6, <2>9
\* Whether it is on record or not.
<1>4. ASSUME NEW at \in Seconds, at <= Second(now), NEW e \in Lines, e.ts = at,
             LogEvent(at, e), UNCHANGED <<now, stamp, lastBell, row, seatings>>,
             \/ e.status \in {"sent", "failed", "queue-deleted"}
             \/ e.status = "read" /\ at = Second(now)
      PROVE  BellInv' /\ HeldInv'
  <2>1. RowMoves
    BY <1>4 DEF RowMoves
  <2>2. QED
    BY <1>2, <1>3, <1>4, <2>1, LogEventFacts
<1>5. ASSUME NEW m \in Msgs, SendEnds(m) PROVE BellInv' /\ HeldInv'
  <2>1. PICK status \in {"sent", "failed"} :
                 LET e == Line(status, m, "seat", stamp[m])
                 IN  e \in Lines /\ e.ts = stamp[m] /\ LogEvent(stamp[m], e)
    BY <1>5, SendEndsWrites
  <2>2. Line(status, m, "seat", stamp[m]).status = status
    BY DEF Line
  <2>3. UNCHANGED <<now, stamp, lastBell, row, seatings>>
    BY <1>5 DEF SendEnds
  <2>4. stamp[m] \in Seconds /\ stamp[m] <= Second(now)
    BY <1>5, SendEndsWrites
  <2>5. QED
    BY <1>4, <2>1, <2>2, <2>3, <2>4
<1>6. ASSUME NEW m \in Msgs, ReadEnds(m) PROVE BellInv' /\ HeldInv'
  <2>1. /\ LogEvent(Second(now), Line("read", m, None, Second(now)))
        /\ UNCHANGED <<now, stamp, lastBell, row, seatings>>
    BY <1>6 DEF ReadEnds, LogRead
  <2>2. Line("read", m, None, Second(now)).status = "read"
    BY DEF Line
  <2>3. QED
    BY <1>4, <2>1, <2>2, NowWrites
<1>7. ASSUME unsubscribe PROVE BellInv' /\ HeldInv'
  <2>1. UNCHANGED <<now, stamp, lastBell, seatings>>
    BY <1>7 DEF unsubscribe
  <2>2. CASE UNCHANGED files
    <3>1. RowMoves
      BY <1>7 DEF unsubscribe, RowMoves
    <3>2. QED
      BY <1>2, <2>1, <2>2, <3>1
  <2>3. ASSUME UNCHANGED row, NEW e \in Lines, e.status = "queue-deleted", e.ts = Second(now),
               LogEvent(Second(now), e)
        PROVE  BellInv' /\ HeldInv'
    BY <1>4, <2>1, <2>3, NowWrites
  <2>4. QED
    BY <1>7, <2>2, <2>3, LeaverWrites
\* A line of a bell is written, or fails to be.
<1>8. ASSUME NEW n \in Seatings, n <= seatings, NEW e \in Lines, e.ts = Second(now),
             e.status \in BellStatus, e.result \in Results, LogEvent(Second(now), e),
             UNCHANGED <<now, stamp, row, seatings>>, Rings(n, e.status = "bell-gave-up")
      PROVE  BellInv' /\ HeldInv'
  <2>1. CASE Appends(Second(now), e) /\ OnRecord
    <3>1. lastBell' = [n |-> n, ts |-> e.ts, stopped |-> e.status = "bell-gave-up"]
      BY <1>8, <2>1 DEF Rings
    <3>2. QED
      BY <1>8, <2>1, <3>1, BellAppend
  <2>2. CASE UNCHANGED files /\ ~OnRecord
    <3>1. UNCHANGED lastBell /\ RowMoves
      BY <1>8, <2>2 DEF Rings, RowMoves
    <3>2. QED
      BY <1>2, <2>2, <3>1
  <2>3. QED
    BY <1>8, <2>1, <2>2, LogEventFacts
<1>9. ASSUME NEW n \in Seatings, NEW result \in Results, Try(n, result) PROVE BellInv' /\ HeldInv'
  <2>1. PICK e \in Lines : /\ e.uid = None /\ e.seat = "seat" /\ e.status = "bell-try"
                           /\ e.result = result /\ e.ts = Second(now)
                           /\ LogEvent(Second(now), e)
    BY <1>9, TryTypes
  <2>2. n <= seatings /\ UNCHANGED <<now, stamp, row, seatings>> /\ Rings(n, FALSE)
    BY <1>9, TryTypes
  <2>3. (e.status = "bell-gave-up") = FALSE
    BY <2>1
  <2>4. Rings(n, e.status = "bell-gave-up")
    BY <2>2, <2>3
  <2>5. QED
    BY <1>8, <2>1, <2>2, <2>4 DEF BellStatus
<1>10. ASSUME NEW n \in Seatings, GaveUp(n) PROVE BellInv' /\ HeldInv'
  <2>1. PICK e \in Lines : /\ e.uid = None /\ e.seat = "seat" /\ e.status = "bell-gave-up"
                           /\ e.result \in Results /\ e.ts = Second(now)
                           /\ LogEvent(Second(now), e)
    BY <1>10, GaveUpTypes
  <2>2. n <= seatings /\ UNCHANGED <<now, stamp, row, seatings>> /\ Rings(n, TRUE)
    BY <1>10, GaveUpTypes
  <2>3. (e.status = "bell-gave-up") = TRUE
    BY <2>1
  <2>4. Rings(n, e.status = "bell-gave-up")
    BY <2>2, <2>3
  <2>5. QED
    BY <1>8, <2>1, <2>2, <2>4 DEF BellStatus
<1>11. ASSUME \/ Tick \/ subscribe \/ CreateQueue \/ displaceOrRefuse \/ LeaverKilled
              \/ UNCHANGED vars
       PROVE  UNCHANGED <<files, lastBell>> /\ RowMoves
  BY <1>11 DEF Tick, subscribe, CreateQueue, displaceOrRefuse, LeaverKilled, vars, RowMoves
<1>12. ASSUME NEW m \in Msgs,
              SendBegins(m) \/ SendLooks(m) \/ SendQueue(m) \/ SendKilled(m) \/ Ack(m)
       PROVE  UNCHANGED <<files, lastBell>> /\ RowMoves
  BY <1>12 DEF SendBegins, SendLooks, SendQueue, SendKilled, Ack, RowMoves
<1>13. QED
  BY <1>2, <1>5, <1>6, <1>7, <1>9, <1>10, <1>11, <1>12 DEF Next, Try

-----------------------------------------------------------------------------
(* The inductive invariant.                                                *)

IInv == Types /\ FactsInv /\ LinesInv /\ WrittenInv /\ BellInv /\ HeldInv

\* All parts together.
LEMMA InvInit == Init => IInv
<1> SUFFICES ASSUME Init PROVE IInv
  OBVIOUS
<1>1. Types
  BY TypesInit
<1>2. Places = {}
  BY DEF Init, Places
<1>3. Tries = {} /\ Run = {}
  BY <1>2 DEF Tries, Run
<1>4. Scanned = [streak |-> NoStreak, lastRead |-> None]
  BY ScanNothing DEF Init, Scanned
<1>5. FactsInv
  BY DEF Init, FactsInv
<1>6. LinesInv
  BY <1>2 DEF LinesInv
<1>7. WrittenInv
  BY DEF Init, WrittenInv
<1>8. BellInv
  <2>1. Scanned \in ScanStates
    BY <1>4 DEF ScanStates, NoStreak
  <2>2. QED
    BY <1>4, <2>1 DEF Init, BellInv
<1>9. HeldInv
  BY <1>3, <1>4, RecordAssumption DEF HeldInv, NoStreak
<1>10. QED
  BY <1>1, <1>5, <1>6, <1>7, <1>8, <1>9 DEF IInv

LEMMA InvStep == IInv /\ [Next]_vars => IInv'
  BY TypesStep, FactsStep, MessagesStep, ReportsStep DEF IInv

LEMMA InvCorrect == Spec => []IInv
  BY InvInit, InvStep, PTL DEF Spec

\* The facts and the lines keep their types, and every line is in the file of
\* the day of its stamp, never ahead of the clock: log.go's LogEvent is handed
\* the stamp the line carries.
THEOREM TypeCorrect == Spec => []TypeOK
<1>1. IInv => TypeOK
  BY TypesSuffice DEF IInv
<1>2. QED
  BY <1>1, InvCorrect, PTL

-----------------------------------------------------------------------------
(* What the transcript says.                                               *)

\* Of one or two places one is the first and one is the last.
LEMMA FirstAndLast ==
    ASSUME files \in [Days -> Seq(Lines)],
           NEW S, S \subseteq Places, S # {},
           \A p, q, r \in S : p = q \/ q = r \/ p = r
    PROVE  /\ FirstOf(S) \in S
           /\ LastOf(S) \in S
           /\ \A q \in S : FirstOf(S) = q \/ Precedes(FirstOf(S), q)
           /\ \A q \in S : LastOf(S) = q \/ Precedes(q, LastOf(S))
<1>1. \A p, q \in S : p = q \/ Precedes(p, q) \/ Precedes(q, p)
  BY PlaceNumbers, Ordered
<1>2. \E p \in S : \A q \in S : p = q \/ Precedes(p, q)
  BY <1>1
<1>3. \E p \in S : \A q \in S : p = q \/ Precedes(q, p)
  BY <1>1
<1>4. QED
  BY <1>2, <1>3 DEF FirstOf, LastOf

\* Of any places one holds the line with the earliest stamp.
LEMMA SoonestIn ==
    ASSUME files \in [Days -> Seq(Lines)], NEW S, S \subseteq Places, S # {}
    PROVE  Soonest(S) \in S
<1>1. /\ \A p \in S : At(p).ts \in Nat /\ p[1] \in Nat /\ p[2] \in Nat
      /\ \A p, q \in S : p[1] = q[1] /\ p[2] = q[2] => p = q
  BY PlaceType, PlaceNumbers, LineNumbers
<1> DEFINE Stamps == {At(p).ts : p \in S}
<1>2. PICK ts \in Stamps : \A t \in Stamps : ts <= t
  <2>1. Stamps \subseteq Nat /\ Stamps # {}
    BY <1>1
  <2> HIDE DEF Stamps
  <2>2. QED
    BY <2>1, NatMin
<1> DEFINE S1 == {p \in S : At(p).ts = ts}
           Files == {p[1] : p \in S1}
<1>3. PICK d \in Files : \A k \in Files : d <= k
  <2>1. Files \subseteq Nat /\ Files # {}
    BY <1>1, <1>2
  <2> HIDE DEF Files
  <2>2. QED
    BY <2>1, NatMin
<1> DEFINE S2 == {p \in S1 : p[1] = d}
           Rows == {p[2] : p \in S2}
<1>4. PICK i \in Rows : \A k \in Rows : i <= k
  <2>1. Rows \subseteq Nat /\ Rows # {}
    BY <1>1, <1>3
  <2> HIDE DEF Rows
  <2>2. QED
    BY <2>1, NatMin
<1>5. PICK p \in S2 : p[2] = i
  BY <1>4
<1>6. ASSUME NEW q \in S PROVE Sooner(p, q)
  <2>1. p \in S /\ At(p).ts = ts /\ p[1] = d
    BY <1>5
  <2>2. ts <= At(q).ts
    BY <1>2
  <2>3. At(q).ts = ts => d <= q[1]
    BY <1>3
  <2>4. At(q).ts = ts /\ q[1] = d => i <= q[2]
    BY <1>4
  <2>5. QED
    BY <1>1, <1>5, <2>1, <2>2, <2>3, <2>4 DEF Sooner, Precedes
<1>7. p \in S
  BY <1>5
<1>8. QED
  BY <1>6, <1>7 DEF Soonest

\* The lines of a message: the sender's, a reader's, or one of each.
LEMMA Joined ==
    ASSUME IInv, NEW m \in Msgs, join(m) # {}
    PROVE  /\ \A p \in join(m) : MessageLine(At(p)) /\ At(p).uid = m /\ p \in Places
           /\ \A p, q \in join(m) :
                 (At(p).status = "read" <=> At(q).status = "read") => p = q
           /\ FirstOf(join(m)) \in join(m)
           /\ LastOf(join(m)) \in join(m)
           /\ \A q \in join(m) :
                 FirstOf(join(m)) = q \/ Precedes(FirstOf(join(m)), q)
           /\ \A q \in join(m) :
                 LastOf(join(m)) = q \/ Precedes(q, LastOf(join(m)))
<1>1. m # None /\ files \in [Days -> Seq(Lines)]
  BY RecordAssumption DEF IInv, Types, RecordType
<1>2. \A p \in join(m) : MessageLine(At(p)) /\ At(p).uid = m /\ p \in Places
  BY <1>1 DEF join, IInv, LinesInv
<1>3. \A p, q \in join(m) : (At(p).status = "read" <=> At(q).status = "read") => p = q
  BY <1>1 DEF join, IInv, LinesInv
<1>4. \A p, q, r \in join(m) : p = q \/ q = r \/ p = r
  BY <1>3
<1>5. join(m) \subseteq Places
  BY <1>2
<1>6. QED
  BY <1>1, <1>2, <1>3, <1>4, <1>5, FirstAndLast

\* A message whose last line is the sender's `sent` and that a reader has taken
\* was read first, or the reading is not on record.
LEMMA SentLast ==
    ASSUME IInv, NEW m \in Msgs, join(m) # {}, At(LastOf(join(m))).status = "sent"
    PROVE  /\ post[m] = "sent"
           /\ m \in taken => m \in unrecorded \/ Swallowed(m, "read") \/ ReadFirst(m)
           /\ ~ReadFirst(m) => first(m).to = "seat" /\ first(m).ts = stamp[m]
<1> DEFINE l == LastOf(join(m))
           f == FirstOf(join(m))
<1>1. /\ l \in join(m) /\ MessageLine(At(l)) /\ At(l).uid = m /\ l \in Places
      /\ f \in join(m) /\ MessageLine(At(f)) /\ At(f).uid = m /\ f \in Places
  BY Joined
<1>2. post[m] = "sent"
  BY <1>1 DEF MessageLine
<1>3. ASSUME m \in taken \ unrecorded, ~Swallowed(m, "read") PROVE ReadFirst(m)
  <2>1. PICK r \in Places : At(r).uid = m /\ At(r).status = "read"
    BY <1>3 DEF IInv, WrittenInv, Written
  <2>2. r \in join(m) /\ r # l
    BY <2>1 DEF join
  <2>3. Precedes(r, l)
    BY <2>2, Joined
  <2>4. f # l
    <3>1. ~ Precedes(l, r)
      BY <1>1, <2>1, <2>3, PlaceNumbers, Ordered DEF IInv, Types, RecordType
    <3>2. QED
      BY <2>2, <3>1, Joined
  <2>5. At(f).status = "read"
    <3>1. At(f).status # "sent"
      BY <1>1, <2>4, Joined
    <3>2. At(f).status # "failed"
      BY <1>1, <1>2 DEF MessageLine
    <3>3. QED
      BY <1>1, <3>1, <3>2 DEF MessageLine
  <2>6. QED
    BY <2>5 DEF ReadFirst, first
<1>4. ~ReadFirst(m) => first(m).to = "seat" /\ first(m).ts = stamp[m]
  BY <1>1 DEF ReadFirst, first, MessageLine
<1>5. QED
  BY <1>2, <1>3, <1>4

\* The transcript calls read only what a reader took and failed only what was
\* refused; what it calls lost was not taken, or the reading is not on record or
\* ahead of the send; and what it calls pending waits, or its loss or reading is
\* one the record cannot show (transcript.go's join, outcome and lastSeatEvent).
THEOREM OutcomesCorrect == Spec => []OutcomesTrue
<1>1. ASSUME IInv, NEW m \in Recorded
      PROVE  LET outcome == outcomes(m)
                 unseen == m \in unrecorded \/ Swallowed(m, "read") \/ ReadFirst(m)
             IN  CASE outcome = "read" -> m \in taken
                   [] outcome = "failed" -> post[m] = "failed"
                   [] outcome = "lost" -> m \in taken => unseen
                   [] outcome = "pending" ->
                         m \in mail \/ unseen \/ loss[m] \in {"unrecorded", "never", "same"}
  <2>1. m \in Msgs /\ join(m) # {}
    BY DEF Recorded
  <2> DEFINE last == At(LastOf(join(m)))
  <2>2. MessageLine(last) /\ last.uid = m
    BY <1>1, <2>1, Joined
  <2>3. CASE last.status = "read"
    <3>1. outcomes(m) = "read"
      BY <2>3 DEF outcomes
    <3>2. QED
      BY <2>2, <2>3, <3>1 DEF MessageLine
  <2>4. CASE last.status = "failed"
    <3>1. outcomes(m) = "failed"
      BY <2>4 DEF outcomes
    <3>2. QED
      BY <2>2, <2>4, <3>1 DEF MessageLine
  <2>5. CASE last.status = "sent"
    <3> DEFINE Lost == /\ lastSeatEvent(m) # None
                       /\ lastSeatEvent(m).status = "queue-deleted"
    <3>1. outcomes(m) = IF Lost THEN "lost" ELSE "pending"
      BY <2>5 DEF outcomes
    <3>2. /\ post[m] = "sent"
          /\ m \in taken => m \in unrecorded \/ Swallowed(m, "read") \/ ReadFirst(m)
          /\ ~ReadFirst(m) => first(m).to = "seat" /\ first(m).ts = stamp[m]
      BY <1>1, <2>1, <2>5, SentLast
    <3>3. CASE Lost
      BY <3>1, <3>2, <3>3
    <3>4. CASE ~Lost
      <4>1. m \in mail \cup taken \/ loss[m] # "no"
        BY <1>1, <2>1, <3>2 DEF IInv, FactsInv
      <4>2. ASSUME ~ReadFirst(m) PROVE loss[m] # "later"
        <5> SUFFICES ASSUME loss[m] = "later" PROVE FALSE
          OBVIOUS
        <5>1. PICK p \in Places : At(p).status = "queue-deleted" /\ At(p).ts > stamp[m]
          BY <1>1, <2>1 DEF IInv, WrittenInv
        <5>2. At(p).seat = "seat"
          BY <1>1, <5>1 DEF IInv, LinesInv, OtherLine, MessageLine
        <5>3. p \in After(m)
          BY <3>2, <4>2, <5>1, <5>2, RecordAssumption DEF After
        <5> DEFINE Deleted == {q \in After(m) : At(q).status = "queue-deleted"}
        <5>4. Deleted # {} /\ Deleted \subseteq Places
          BY <5>1, <5>3 DEF After
        <5>5. Soonest(Deleted) \in Deleted
          BY <1>1, <5>4, SoonestIn DEF IInv, Types, RecordType
        <5>6. lastSeatEvent(m) = At(Soonest(Deleted))
          BY <5>4 DEF lastSeatEvent
        <5>7. At(Soonest(Deleted)).status = "queue-deleted"
              /\ At(Soonest(Deleted)).seat = "seat"
          BY <1>1, <5>5 DEF After, IInv, LinesInv, OtherLine, MessageLine
        <5>8. At(Soonest(Deleted)) # None
          BY <1>1, <5>5, PlaceType, NoneIsNoLine DEF After, IInv, Types, RecordType
        <5>9. QED
          BY <3>4, <5>6, <5>7, <5>8
      <4>3. loss[m] \in Losses
        BY <1>1, <2>1 DEF IInv, Types, FactType
      <4>4. QED
        BY <3>1, <3>2, <3>4, <4>1, <4>2, <4>3 DEF Losses
    <3>5. QED
      BY <3>3, <3>4
  <2>6. QED
    BY <2>2, <2>3, <2>4, <2>5 DEF MessageLine
<1>2. IInv => OutcomesTrue
  BY <1>1 DEF OutcomesTrue
<1>3. QED
  BY <1>2, InvCorrect, PTL

\* A message that waits and whose sender was told so is listed, or the append of
\* its `sent` line failed: its one line is the sender's, and keepMessage drops
\* neither the pending nor the lost.
THEOREM WaitingCorrect == Spec => []WaitingIsListed
<1>1. ASSUME IInv, NEW m \in mail, post[m] = "sent", ~Swallowed(m, "sent") PROVE m \in transcript
  <2>1. m \in Msgs /\ m \notin taken
    BY <1>1 DEF IInv, Types, FactType, FactsInv
  <2>2. join(m) # {}
    BY <1>1, <2>1 DEF IInv, WrittenInv, Written, join
  <2>3. ASSUME NEW p \in join(m)
        PROVE  At(p).status = "sent" /\ At(p).to = "seat"
    <3>1. MessageLine(At(p)) /\ At(p).uid = m
      BY <1>1, <2>1, <2>2, Joined
    <3>2. QED
      BY <1>1, <2>1, <3>1 DEF MessageLine
  <2>4. At(LastOf(join(m))).status = "sent" /\ first(m).to = "seat"
    BY <1>1, <2>1, <2>2, <2>3, Joined DEF first
  <2>5. outcomes(m) \in {"pending", "lost"}
    BY <2>4 DEF outcomes
  <2>6. QED
    BY <2>1, <2>2, <2>4, <2>5, RecordAssumption DEF transcript, Recorded, keepMessage
<1>2. IInv => WaitingIsListed
  BY <1>1 DEF WaitingIsListed
<1>3. QED
  BY <1>2, InvCorrect, PTL

-----------------------------------------------------------------------------
(* What the status says.                                                   *)

\* Where the last line of any bell is the occupant's own, it stands in the report
\* until a read comes after it: bellStreaks takes the seconds of the registration,
\* so that a line of the very second of the registration is not an old one.
THEOREM VainBellCorrect == Spec => []VainBellShown
<1>1. ASSUME IInv, row # None, lastBell # None, lastBell.n = row.n,
             \A p \in Places : At(p).status = "read" => At(p).ts <= lastBell.ts
      PROVE  /\ bellStreaks # NoStreak /\ bellStreaks.ts = lastBell.ts
             /\ bellStreaks.stopped = lastBell.stopped
  <2>1. /\ Scanned.streak.result # None \/ Scanned.streak.stopped
        /\ Scanned.streak.ts = lastBell.ts /\ Scanned.streak.stopped = lastBell.stopped
        /\ lastBell.ts >= Second(row.at)
        /\ lastBell \in [n : 1 .. seatings, ts : Seconds, stopped : BOOLEAN]
    BY <1>1 DEF IInv, BellInv
  <2>2. Scanned.streak # NoStreak
    BY <2>1 DEF NoStreak
  <2>3. lastBell.ts \in Nat /\ Second(row.at) \in Nat
    <3>1. lastBell.ts \in Seconds /\ row.at \in Nat
      BY <1>1, <2>1, Bounds DEF IInv, Types, FactType, RecordType
    <3>2. QED
      BY <3>1, SecondsType, SecondType
  <2>4. ~Old(Scanned.streak.ts, row.at)
    BY <2>1, <2>3 DEF Old
  <2>5. ~(Scanned.lastRead # None /\ Scanned.lastRead > Scanned.streak.ts)
    <3> SUFFICES ASSUME Scanned.lastRead # None PROVE ~(Scanned.lastRead > lastBell.ts)
      BY <2>1
    <3>1. PICK p \in Places : At(p).status = "read" /\ At(p).ts = Scanned.lastRead
      BY <1>1 DEF IInv, BellInv
    <3>2. Scanned.lastRead <= lastBell.ts /\ Scanned.lastRead \in Nat
      BY <1>1, <3>1, PlaceType, LineNumbers DEF IInv, Types, RecordType
    <3>3. QED
      BY <2>3, <3>2
  <2>6. bellStreaks = Scanned.streak
    BY <1>1, <2>2, <2>4, <2>5 DEF bellStreaks
  <2>7. QED
    BY <2>1, <2>2, <2>6
<1>2. IInv => VainBellShown
  BY <1>1 DEF VainBellShown
<1>3. QED
  BY <1>2, InvCorrect, PTL

\* The stamp heldSince carries from line to line is the stamp of the first of the
\* unbroken run of held tries that ends the record.
THEOREM HeldSinceCorrect == Spec => []HeldSinceFirst
<1>1. ASSUME IInv, Run # {} PROVE Scanned.streak.heldSince = At(FirstOf(Run)).ts
  <2>1. PICK p \in Run : /\ \A q \in Run : p = q \/ Precedes(p, q)
                         /\ Scanned.streak.heldSince = At(p).ts
    BY <1>1 DEF IInv, HeldInv
  <2>2. \A q, r \in Run : ~(Precedes(q, r) /\ Precedes(r, q))
    BY <1>1, PlaceNumbers, Ordered DEF IInv, Types, RecordType, Run, Tries
  <2>3. FirstOf(Run) = p
    BY <2>1, <2>2 DEF FirstOf
  <2>4. QED
    BY <2>1, <2>3
<1>2. IInv => HeldSinceFirst
  BY <1>1 DEF HeldSinceFirst
<1>3. QED
  BY <1>2, InvCorrect, PTL

=============================================================================
