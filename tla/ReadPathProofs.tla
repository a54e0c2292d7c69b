--------------------------- MODULE ReadPathProofs ---------------------------
(* Theorems about the read path, for any messages, readers and faults.      *)
EXTENDS ReadPath, SequenceTheorems, TLAPS

-----------------------------------------------------------------------------
(* Sequences without repetition.                                           *)

Within(s) == {s[i] : i \in 1 .. Len(s)}
Once(s) == \A i, j \in 1 .. Len(s) : s[i] = s[j] => i = j

\* A sequence of members of a set is one over any set that holds its members.
LEMMA SeqOver ==
    ASSUME NEW S, NEW T, NEW s \in Seq(S), \A i \in 1 .. Len(s) : s[i] \in T
    PROVE  s \in Seq(T)
OBVIOUS

\* Appending what is not there keeps a sequence free of repetition.
LEMMA AppendOnce ==
    ASSUME NEW S, NEW s \in Seq(S), NEW m \in S, Once(s), ~Contains(s, m)
    PROVE  /\ Append(s, m) \in Seq(S) /\ Once(Append(s, m))
           /\ Within(Append(s, m)) = Within(s) \cup {m}
<1>1. /\ Append(s, m) \in Seq(S) /\ Len(Append(s, m)) = Len(s) + 1
      /\ \A i \in 1 .. Len(s) : Append(s, m)[i] = s[i]
      /\ Append(s, m)[Len(s) + 1] = m
  BY AppendProperties
<1>2. Len(s) \in Nat
  OBVIOUS
<1>3. QED
  BY <1>1, <1>2 DEF Once, Within, Contains

\* The tail of one has all but the head.
LEMMA TailOnce ==
    ASSUME NEW S, NEW s \in Seq(S), s # <<>>, Once(s)
    PROVE  /\ Head(s) \in S /\ Tail(s) \in Seq(S) /\ Once(Tail(s))
           /\ Head(s) \in Within(s) /\ Within(Tail(s)) = Within(s) \ {Head(s)}
<1>1. /\ Tail(s) \in Seq(S) /\ Len(Tail(s)) = Len(s) - 1
      /\ \A i \in 1 .. Len(Tail(s)) : Tail(s)[i] = s[i + 1]
      /\ Head(s) \in S
  BY HeadTailProperties
<1>2. Len(s) \in Nat \ {0} /\ Head(s) = s[1]
  OBVIOUS
<1>3. Once(Tail(s))
  BY <1>1, <1>2 DEF Once
<1>4. Within(Tail(s)) = Within(s) \ {Head(s)}
  <2>1. \A i \in 1 .. Len(s) : s[i] # Head(s) => i - 1 \in 1 .. Len(Tail(s)) /\ Tail(s)[i - 1] = s[i]
    BY <1>1, <1>2
  <2>2. \A i \in 1 .. Len(Tail(s)) : i + 1 \in 1 .. Len(s) /\ Tail(s)[i] = s[i + 1] /\ s[i + 1] # Head(s)
    BY <1>1, <1>2 DEF Once
  <2>3. Within(s) \ {Head(s)} \subseteq Within(Tail(s))
    BY <2>1 DEF Within
  <2>4. Within(Tail(s)) \subseteq Within(s) \ {Head(s)}
    BY <2>2 DEF Within
  <2>5. QED
    BY <2>3, <2>4
<1>5. Head(s) \in Within(s)
  <2>1. 1 \in 1 .. Len(s)
    BY <1>2
  <2>2. QED
    BY <1>2, <2>1 DEF Within
<1>6. QED
  BY <1>1, <1>3, <1>4, <1>5

\* Taking a message out of one takes it out for good.
LEMMA WithoutOnce ==
    ASSUME NEW S, NEW s \in Seq(S), NEW m, Once(s)
    PROVE  /\ Without(s, m) \in Seq(S) /\ Once(Without(s, m))
           /\ Within(Without(s, m)) = Within(s) \ {m}
<1>1. CASE ~Contains(s, m)
  BY <1>1 DEF Without, Contains, Within
<1>2. CASE Contains(s, m)
  <2> DEFINE k == CHOOSE i \in 1 .. Len(s) : s[i] = m
             u == SubSeq(s, 1, k - 1)
             v == SubSeq(s, k + 1, Len(s))
             w == u \o v
  <2>1. k \in 1 .. Len(s) /\ s[k] = m /\ Len(s) \in Nat
    BY <1>2 DEF Contains
  <2>2. Without(s, m) = w
    BY <1>2 DEF Without, RemoveAt
  <2>3. /\ u \in Seq(S) /\ Len(u) = k - 1
        /\ \A i \in 1 .. k - 1 : u[i] = s[i]
    <3>1. \A i \in 1 .. k - 1 : s[i] \in S
      BY <2>1
    <3> HIDE DEF k
    <3>2. QED
      BY <2>1, <3>1, SubSeqProperties
  <2>4. /\ v \in Seq(S) /\ Len(v) = Len(s) - k
        /\ \A i \in 1 .. Len(s) - k : v[i] = s[k + i]
    <3>1. \A i \in k + 1 .. Len(s) : s[i] \in S
      BY <2>1
    <3> HIDE DEF k
    <3>2. QED
      BY <2>1, <3>1, SubSeqProperties
  <2> HIDE DEF k, u, v
  <2>5. /\ w \in Seq(S) /\ Len(w) = Len(s) - 1
        /\ \A i \in 1 .. Len(w) : w[i] = IF i < k THEN s[i] ELSE s[i + 1]
    <3>1. /\ w \in Seq(S) /\ Len(w) = Len(u) + Len(v)
          /\ \A i \in 1 .. Len(u) + Len(v) : w[i] = IF i <= Len(u) THEN u[i] ELSE v[i - Len(u)]
      BY <2>3, <2>4, ConcatProperties
    <3>2. Len(w) = Len(s) - 1
      BY <2>1, <2>3, <2>4, <3>1
    <3>3. ASSUME NEW i \in 1 .. Len(w) PROVE w[i] = IF i < k THEN s[i] ELSE s[i + 1]
      <4>1. CASE i < k
        BY <2>1, <2>3, <2>4, <3>1, <3>2, <4>1
      <4>2. CASE i >= k
        <5>1. w[i] = v[i - Len(u)] /\ i - Len(u) \in 1 .. Len(s) - k
          BY <2>1, <2>3, <2>4, <3>1, <3>2, <4>2
        <5>2. k + (i - Len(u)) = i + 1
          BY <2>1, <2>3
        <5>3. v[i - Len(u)] = s[k + (i - Len(u))]
          BY <2>4, <5>1
        <5>4. ~(i < k)
          BY <2>1, <4>2
        <5>5. QED
          BY <5>1, <5>2, <5>3, <5>4
      <4>3. QED
        BY <2>1, <4>1, <4>2
    <3>4. QED
      BY <3>1, <3>2, <3>3
  <2> HIDE DEF w
  <2>6. Once(w)
    BY <2>1, <2>5 DEF Once
  <2>7. Within(w) \subseteq Within(s) \ {m}
    <3>1. ASSUME NEW i \in 1 .. Len(w)
          PROVE  \E j \in 1 .. Len(s) : w[i] = s[j] /\ s[j] # m
      <4>1. CASE i < k
        BY <2>1, <2>5, <4>1 DEF Once
      <4>2. CASE i >= k
        BY <2>1, <2>5, <4>2 DEF Once
      <4>3. QED
        BY <2>1, <4>1, <4>2
    <3>2. QED
      BY <3>1 DEF Within
  <2>8. Within(s) \ {m} \subseteq Within(w)
    <3>1. ASSUME NEW i \in 1 .. Len(s), s[i] # m
          PROVE  \E j \in 1 .. Len(w) : w[j] = s[i]
      <4>1. CASE i < k
        BY <2>1, <2>5, <4>1
      <4>2. CASE i > k
        <5>1. i - 1 \in 1 .. Len(w) /\ w[i - 1] = s[i]
          BY <2>1, <2>5, <4>2
        <5>2. QED
          BY <5>1
      <4>3. QED
        BY <2>1, <3>1, <4>1, <4>2
    <3>2. QED
      BY <3>1 DEF Within
  <2>9. QED
    BY <2>2, <2>5, <2>6, <2>7, <2>8
<1>3. QED
  BY <1>1, <1>2

-----------------------------------------------------------------------------
(* The cursor.                                                             *)

\* What waits is stored and waits once; what was never delivered is in flight to
\* nobody and waits for no redelivery.
CursorOK ==
    /\ stored \subseteq Msgs
    /\ fresh \in Seq(stored) /\ Once(fresh)
    /\ again \in Seq(stored) /\ Once(again)
    /\ holder \in [Msgs -> All \cup {None, Nobody}]
    /\ \A m \in Msgs : holder[m] # None => m \in stored
    /\ \A m \in Within(fresh) : m \notin Within(again) /\ holder[m] = None

\* Members of what waits are stored.
LEMMA WaitingStored ==
    ASSUME CursorOK
    PROVE  Within(fresh) \subseteq stored /\ Within(again) \subseteq stored
BY DEF CursorOK, Within

\* A delivery takes one message, never to be fresh again.
LEMMA Delivers ==
    ASSUME CursorOK, NEW h \in All \cup {Nobody}, DeliverTo(h), UNCHANGED stored
    PROVE  /\ CursorOK' /\ Within(fresh') \subseteq Within(fresh)
           /\ Head(Waiting) \in stored \ Within(fresh')
<1>1. CASE again # <<>>
  <2>1. Head(Waiting) = Head(again)
    <3>1. /\ Waiting \in Seq(stored) /\ Len(Waiting) = Len(again) + Len(fresh)
          /\ \A i \in 1 .. Len(again) + Len(fresh) :
                Waiting[i] = IF i <= Len(again) THEN again[i] ELSE fresh[i - Len(again)]
      BY ConcatProperties DEF CursorOK, Waiting
    <3>2. Len(again) \in Nat \ {0} /\ Len(fresh) \in Nat /\ Head(again) = again[1]
      BY <1>1 DEF CursorOK
    <3>3. Waiting[1] = again[1] /\ Waiting # <<>> /\ Head(Waiting) = Waiting[1]
      BY <3>1, <3>2
    <3>4. QED
      BY <3>2, <3>3
  <2>2. /\ Head(again) \in stored /\ Head(again) \in Within(again)
        /\ again' \in Seq(stored) /\ Once(again') /\ Within(again') = Within(again) \ {Head(again)}
    <3>1. again' = Tail(again) /\ again # <<>>
      BY <1>1 DEF DeliverTo
    <3>2. again \in Seq(stored) /\ Once(again)
      BY DEF CursorOK
    <3>3. QED
      BY <3>1, <3>2, TailOnce
  <2>3. fresh' = fresh /\ holder' = [holder EXCEPT ![Head(again)] = h]
    BY <1>1, <2>1 DEF DeliverTo
  <2>4. \A m \in Within(fresh) : m # Head(again)
    BY <2>2 DEF CursorOK
  <2>5. \A m \in Msgs : holder'[m] = IF m = Head(again) THEN h ELSE holder[m]
    BY <2>2, <2>3 DEF CursorOK
  <2>6. Within(fresh') = Within(fresh) /\ Within(fresh) \subseteq Msgs
    BY <2>3, WaitingStored DEF CursorOK
  <2>7. CursorOK'
    BY <2>2, <2>3, <2>4, <2>5, <2>6, ReadAssumption DEF CursorOK
  <2>8. QED
    BY <2>1, <2>2, <2>4, <2>6, <2>7
<1>2. CASE again = <<>>
  <2>1. Waiting = fresh /\ fresh # <<>>
    <3>1. Waiting = fresh
      BY <1>2, ConcatEmptySeq DEF CursorOK, Waiting
    <3>2. QED
      BY <3>1 DEF DeliverTo
  <2>2. /\ Head(fresh) \in stored /\ Head(fresh) \in Within(fresh)
        /\ fresh' \in Seq(stored) /\ Once(fresh') /\ Within(fresh') = Within(fresh) \ {Head(fresh)}
    <3>1. fresh' = Tail(fresh) /\ fresh # <<>>
      BY <1>2, <2>1 DEF DeliverTo
    <3>2. fresh \in Seq(stored) /\ Once(fresh)
      BY DEF CursorOK
    <3>3. QED
      BY <3>1, <3>2, TailOnce
  <2>3. again' = again /\ holder' = [holder EXCEPT ![Head(fresh)] = h]
    BY <1>2, <2>1 DEF DeliverTo
  <2>4. \A m \in Msgs : holder'[m] = IF m = Head(fresh) THEN h ELSE holder[m]
    BY <2>2, <2>3 DEF CursorOK
  <2>5. Within(again') = Within(again) /\ Within(fresh) \subseteq Msgs
    BY <2>3, WaitingStored DEF CursorOK
  <2>6. CursorOK'
    BY <2>2, <2>3, <2>4, <2>5, ReadAssumption DEF CursorOK
  <2>7. QED
    BY <2>1, <2>2, <2>6
<1>3. QED
  BY <1>1, <1>2

\* A message put back for redelivery, or already waiting for it, is in flight to
\* nobody.
LEMMA PutsBack ==
    ASSUME CursorOK, NEW m \in Msgs, m \notin Within(fresh),
           UNCHANGED <<stored, fresh>>,
           again' = again \/ (m \in stored /\ ~Contains(again, m) /\ again' = Append(again, m)),
           holder' = [holder EXCEPT ![m] = None]
    PROVE  CursorOK'
<1>1. /\ again' \in Seq(stored) /\ Once(again')
      /\ Within(again') \subseteq Within(again) \cup {m}
  <2>1. again \in Seq(stored) /\ Once(again)
    BY DEF CursorOK
  <2>2. CASE again' = again
    BY <2>1, <2>2
  <2>3. CASE m \in stored /\ ~Contains(again, m) /\ again' = Append(again, m)
    BY <2>1, <2>3, AppendOnce
  <2>4. QED
    BY <2>2, <2>3
<1>2. \A n \in Msgs : holder'[n] = IF n = m THEN None ELSE holder[n]
  BY DEF CursorOK
<1>3. Within(fresh) \subseteq Msgs
  BY WaitingStored DEF CursorOK
<1>4. QED
  BY <1>1, <1>2, <1>3 DEF CursorOK

\* A deletion leaves no trace of the message.
LEMMA Deletes ==
    ASSUME CursorOK, NEW m \in Msgs, m \notin Within(fresh), Delete(m)
    PROVE  CursorOK' /\ fresh' = fresh
<1>1. fresh' = fresh /\ stored' = stored \ {m} /\ holder' = [holder EXCEPT ![m] = None]
  BY DEF Delete
<1>2. fresh \in Seq(stored')
  <2>1. \A i \in 1 .. Len(fresh) : fresh[i] \in stored'
    BY <1>1 DEF CursorOK, Within
  <2>2. QED
    BY <2>1, SeqOver DEF CursorOK
<1>3. Once(again') /\ Within(again') = Within(again) \ {m} /\ again' \in Seq(stored)
  BY WithoutOnce DEF CursorOK, Delete
<1>4. again' \in Seq(stored')
  <2>1. \A i \in 1 .. Len(again') : again'[i] \in stored'
    <3>1. ASSUME NEW i \in 1 .. Len(again') PROVE again'[i] \in stored'
      <4>1. again'[i] \in Within(again') /\ again'[i] \in stored
        BY <1>3 DEF Within
      <4>2. QED
        BY <1>1, <1>3, <4>1
    <3>2. QED
      BY <3>1
  <2>2. QED
    BY <1>3, <2>1, SeqOver
<1>5. \A n \in Msgs : holder'[n] = IF n = m THEN None ELSE holder[n]
  BY <1>1 DEF CursorOK
<1>6. QED
  BY <1>1, <1>2, <1>3, <1>4, <1>5 DEF CursorOK

\* What a dead process held is in flight to nobody.
LEMMA Orphans ==
    ASSUME CursorOK, NEW r \in All, Orphan(r), UNCHANGED stored
    PROVE  CursorOK' /\ fresh' = fresh
<1>1. /\ fresh' = fresh /\ again' = again
      /\ holder' = [m \in Msgs |-> IF holder[m] = r THEN Nobody ELSE holder[m]]
  BY DEF Orphan
<1>2. Within(fresh) \subseteq Msgs
  BY WaitingStored DEF CursorOK
<1>3. \A m \in Msgs : holder'[m] = None <=> holder[m] = None
  BY <1>1, ReadAssumption DEF CursorOK, All
<1>4. holder' \in [Msgs -> All \cup {None, Nobody}]
  BY <1>1 DEF CursorOK
<1>5. QED
  BY <1>1, <1>2, <1>3, <1>4 DEF CursorOK

-----------------------------------------------------------------------------
(* The reads.                                                              *)

RestOK ==
    /\ sent \subseteq Msgs /\ stored \subseteq sent /\ shown \subseteq sent
    /\ recorded \subseteq sent /\ handed \subseteq Msgs
    /\ pc \in [All -> Labels] /\ inHand \in [All -> Msgs \cup {None}]
    /\ signalled \subseteq Readers \cup Peekers /\ ackTried \subseteq All
    /\ buffer \in [Tools -> SUBSET Msgs] /\ faults \in 0 .. MaxFaults

\* What a read holds was sent, and will not be delivered as new again.
HandsOK == \A r \in All : inHand[r] # None => inHand[r] \in sent /\ inHand[r] \notin Within(fresh)

\* What is being acknowledged was shown, and what is being recorded is gone.
TakenOK ==
    \A r \in All :
        /\ pc[r] \in {"ack", "record"} => inHand[r] # None /\ inHand[r] \in shown
        /\ pc[r] = "record" => inHand[r] \notin stored

IInv == RestOK /\ CursorOK /\ HandsOK /\ TakenOK /\ ShownBeforeGone /\ RecordedIsGone

\* What one step may do to the mail.
Progress ==
    \/ UNCHANGED <<sent, stored, shown, recorded>>
    \/ \E m \in Msgs \ sent : /\ sent' = sent \cup {m} /\ stored' = stored \cup {m}
                             /\ UNCHANGED <<shown, recorded>>
    \/ \E m \in sent : shown' = shown \cup {m} /\ UNCHANGED <<sent, stored, recorded>>
    \/ \E m \in shown : stored' = stored \ {m} /\ UNCHANGED <<sent, shown, recorded>>
    \/ \E m \in sent \ stored : recorded' = recorded \cup {m} /\ UNCHANGED <<sent, stored, shown>>

\* The initial state is as described.
LEMMA InitOK == Init => IInv
<1> SUFFICES ASSUME Init PROVE IInv
  OBVIOUS
<1>1. RestOK
  BY ReadAssumption DEF Init, RestOK, Labels
<1>2. CursorOK
  <2>1. fresh \in Seq(stored) /\ again \in Seq(stored) /\ Len(fresh) = 0 /\ Len(again) = 0
    BY DEF Init
  <2>2. holder \in [Msgs -> All \cup {None, Nobody}] /\ \A m \in Msgs : holder[m] = None
    BY DEF Init
  <2>3. QED
    BY <2>1, <2>2 DEF Init, CursorOK, Once, Within
<1>3. HandsOK /\ TakenOK
  BY DEF Init, HandsOK, TakenOK
<1>4. QED
  BY <1>1, <1>2, <1>3 DEF IInv, Init, ShownBeforeGone, RecordedIsGone

\* The cursor is in order as long as it and the queue stay as they are.
LEMMA CursorStays ==
    ASSUME CursorOK, UNCHANGED <<stored, cursor>>
    PROVE  CursorOK' /\ Within(fresh)' = Within(fresh)
<1>1. UNCHANGED <<stored, fresh, again, holder>>
  BY DEF cursor
<1>2. QED
  BY <1>1 DEF CursorOK, Within, Once

\* A step that leaves the mail and the cursor alone.
LEMMA QuietStep ==
    ASSUME IInv, UNCHANGED <<sent, stored, cursor, shown, recorded>>,
           \A r \in All : inHand'[r] = inHand[r] \/ inHand'[r] = None,
           \A r \in All : pc'[r] \in {"ack", "record"} => pc'[r] = pc[r] /\ inHand'[r] = inHand[r]
    PROVE  CursorOK' /\ HandsOK' /\ TakenOK' /\ Progress
<1>1. CursorOK'
  BY DEF IInv, CursorOK, cursor, Within, Once
<1>2. HandsOK'
  BY DEF IInv, HandsOK, cursor
<1>3. TakenOK'
  BY DEF IInv, TakenOK
<1>4. QED
  BY <1>1, <1>2, <1>3 DEF Progress

\* The broker's own steps.
LEMMA BrokerSteps ==
    ASSUME IInv, \E m \in Msgs : Send(m) \/ AckWait(m)
    PROVE  RestOK' /\ CursorOK' /\ HandsOK' /\ TakenOK' /\ Progress
<1>1. ASSUME NEW m \in Msgs, Send(m)
      PROVE  RestOK' /\ CursorOK' /\ HandsOK' /\ TakenOK' /\ Progress
  <2>1. /\ m \notin sent /\ sent' = sent \cup {m} /\ stored' = stored \cup {m}
        /\ fresh' = Append(fresh, m)
        /\ UNCHANGED <<again, holder, pc, inHand, signalled, ackTried, buffer, shown,
                       recorded, handed, faults>>
    BY <1>1 DEF Send, logs
  <2>2. Within(fresh) \subseteq stored /\ Within(again) \subseteq stored /\ stored \subseteq sent
    BY WaitingStored DEF IInv, RestOK
  <2>3. fresh \in Seq(stored') /\ again \in Seq(stored')
    <3>1. fresh \in Seq(stored) /\ again \in Seq(stored)
      BY DEF IInv, CursorOK
    <3>2. \A i \in 1 .. Len(fresh) : fresh[i] \in stored'
      BY <2>1, <2>2 DEF Within
    <3>3. \A i \in 1 .. Len(again) : again[i] \in stored'
      BY <2>1, <2>2 DEF Within
    <3>4. QED
      BY <3>1, <3>2, <3>3, SeqOver
  <2>4. /\ fresh' \in Seq(stored') /\ Once(fresh')
        /\ Within(fresh') = Within(fresh) \cup {m}
    <3>1. Once(fresh) /\ ~Contains(fresh, m)
      BY <2>1, <2>2 DEF IInv, CursorOK, Contains, Within
    <3>2. m \in stored'
      BY <2>1
    <3>3. QED
      BY <2>1, <2>3, <3>1, <3>2, AppendOnce
  <2>5. CursorOK'
    BY <2>1, <2>2, <2>3, <2>4 DEF IInv, CursorOK
  <2>6. RestOK'
    BY <2>1 DEF IInv, RestOK
  <2>7. HandsOK'
    BY <2>1, <2>4 DEF IInv, HandsOK
  <2>8. TakenOK'
    BY <2>1 DEF IInv, TakenOK, HandsOK
  <2>9. Progress
    BY <2>1 DEF Progress
  <2>10. QED
    BY <2>5, <2>6, <2>7, <2>8, <2>9
<1>2. ASSUME NEW m \in Msgs, AckWait(m)
      PROVE  RestOK' /\ CursorOK' /\ HandsOK' /\ TakenOK' /\ Progress
  <2>1. /\ holder[m] # None /\ holder' = [holder EXCEPT ![m] = None]
        /\ again' = IF Contains(again, m) THEN again ELSE Append(again, m)
        /\ UNCHANGED <<sent, stored, fresh, pc, inHand, signalled, ackTried, buffer, shown,
                       recorded, handed, faults>>
    BY <1>2 DEF AckWait, logs
  <2>2. m \in stored /\ m \notin Within(fresh)
    BY <2>1 DEF IInv, CursorOK
  <2>3. CursorOK'
    BY <2>1, <2>2, PutsBack DEF IInv
  <2>4. RestOK' /\ HandsOK' /\ TakenOK' /\ Progress
    BY <2>1 DEF IInv, RestOK, HandsOK, TakenOK, Progress
  <2>5. QED
    BY <2>3, <2>4
<1>3. QED
  BY <1>1, <1>2

\* A read's own steps, up to the acknowledgement.
LEMMA ReadSteps ==
    ASSUME IInv, NEW r \in All,
           Start(r) \/ Signal(r) \/ NextQueued(r) \/ readMode(r) \/ drain(r)
    PROVE  RestOK' /\ CursorOK' /\ HandsOK' /\ TakenOK' /\ Progress
<1> USE ReadAssumption DEF IInv, RestOK, Labels, Move, Goto, logs
<1>1. CASE Start(r)
  BY <1>1, QuietStep DEF Start
<1>2. CASE Signal(r)
  BY <1>2, QuietStep DEF Signal, Fault, All
<1>3. CASE NextQueued(r)
  <2>1. PICK label \in {"heading", "drain"} : Fetch(r, label)
    BY <1>3 DEF NextQueued
  <2>2. UNCHANGED <<sent, stored, signalled, ackTried, buffer, shown, recorded, handed>>
    BY <1>3 DEF NextQueued
  <2>3. CASE \E h \in {r, Nobody} : DeliverTo(h)
    <3>1. PICK h \in {r, Nobody} : DeliverTo(h)
      BY <2>3
    <3>2. /\ CursorOK' /\ Within(fresh') \subseteq Within(fresh)
          /\ Head(Waiting) \in stored \ Within(fresh')
      BY <2>2, <3>1, Delivers
    <3>3. /\ inHand' = inHand \/ inHand' = [inHand EXCEPT ![r] = Head(Waiting)]
          /\ pc' \in [All -> Labels] /\ faults' \in 0 .. MaxFaults
          /\ \A q \in All : pc'[q] \in {"ack", "record"} => q # r /\ pc'[q] = pc[q]
      BY <2>1, <3>2 DEF Fetch, Fault
    <3>4. RestOK'
      BY <2>2, <3>2, <3>3
    <3>5. HandsOK'
      BY <2>2, <3>2, <3>3 DEF HandsOK
    <3>6. TakenOK'
      BY <2>2, <3>3 DEF TakenOK
    <3>7. QED
      BY <2>2, <3>2, <3>4, <3>5, <3>6 DEF Progress
  <2>4. CASE UNCHANGED <<cursor, inHand>>
    <3>1. /\ pc' \in [All -> Labels] /\ faults' \in 0 .. MaxFaults
          /\ \A q \in All : pc'[q] \in {"ack", "record"} => pc'[q] = pc[q]
      BY <2>1 DEF Fetch, Fault
    <3>2. QED
      BY <2>2, <2>4, <3>1, QuietStep
  <2>5. QED
    BY <2>1, <2>3, <2>4 DEF Fetch
<1>4. CASE readMode(r)
  <2>1. /\ pc' \in [All -> Labels] /\ faults' \in 0 .. MaxFaults
        /\ \A q \in All : pc'[q] \in {"ack", "record"} => pc'[q] = pc[q]
    BY <1>4 DEF readMode, Fault
  <2>2. QED
    BY <1>4, <2>1, QuietStep DEF readMode
<1>5. CASE drain(r)
  <2>1. UNCHANGED <<sent, stored, cursor, inHand, signalled, ackTried, recorded, handed>>
    BY <1>5 DEF drain
  <2>2. pc' \in [All -> Labels] /\ faults' \in 0 .. MaxFaults
    BY <1>5 DEF drain, Fault, WriteFails
  <2>3. CASE shown' = shown /\ buffer' = buffer /\ pc'[r] \in {"topics", "failed"}
    <3>1. \A q \in All : pc'[q] \in {"ack", "record"} => pc'[q] = pc[q]
      BY <1>5, <2>3 DEF drain
    <3>2. QED
      BY <2>1, <2>2, <2>3, <3>1, QuietStep
  <2>4. CASE inHand[r] # None /\ WriteOut(r)
    <3>1. /\ shown' = shown \cup {inHand[r]} /\ inHand[r] \in sent
          /\ buffer' \in [Tools -> SUBSET Msgs]
      BY <2>4 DEF WriteOut, HandsOK
    <3>2. \A q \in All : pc'[q] = pc[q] \/ (q = r /\ pc'[q] # "record")
      <4>1. PICK label \in {"topics", "failed", "close", "ack"} : pc' = [pc EXCEPT ![r] = label]
        BY <1>5 DEF drain, WriteFails
      <4>2. label # "record" /\ pc \in [All -> Labels]
        OBVIOUS
      <4>3. QED
        BY ONLY <4>1, <4>2, r \in All
    <3>3. CursorOK' /\ HandsOK'
      <4>1. CursorOK' /\ Within(fresh)' = Within(fresh)
        BY <2>1, CursorStays
      <4>2. HandsOK'
        BY <2>1, <4>1 DEF HandsOK
      <4>3. QED
        BY <4>1, <4>2
    <3>4. TakenOK'
      BY <2>1, <2>4, <3>1, <3>2 DEF TakenOK
    <3>5. QED
      BY <2>1, <2>2, <3>1, <3>3, <3>4 DEF Progress
  <2>5. QED
    BY <1>5, <2>3, <2>4 DEF drain, WriteFails
<1>6. QED
  BY <1>1, <1>2, <1>3, <1>4, <1>5

\* The acknowledgement, what follows it, and the ways a read ends.
LEMMA EndSteps ==
    ASSUME IInv, NEW r \in All,
           Kill(r) \/ Ack(r) \/ LogRead(r) \/ Topics(r) \/ Close(r) \/ read(r)
    PROVE  RestOK' /\ CursorOK' /\ HandsOK' /\ TakenOK' /\ Progress
<1> USE ReadAssumption DEF IInv, RestOK, Labels, Move, Goto, logs
<1>1. CASE Kill(r)
  <2>1. /\ UNCHANGED <<sent, stored, shown, recorded, handed>>
        /\ inHand' = [inHand EXCEPT ![r] = None] /\ pc' = [pc EXCEPT ![r] = "off"]
        /\ Orphan(r)
    BY <1>1 DEF Kill
  <2>2. CursorOK' /\ fresh' = fresh
    BY <2>1, Orphans
  <2>3. RestOK'
    BY <1>1, <2>1 DEF Kill, Fault
  <2>4. HandsOK' /\ TakenOK'
    BY <2>1, <2>2 DEF HandsOK, TakenOK
  <2>5. QED
    BY <2>1, <2>2, <2>3, <2>4 DEF Progress
<1>2. CASE Ack(r)
  <2> DEFINE m == inHand[r]
  <2>1. /\ m # None /\ m \in shown /\ m \in Msgs /\ m \notin Within(fresh)
        /\ UNCHANGED <<sent, inHand, signalled, buffer, shown, recorded, handed>>
    BY <1>2 DEF Ack, TakenOK, HandsOK
  <2>2. /\ pc' \in [All -> Labels] /\ faults' \in 0 .. MaxFaults /\ ackTried' \subseteq All
        /\ \A q \in All : pc'[q] = pc[q] \/ (q = r /\ pc'[q] \in {"record", "failed"})
        /\ pc'[r] = "record" => Delete(m)
    <3>1. \/ pc' = [pc EXCEPT ![r] = "record"] /\ Delete(m) /\ UNCHANGED <<ackTried, faults>>
          \/ /\ pc' = [pc EXCEPT ![r] = "failed"] /\ ackTried' = ackTried \cup {r}
             /\ faults < MaxFaults /\ faults' = faults + 1
      BY <1>2 DEF Ack, Fault, AckFails
    <3>2. pc \in [All -> Labels] /\ ackTried \subseteq All /\ faults \in 0 .. MaxFaults
      OBVIOUS
    <3>3. PICK label \in {"record", "failed"} : pc' = [pc EXCEPT ![r] = label]
      BY <3>1
    <3>4. \A q \in All : pc'[q] = IF q = r THEN label ELSE pc[q]
      BY <3>2, <3>3
    <3>5. pc' \in [All -> Labels] /\ faults' \in 0 .. MaxFaults /\ ackTried' \subseteq All
      BY <3>1, <3>2
    <3>6. pc'[r] = "record" => Delete(m)
      BY <3>1, <3>4
    <3>7. QED
      BY <3>4, <3>5, <3>6
  <2>3. CASE Delete(m)
    <3>1. CursorOK' /\ fresh' = fresh
      BY <2>1, <2>3, Deletes
    <3>2. stored' = stored \ {m}
      BY <2>3 DEF Delete
    <3> HIDE DEF m
    <3>3. RestOK'
      BY <2>1, <2>2, <3>2
    <3>4. HandsOK'
      BY <2>1, <3>1 DEF HandsOK
    <3>5. TakenOK'
      BY <2>1, <2>2, <3>2 DEF TakenOK, m
    <3>6. QED
      BY <2>1, <3>1, <3>2, <3>3, <3>4, <3>5 DEF Progress
  <2>4. CASE UNCHANGED <<stored, cursor>> /\ pc'[r] # "record"
    <3>1. \A q \in All : pc'[q] \in {"ack", "record"} => pc'[q] = pc[q]
      BY <2>2, <2>4
    <3>2. QED
      BY <2>1, <2>2, <2>4, <3>1, QuietStep
  <2>5. QED
    BY <1>2, <2>2, <2>3, <2>4 DEF Ack, AckFails
<1>3. CASE LogRead(r)
  <2>1. /\ pc[r] = "record" /\ pc' = [pc EXCEPT ![r] = "next"]
        /\ recorded' = recorded \cup ({inHand[r]} \cap Envelopes) \/ UNCHANGED recorded
        /\ inHand' = [inHand EXCEPT ![r] = None] /\ faults' \in 0 .. MaxFaults
        /\ UNCHANGED <<sent, stored, cursor, signalled, ackTried, buffer, shown, handed>>
    BY <1>3 DEF LogRead, Fault
  <2>2. inHand[r] \in sent \ stored
    BY <2>1 DEF TakenOK, HandsOK
  <2>3. CursorOK' /\ Within(fresh)' = Within(fresh)
    BY <2>1, CursorStays
  <2>4. HandsOK' /\ TakenOK'
    BY <2>1, <2>3 DEF HandsOK, TakenOK
  <2>5. RestOK' /\ Progress
    <3>1. CASE UNCHANGED recorded
      BY <2>1, <3>1 DEF Progress
    <3>2. CASE recorded' = recorded \cup ({inHand[r]} \cap Envelopes)
      <4>1. recorded' = recorded \/ recorded' = recorded \cup {inHand[r]}
        BY <3>2
      <4>2. QED
        BY <2>1, <2>2, <4>1 DEF Progress
    <3>3. QED
      BY <2>1, <3>1, <3>2
  <2>6. QED
    BY <2>3, <2>4, <2>5
<1>4. CASE Topics(r)
  <2>1. /\ pc' \in [All -> Labels] /\ faults' \in 0 .. MaxFaults
        /\ \A q \in All : pc'[q] \in {"ack", "record"} => pc'[q] = pc[q]
    BY <1>4 DEF Topics, Fault
  <2>2. QED
    BY <1>4, <2>1, QuietStep DEF Topics
<1>5. CASE Close(r)
  <2>1. /\ pc' \in [All -> Labels] /\ inHand' = [inHand EXCEPT ![r] = None]
        /\ \A q \in All : pc'[q] \in {"ack", "record"} => q # r /\ pc'[q] = pc[q]
        /\ UNCHANGED <<sent, stored, buffer, shown, recorded, handed, faults>>
        /\ signalled' \subseteq signalled /\ ackTried' \subseteq ackTried
    BY <1>5 DEF Close
  <2>2. CursorOK' /\ fresh' = fresh
    <3>1. CASE inHand[r] # None /\ Nak(inHand[r])
      <4>1. inHand[r] \in Msgs /\ inHand[r] \notin Within(fresh)
        BY <3>1 DEF HandsOK
      <4>2. QED
        BY <2>1, <3>1, <4>1, PutsBack DEF Nak
    <3>2. CASE Orphan(r)
      BY <2>1, <3>2, Orphans
    <3>3. QED
      BY <1>5, <3>1, <3>2 DEF Close, returnUnacked
  <2>3. RestOK' /\ HandsOK' /\ TakenOK'
    BY <2>1, <2>2 DEF HandsOK, TakenOK
  <2>4. QED
    BY <2>1, <2>2, <2>3 DEF Progress
<1>6. CASE read(r)
  <2>1. /\ pc' \in [All -> Labels] /\ handed' \subseteq Msgs /\ buffer' \in [Tools -> SUBSET Msgs]
        /\ \A q \in All : pc'[q] \in {"ack", "record"} => pc'[q] = pc[q]
    BY <1>6 DEF read
  <2>2. QED
    BY <1>6, <2>1, QuietStep DEF read
<1>7. QED
  BY <1>1, <1>2, <1>3, <1>4, <1>5, <1>6

-----------------------------------------------------------------------------
(* The whole.                                                              *)

\* Nothing leaves unshown, and nothing recorded comes back.
LEMMA ProgressKeeps ==
    ASSUME IInv, Progress
    PROVE  ShownBeforeGone' /\ RecordedIsGone'
BY DEF IInv, RestOK, Progress, ShownBeforeGone, RecordedIsGone

\* A step that moves one message one stage is a step of the mailbox.
LEMMA OneStage ==
    ASSUME NEW m \in Msgs, NEW from, NEW to,
           Stage(m) = from, Stage(m)' = to,
           \A n \in Msgs \ {m} : Stage(n)' = Stage(n)
    PROVE  stages[m] = from /\ stages' = [stages EXCEPT ![m] = to]
BY DEF stages

\* The mailbox sees one step of one message, or none.
LEMMA ProgressIsPromised ==
    ASSUME IInv, Progress
    PROVE  [Promise!Next]_stages
<1> USE DEF IInv, RestOK, ShownBeforeGone, RecordedIsGone
<1>1. CASE UNCHANGED <<sent, stored, shown, recorded>>
  BY <1>1 DEF stages, Stage
<1>2. ASSUME NEW m \in Msgs \ sent,
             sent' = sent \cup {m}, stored' = stored \cup {m}, UNCHANGED <<shown, recorded>>
      PROVE  [Promise!Next]_stages
  <2>1. Stage(m) = "unsent" /\ Stage(m)' = "waiting"
    BY <1>2 DEF Stage
  <2>2. \A n \in Msgs \ {m} : Stage(n)' = Stage(n)
    BY <1>2 DEF Stage
  <2>3. Promise!Accept(m)
    BY <2>1, <2>2, OneStage DEF Promise!Accept, Promise!Advance
  <2>4. QED
    BY <2>3 DEF Promise!Next
<1>3. ASSUME NEW m \in sent, shown' = shown \cup {m}, UNCHANGED <<sent, stored, recorded>>
      PROVE  [Promise!Next]_stages
  <2>1. \A n \in Msgs \ {m} : Stage(n)' = Stage(n)
    BY <1>3 DEF Stage
  <2>2. CASE Stage(m)' = Stage(m)
    BY <2>1, <2>2 DEF stages
  <2>3. CASE m \in stored \ shown
    <3>1. Stage(m) = "waiting" /\ Stage(m)' = "shown"
      BY <1>3, <2>3 DEF Stage
    <3>2. Promise!Show(m)
      BY <2>1, <3>1, OneStage DEF Promise!Show, Promise!Advance
    <3>3. QED
      BY <3>2 DEF Promise!Next
  <2>4. QED
    BY <1>3, <2>2, <2>3 DEF Stage
<1>4. ASSUME NEW m \in shown, stored' = stored \ {m}, UNCHANGED <<sent, shown, recorded>>
      PROVE  [Promise!Next]_stages
  <2>1. \A n \in Msgs \ {m} : Stage(n)' = Stage(n)
    BY <1>4 DEF Stage
  <2>2. CASE Stage(m)' = Stage(m)
    BY <2>1, <2>2 DEF stages
  <2>3. CASE m \in stored
    <3>1. Stage(m) = "shown" /\ Stage(m)' = "gone"
      BY <1>4, <2>3 DEF Stage
    <3>2. Promise!Forget(m)
      BY <2>1, <3>1, OneStage DEF Promise!Forget, Promise!Advance
    <3>3. QED
      BY <3>2 DEF Promise!Next
  <2>4. QED
    BY <1>4, <2>2, <2>3 DEF Stage
<1>5. ASSUME NEW m \in sent \ stored, recorded' = recorded \cup {m},
             UNCHANGED <<sent, stored, shown>>
      PROVE  [Promise!Next]_stages
  <2>1. \A n \in Msgs \ {m} : Stage(n)' = Stage(n)
    BY <1>5 DEF Stage
  <2>2. CASE Stage(m)' = Stage(m)
    BY <2>1, <2>2 DEF stages
  <2>3. CASE m \notin recorded
    <3>1. Stage(m) = "gone" /\ Stage(m)' = "recorded"
      BY <1>5, <2>3 DEF Stage
    <3>2. Promise!Record(m)
      BY <2>1, <3>1, OneStage DEF Promise!Record, Promise!Advance
    <3>3. QED
      BY <3>2 DEF Promise!Next
  <2>4. QED
    BY <1>5, <2>2, <2>3 DEF Stage
<1>6. QED
  BY <1>1, <1>2, <1>3, <1>4, <1>5 DEF Progress

\* Every step keeps the invariant and is a step of the mailbox or none.
LEMMA InvStep == IInv /\ [Next]_vars => IInv' /\ [Promise!Next]_stages
<1> SUFFICES ASSUME IInv, [Next]_vars PROVE IInv' /\ [Promise!Next]_stages
  OBVIOUS
<1>1. RestOK' /\ CursorOK' /\ HandsOK' /\ TakenOK' /\ Progress
  <2>1. CASE \E m \in Msgs : Send(m) \/ AckWait(m)
    BY <2>1, BrokerSteps
  <2>2. CASE \E r \in All : Start(r) \/ Signal(r) \/ Kill(r) \/ Step(r)
    BY <2>2, ReadSteps, EndSteps DEF Step
  <2>3. CASE UNCHANGED vars
    <3>1. RestOK'
      BY <2>3 DEF IInv, RestOK, vars, logs
    <3>2. UNCHANGED <<sent, stored, cursor, shown, recorded, pc, inHand>>
      BY <2>3 DEF vars, logs
    <3>3. QED
      BY <3>1, <3>2, QuietStep
  <2>4. QED
    BY <2>1, <2>2, <2>3 DEF Next
<1>2. QED
  BY <1>1, ProgressKeeps, ProgressIsPromised DEF IInv

LEMMA Invariance == Spec => []IInv
BY InitOK, InvStep, PTL DEF Spec

\* The cursor, the reads and the logs keep their types, and what the cursor will
\* deliver is stored: for any messages, readers, peeks, tools and number of faults.
THEOREM TypeCorrect == Spec => []TypeOK
<1>1. IInv => TypeOK
  <2> SUFFICES ASSUME IInv PROVE TypeOK
    OBVIOUS
  <2>1. recorded \subseteq Msgs
    BY DEF IInv, RestOK
  <2>2. QED
    BY <2>1 DEF IInv, RestOK, CursorOK, TypeOK
<1>2. QED
  BY <1>1, Invariance, PTL

\* Duplicate, never loss: nothing is deleted that no reader has presented.
\* It rests on what a reader holds when it acknowledges, and on the cursor never
\* handing out as new what somebody already holds.
THEOREM NeverLost == Spec => []ShownBeforeGone
<1>1. IInv => ShownBeforeGone
  BY DEF IInv
<1>2. QED
  BY <1>1, Invariance, PTL

\* A recorded read is gone for good.
THEOREM ReadsAreTrue == Spec => []RecordedIsGone
<1>1. IInv => RecordedIsGone
  BY DEF IInv
<1>2. QED
  BY <1>1, Invariance, PTL

\* The readers of a seat together implement its mailbox.
THEOREM Implements == Spec => IsMailbox
<1>1. Init => Promise!Init
  BY DEF Init, Promise!Init, stages, Stage
<1>2. QED
  BY <1>1, Invariance, InvStep, PTL DEF Spec, IsMailbox, Promise!Spec

-----------------------------------------------------------------------------
(* What a read holds.                                                      *)

\* What is in flight to a read is in its hand, and a read that asks for the next
\* message, or is over, has none there.
InFlightInHand == \A r \in All, m \in Msgs : holder[m] = r => inHand[r] = m
EmptyHanded == \A r \in All : pc[r] \in {"off", "fetch", "next", "return", "error"} => inHand[r] = None

HInv == InFlightInHand /\ EmptyHanded

\* Fetching puts the one message in the hand of the one reader.
LEMMA FetchHolds ==
    ASSUME IInv, HInv, NEW r \in All, NextQueued(r)
    PROVE  HInv'
<1> USE ReadAssumption DEF IInv, RestOK, Labels, Goto
<1>1. PICK label \in {"heading", "drain"} : Fetch(r, label) /\ pc[r] \in {"fetch", "next"}
  BY DEF NextQueued
<1>2. inHand[r] = None /\ holder \in [Msgs -> All \cup {None, Nobody}] /\ None \notin Msgs
  BY <1>1 DEF HInv, EmptyHanded, CursorOK
<1>3. CASE DeliverTo(r) /\ inHand' = [inHand EXCEPT ![r] = Head(Waiting)]
           /\ pc' = [pc EXCEPT ![r] = label]
  <2>1. Head(Waiting) \in Msgs
    <3>1. Head(Waiting) \in stored
      BY <1>3, Delivers DEF NextQueued
    <3>2. QED
      BY <3>1
  <2>2. holder' = [holder EXCEPT ![Head(Waiting)] = r]
    BY <1>3 DEF DeliverTo
  <2>3. InFlightInHand'
    BY <1>2, <1>3, <2>1, <2>2 DEF HInv, InFlightInHand
  <2>4. EmptyHanded'
    BY <1>3 DEF HInv, EmptyHanded
  <2>5. QED
    BY <2>3, <2>4 DEF HInv
<1>4. CASE UNCHANGED inHand
  <2>1. \A m \in Msgs : holder'[m] = holder[m] \/ holder'[m] = Nobody
    BY <1>1, <1>2, <1>4 DEF Fetch, DeliverTo, cursor
  <2>2. InFlightInHand'
    BY <1>4, <2>1, ReadAssumption DEF HInv, InFlightInHand
  <2>3. EmptyHanded'
    BY <1>1, <1>4 DEF Fetch, HInv, EmptyHanded
  <2>4. QED
    BY <2>2, <2>3 DEF HInv
<1>5. QED
  BY <1>1, <1>3, <1>4 DEF Fetch

\* Every other step takes messages out of hands only together with the flight.
LEMMA HoldStep == IInv /\ HInv /\ [Next]_vars => HInv'
<1> SUFFICES ASSUME IInv, HInv, [Next]_vars PROVE HInv'
  OBVIOUS
<1> USE ReadAssumption DEF IInv, RestOK, CursorOK, Labels, Move, Goto
<1>1. ASSUME NEW m \in Msgs, Send(m) \/ AckWait(m) PROVE HInv'
  <2>1. pc' = pc /\ inHand' = inHand /\ \A n \in Msgs : holder'[n] = holder[n] \/ holder'[n] = None
    BY <1>1 DEF Send, AckWait
  <2>2. QED
    BY <2>1 DEF HInv, InFlightInHand, EmptyHanded
<1>2. ASSUME NEW r \in All, Start(r) \/ Signal(r) \/ readMode(r) \/ drain(r) \/ Topics(r) \/ read(r)
      PROVE  HInv'
  <2>1. inHand' = inHand /\ holder' = holder
    BY <1>2 DEF Start, Signal, readMode, drain, Topics, read, cursor
  <2>2. \A q \in All : \/ pc'[q] = pc[q]
                      \/ pc'[q] \notin {"off", "fetch", "next", "return", "error"}
                      \/ pc[q] \in {"off", "return", "error"}
    BY <1>2 DEF Start, Signal, readMode, drain, WriteFails, Topics, read
  <2>3. QED
    BY <2>1, <2>2 DEF HInv, InFlightInHand, EmptyHanded
<1>3. ASSUME NEW r \in All, NextQueued(r) PROVE HInv'
  BY <1>3, FetchHolds
<1>4. ASSUME NEW r \in All, Ack(r) PROVE HInv'
  <2>1. inHand' = inHand /\ \A m \in Msgs : holder'[m] = holder[m] \/ holder'[m] = None
    BY <1>4 DEF Ack, Delete, cursor
  <2>2. \A q \in All : pc'[q] = pc[q] \/ pc'[q] \in {"record", "failed"}
    BY <1>4 DEF Ack, AckFails
  <2>3. QED
    BY <2>1, <2>2 DEF HInv, InFlightInHand, EmptyHanded
<1>5. ASSUME NEW r \in All, LogRead(r) PROVE HInv'
  <2>1. /\ holder' = holder /\ inHand' = [inHand EXCEPT ![r] = None]
        /\ pc[r] = "record" /\ pc' = [pc EXCEPT ![r] = "next"]
    BY <1>5 DEF LogRead, cursor
  <2>2. \A m \in Msgs : inHand[r] = m => holder[m] # r
    BY <2>1 DEF TakenOK, All
  <2>3. QED
    BY <2>1, <2>2 DEF HInv, InFlightInHand, EmptyHanded
<1>6. ASSUME NEW r \in All, Kill(r) \/ Close(r) PROVE HInv'
  <2>1. /\ inHand' = [inHand EXCEPT ![r] = None]
        /\ \A q \in All \ {r} : pc'[q] = pc[q]
    BY <1>6 DEF Kill, Close
  <2>2. CASE Orphan(r)
    <3>1. \A m \in Msgs : holder'[m] = IF holder[m] = r THEN Nobody ELSE holder[m]
      BY <2>2 DEF Orphan
    <3>2. QED
      BY <2>1, <3>1 DEF HInv, InFlightInHand, EmptyHanded
  <2>3. CASE inHand[r] # None /\ Nak(inHand[r])
    <3>1. holder' = [holder EXCEPT ![inHand[r]] = None]
      BY <2>3 DEF Nak
    <3>2. QED
      BY <2>1, <2>3, <3>1 DEF HInv, InFlightInHand, EmptyHanded, All
  <2>4. QED
    BY <1>6, <2>2, <2>3 DEF Kill, Close, returnUnacked
<1>7. CASE UNCHANGED vars
  BY <1>7 DEF vars, cursor, HInv, InFlightInHand, EmptyHanded
<1>8. QED
  BY <1>1, <1>2, <1>3, <1>4, <1>5, <1>6, <1>7 DEF Next, Step

\* A read that ends undisturbed gives back what it holds, if its acknowledgement did
\* not go unanswered: what is in flight to it is the message in its hand, and there
\* is none besides.
THEOREM EndsEmptyHanded == Spec => EndedHoldsNothing
<1>1. Init => HInv
  BY ReadAssumption DEF Init, HInv, InFlightInHand, EmptyHanded, All
<1>2. IInv /\ HInv /\ [Next]_vars
      => [\A r \in All, m \in Msgs :
             pc[r] \in {"close", "failed"} /\ pc'[r] # pc[r] /\ faults' = faults
                 /\ r \notin ackTried /\ holder[m] = r
               => holder'[m] = None]_vars
  <2> SUFFICES ASSUME IInv, HInv, Next, NEW r \in All, NEW m \in Msgs,
                      pc[r] \in {"close", "failed"}, pc'[r] # pc[r], faults' = faults,
                      r \notin ackTried, holder[m] = r
               PROVE  holder'[m] = None
    OBVIOUS
  <2> USE ReadAssumption DEF IInv, RestOK, CursorOK, Move, Goto
  <2>1. inHand[r] = m /\ m # None
    BY DEF HInv, InFlightInHand
  <2>2. ~ \E n \in Msgs : Send(n) \/ AckWait(n)
    BY DEF Send, AckWait
  <2>3. PICK q \in All : Start(q) \/ Signal(q) \/ Kill(q) \/ Step(q)
    BY <2>2 DEF Next
  <2>4. ~Kill(q) /\ ~Signal(q)
    BY DEF Kill, Signal, Fault
  <2>5. Close(r)
    BY <2>3, <2>4 DEF Start, Step, NextQueued, Fetch, readMode, drain, Ack, LogRead, Topics,
                      Close, read
  <2>6. Nak(m)
    BY <2>1, <2>5 DEF Close, returnUnacked
  <2>7. QED
    BY <2>6 DEF Nak
<1>3. QED
  BY <1>1, <1>2, HoldStep, Invariance, PTL DEF Spec, EndedHoldsNothing
=============================================================================
