------------------------ MODULE TraceChainProofs ------------------------
(***************************************************************************)
(* Theorems about TraceChain, for any number of writers, spans, restarts,  *)
(* failed puts and altered spans: no link of the chain dangles, and with   *)
(* writers that take turns and a steady clock the audit is exact about     *)
(* what the spans say.                                                     *)
(***************************************************************************)
EXTENDS TraceChain, TLAPS

\* Every value a step can give head, span and wal has its type.
LEMMA NoSpanType == NoSpan \in Span
  BY PayloadsAssumption DEF NoSpan, Span, Dates, Stamps, Hashes, Genesis

LEMMA HashType == ASSUME NEW p \in Payloads, NEW h \in Hashes PROVE Hash(p, h) \in Hashes
  BY DEF Hash, Hashes

\* SHA-256 as it is abstracted here: a hash determines its payload and the
\* hash before it.
LEMMA HashInjective ==
  ASSUME NEW p \in Payloads, NEW q \in Payloads, NEW h \in Hashes, Hash(p, h) = Hash(q, h)
  PROVE  p = q
  BY DEF Hash, Hashes

LEMMA KnownType ==
  ASSUME NEW log \in Seq(Span), NEW h \in Known(log, Len(log))
  PROVE  h \in Hashes
  <1>1. CASE h = Genesis
    BY <1>1 DEF Hashes, Genesis
  <1>2. CASE \E j \in 1..Len(log) : h = log[j].hash
    <2>1. PICK j \in 1..Len(log) : h = log[j].hash
      BY <1>2
    <2>2. log[j] \in Span
      OBVIOUS
    <2>3. QED BY <2>1, <2>2 DEF Span
  <1>3. QED BY <1>1, <1>2 DEF Known

LEMMA LastHashType ==
  ASSUME NEW log \in Seq(Span), NEW h \in LastHash(log, DOMAIN log)
  PROVE  h \in Hashes /\ h \in Known(log, Len(log))
  <1>1. CASE log = <<>>
    BY <1>1 DEF LastHash, Hashes, Genesis, Known
  <1>2. CASE log # <<>>
    <2>1. PICK j \in 1..Len(log) : h = log[j].hash
      BY <1>2 DEF LastHash, Last
    <2>2. log[j] \in Span
      OBVIOUS
    <2>3. h \in Hashes
      BY <2>1, <2>2 DEF Span
    <2>4. QED BY <2>1, <2>3 DEF Known
  <1>3. QED BY <1>1, <1>2

\* A field of a stored span is altered: its key, its hash and the other spans
\* stay.
LEMMA SpanChangedKeeps ==
  ASSUME TypeOK, SpanChanged
  PROVE  /\ wal' \in Seq(Span) /\ Len(wal') = Len(wal)
         /\ \A j \in DOMAIN wal : wal'[j].hash = wal[j].hash /\ wal'[j].time = wal[j].time
  <1>1. PICK i \in DOMAIN wal :
           \/ \E p \in Payloads : wal' = [wal EXCEPT ![i].payload = p]
           \/ \E d \in Dates : wal' = [wal EXCEPT ![i].timestamp = d]
           \/ \E h \in Known(wal, Len(wal)) : wal' = [wal EXCEPT ![i].parent = h]
    BY DEF SpanChanged
  <1>2. wal \in Seq(Span) /\ wal[i] \in Span
    BY DEF TypeOK
  <1>3. PICK new \in Span : /\ wal' = [wal EXCEPT ![i] = new]
                            /\ new.hash = wal[i].hash /\ new.time = wal[i].time
    <2>1. ASSUME NEW p \in Payloads, wal' = [wal EXCEPT ![i].payload = p]
          PROVE  \E new \in Span : /\ wal' = [wal EXCEPT ![i] = new]
                                   /\ new.hash = wal[i].hash /\ new.time = wal[i].time
      <3>1. [wal[i] EXCEPT !.payload = p] \in Span
        BY <1>2 DEF Span
      <3>2. QED BY <1>2, <2>1, <3>1 DEF Span
    <2>2. ASSUME NEW d \in Dates, wal' = [wal EXCEPT ![i].timestamp = d]
          PROVE  \E new \in Span : /\ wal' = [wal EXCEPT ![i] = new]
                                   /\ new.hash = wal[i].hash /\ new.time = wal[i].time
      <3>1. [wal[i] EXCEPT !.timestamp = d] \in Span
        BY <1>2 DEF Span
      <3>2. QED BY <1>2, <2>2, <3>1 DEF Span
    <2>3. ASSUME NEW h \in Known(wal, Len(wal)), wal' = [wal EXCEPT ![i].parent = h]
          PROVE  \E new \in Span : /\ wal' = [wal EXCEPT ![i] = new]
                                   /\ new.hash = wal[i].hash /\ new.time = wal[i].time
      <3>1. h \in Hashes
        BY <1>2, KnownType
      <3>2. [wal[i] EXCEPT !.parent = h] \in Span
        BY <1>2, <3>1 DEF Span
      <3>3. QED BY <1>2, <2>3, <3>2 DEF Span
    <2>4. QED BY <1>1, <2>1, <2>2, <2>3
  <1>4. QED BY <1>2, <1>3

-------------------------------------------------------------------------

LEMMA TypeInit == Init => TypeOK
  <1> SUFFICES ASSUME Init PROVE TypeOK
    OBVIOUS
  <1>1. overlapped \in BOOLEAN
    BY Zenon DEF Init
  <1>2. span \in [Writers -> Span] /\ pc \in [Writers -> Steps]
    BY NoSpanType DEF Init, Steps
  <1>3. head \in Hashes /\ wal \in Seq(Span) /\ logged \in Seq(Span) /\ Len(logged) = Len(wal)
        /\ durable \in 0..Len(wal) /\ clock \in Int
    BY DEF Init, Hashes, Genesis
  <1>4. restarts \in Nat /\ failures \in Nat /\ stepBacks \in Nat /\ changes \in Nat
    BY DEF Init
  <1>5. QED BY <1>1, <1>2, <1>3, <1>4 DEF TypeOK

LEMMA TypeNext == TypeOK /\ [Next]_vars => TypeOK'
  <1> SUFFICES ASSUME TypeOK, [Next]_vars PROVE TypeOK'
    OBVIOUS
  <1> USE DEF TypeOK
  <1>1. ASSUME NEW w \in Writers, HashPayload(w) PROVE TypeOK'
    <2>1. PICK p \in Payloads : span' = [span EXCEPT ![w].payload = p, ![w].hash = Hash(p, head)]
      BY <1>1 DEF HashPayload
    <2>2. Hash(p, head) \in Hashes
      BY HashType
    <2>3. span' \in [Writers -> Span]
      BY <2>1, <2>2 DEF Span
    <2>4. QED BY <1>1, <2>3 DEF HashPayload, Go, Steps, storeVars, faultVars
  <1>2. ASSUME NEW w \in Writers, LinkParent(w) PROVE TypeOK'
    <2>1. span' \in [Writers -> Span]
      BY <1>2 DEF LinkParent, Span
    <2>2. QED BY <1>2, <2>1 DEF LinkParent, Go, Steps, storeVars, faultVars
  <1>3. ASSUME NEW w \in Writers, Stamp(w) PROVE TypeOK'
    <2>1. <<clock + 1, stepBacks>> \in Stamps
      BY DEF Stamps
    <2>2. span' \in [Writers -> Span]
      BY <1>3, <2>1 DEF Stamp, Span
    <2>3. QED BY <1>3, <2>2 DEF Stamp, Go, Steps, storeVars, faultVars
  <1>4. ASSUME NEW w \in Writers, PutSpan(w) PROVE TypeOK'
    BY <1>4 DEF PutSpan, Go, Steps, Span, faultVars
  <1>5. ASSUME NEW w \in Writers, AdvanceHead(w) PROVE TypeOK'
    BY <1>5, NoSpanType DEF AdvanceHead, Go, Steps, Span, storeVars, faultVars
  <1>6. ASSUME NEW w \in Writers, PutFails(w) PROVE TypeOK'
    BY <1>6, NoSpanType DEF PutFails, Go, Steps, storeVars
  <1>7. ASSUME Reload PROVE TypeOK'
    <2>1. PICK n \in durable..Len(wal) : /\ wal' = SubSeq(wal, 1, n)
                                        /\ logged' = SubSeq(logged, 1, n)
                                        /\ durable' = n
      BY <1>7 DEF Reload
    <2>2. wal' \in Seq(Span) /\ logged' \in Seq(Span) /\ Len(logged') = Len(wal') /\ Len(wal') = n
      BY <2>1
    <2>3. head' \in Hashes
      BY <1>7, <2>2, LastHashType DEF Reload
    <2>4. QED BY <1>7, <2>1, <2>2, <2>3, NoSpanType DEF Reload, Steps
  <1>8. ASSUME ClockSetBack PROVE TypeOK'
    BY <1>8 DEF ClockSetBack, chainVars, storeVars
  <1>9. ASSUME SpanChanged PROVE TypeOK'
    <2>1. wal' \in Seq(Span) /\ Len(wal') = Len(wal)
      BY <1>9, SpanChangedKeeps
    <2>2. QED BY <1>9, <2>1 DEF SpanChanged, chainVars
  <1>10. ASSUME UNCHANGED vars PROVE TypeOK'
    BY <1>10 DEF vars, chainVars, storeVars, faultVars
  <1>11. QED
    BY <1>1, <1>2, <1>3, <1>4, <1>5, <1>6, <1>7, <1>8, <1>9, <1>10 DEF Next, LogSpan

\* Type correctness, for every value of the constants.
THEOREM TypeInvariant == Spec => []TypeOK
  <1>1. QED BY TypeInit, TypeNext, PTL DEF Spec

-------------------------------------------------------------------------

\* Two logs that agree on the hashes of their first n spans know the same.
LEMMA KnownSame ==
  ASSUME NEW log, NEW new, NEW n \in Nat, \A j \in 1..n : new[j].hash = log[j].hash
  PROVE  Known(new, n) = Known(log, n)
  BY DEF Known

LEMMA KnownGrows ==
  ASSUME NEW log, NEW m \in Nat, NEW n \in Nat, m <= n
  PROVE  Known(log, m) \subseteq Known(log, n)
  BY DEF Known

\* What the steps that leave the store alone keep.
LEMMA LinksKept ==
  ASSUME LinksResolve, UNCHANGED <<wal, logged>>
  PROVE  LinksResolve'
  BY DEF LinksResolve, Known

\* The links in memory and in the store, whose types TypeOK gives.
LinkState == HeadKnown /\ SpansKnown /\ LinksResolve

LEMMA LinkNext == TypeOK /\ TypeOK' /\ LinkState /\ [Next]_vars => LinkState'
  <1> SUFFICES ASSUME TypeOK, TypeOK', HeadKnown, SpansKnown, LinksResolve, [Next]_vars
               PROVE  HeadKnown' /\ SpansKnown' /\ LinksResolve'
    BY DEF LinkState
  <1>t. pc \in [Writers -> Steps] /\ span \in [Writers -> Span] /\ wal \in Seq(Span)
    BY DEF TypeOK
  <1>1. ASSUME NEW w \in Writers, HashPayload(w) PROVE HeadKnown' /\ SpansKnown' /\ LinksResolve'
    <2>1. UNCHANGED <<wal, logged, head>>
      BY <1>1 DEF HashPayload, storeVars
    <2>2. PICK p \in Payloads : span' = [span EXCEPT ![w].payload = p, ![w].hash = Hash(p, head)]
      BY <1>1 DEF HashPayload
    <2>3. HeadKnown'
      BY <2>1 DEF HeadKnown, Known
    <2>4. pc' = [pc EXCEPT ![w] = "hashed"]
      BY <1>1 DEF HashPayload, Go
    <2>5. span'[w].hash = Hash(span'[w].payload, head)
      BY <2>2 DEF TypeOK, Span
    <2>6. SpansKnown'
      <3>1. Known(wal', Len(wal')) = Known(wal, Len(wal))
        BY <2>1
      <3>2. span'[w].hash = Hash(span'[w].payload, head) /\ pc'[w] = "hashed"
        BY <2>4, <2>5 DEF TypeOK
      <3>3. \A v \in Writers : v # w => span'[v] = span[v] /\ pc'[v] = pc[v]
        BY <2>2, <2>4 DEF TypeOK
      <3>4. QED BY <3>1, <3>2, <3>3 DEF SpansKnown, HeadKnown
    <2>7. QED BY <2>1, <2>3, <2>6, LinksKept
  <1>2. ASSUME NEW w \in Writers, LinkParent(w) PROVE HeadKnown' /\ SpansKnown' /\ LinksResolve'
    <2>1. UNCHANGED <<wal, logged, head>>
      BY <1>2 DEF LinkParent, storeVars
    <2>2. /\ span' = [span EXCEPT ![w].parent = head]
          /\ pc' = [pc EXCEPT ![w] = "linked"] /\ pc[w] = "hashed"
      BY <1>2 DEF LinkParent, Go
    <2>3. /\ span'[w].parent = head
          /\ span'[w].hash = span[w].hash /\ span'[w].payload = span[w].payload
      BY <2>2 DEF TypeOK, Span
    <2>4. HeadKnown' /\ SpansKnown'
      <3>1. Known(wal', Len(wal')) = Known(wal, Len(wal))
        BY <2>1
      <3>2. pc'[w] = "linked" /\ pc[w] = "hashed"
        BY <2>2 DEF TypeOK
      <3>3. \A v \in Writers : v # w => span'[v] = span[v] /\ pc'[v] = pc[v]
        BY <2>2 DEF TypeOK
      <3>4. QED BY <2>1, <2>3, <3>1, <3>2, <3>3 DEF SpansKnown, HeadKnown
    <2>5. QED BY <2>1, <2>4, LinksKept
  <1>3. ASSUME NEW w \in Writers, Stamp(w) PROVE HeadKnown' /\ SpansKnown' /\ LinksResolve'
    <2>1. UNCHANGED <<wal, logged, head>>
      BY <1>3 DEF Stamp, storeVars
    <2>2. /\ span' = [span EXCEPT ![w].time = <<clock + 1, stepBacks>>]
          /\ pc' = [pc EXCEPT ![w] = "stamped"] /\ pc[w] = "linked"
      BY <1>3 DEF Stamp, Go
    <2>3. /\ span'[w].parent = span[w].parent
          /\ span'[w].hash = span[w].hash /\ span'[w].payload = span[w].payload
      BY <2>2 DEF TypeOK, Span
    <2>4. HeadKnown' /\ SpansKnown'
      <3>1. Known(wal', Len(wal')) = Known(wal, Len(wal))
        BY <2>1
      <3>2. pc'[w] = "stamped" /\ pc[w] = "linked"
        BY <2>2 DEF TypeOK
      <3>3. \A v \in Writers : v # w => span'[v] = span[v] /\ pc'[v] = pc[v]
        BY <2>2 DEF TypeOK
      <3>4. QED BY <2>1, <2>3, <3>1, <3>2, <3>3 DEF SpansKnown, HeadKnown
    <2>5. QED BY <2>1, <2>4, LinksKept
  <1>4. ASSUME NEW w \in Writers, PutSpan(w) PROVE HeadKnown' /\ SpansKnown' /\ LinksResolve'
    <2>1. /\ wal' = Append(wal, span[w]) /\ logged' = Append(logged, span[w])
          /\ UNCHANGED <<head, span>>
          /\ pc[w] = "stamped" /\ pc' = [pc EXCEPT ![w] = "stored"]
      BY <1>4 DEF PutSpan, Go
    <2>2. /\ Len(wal') = Len(wal) + 1 /\ wal'[Len(wal) + 1] = span[w]
          /\ logged'[Len(wal) + 1] = span[w]
          /\ \A j \in 1..Len(wal) : wal'[j] = wal[j] /\ logged'[j] = logged[j]
      BY <2>1 DEF TypeOK
    <2>3. ASSUME NEW n \in 0..Len(wal) PROVE Known(wal', n) = Known(wal, n)
      BY <2>2, KnownSame
    <2>4. Known(wal, Len(wal)) \subseteq Known(wal', Len(wal'))
      <3>1. Len(wal) \in Nat /\ Len(wal) \in 0..Len(wal)
        BY DEF TypeOK
      <3>2. Known(wal', Len(wal)) \subseteq Known(wal', Len(wal) + 1)
        BY <3>1, KnownGrows
      <3>3. QED BY <2>2, <2>3, <3>1, <3>2
    <2>5. span[w].hash \in Known(wal', Len(wal'))
      BY <1>t, <2>2 DEF Known
    <2>6. HeadKnown' /\ SpansKnown'
      BY <2>1, <2>4, <2>5 DEF HeadKnown, SpansKnown, TypeOK
    <2>7. ASSUME NEW i \in 1..Len(wal)
          PROVE  /\ logged'[i].parent \in Known(wal', i - 1)
                 /\ \E h \in Known(wal', i - 1) : wal'[i].hash = Hash(logged'[i].payload, h)
      <3>1. i \in DOMAIN wal /\ i - 1 \in 0..Len(wal)
        BY DEF TypeOK
      <3>2. Known(wal', i - 1) = Known(wal, i - 1)
        BY <2>3, <3>1
      <3>3. QED BY <2>2, <3>1, <3>2 DEF LinksResolve
    <2>8. /\ logged'[Len(wal) + 1].parent \in Known(wal', Len(wal))
          /\ \E h \in Known(wal', Len(wal)) :
                 wal'[Len(wal) + 1].hash = Hash(logged'[Len(wal) + 1].payload, h)
      <3>1. Known(wal', Len(wal)) = Known(wal, Len(wal))
        BY <2>3 DEF TypeOK
      <3>2. QED BY <2>1, <2>2, <3>1 DEF SpansKnown
    <2>9. LinksResolve'
      <3>1. DOMAIN wal' = 1..(Len(wal) + 1) /\ Len(wal) \in Nat
        BY <2>2 DEF TypeOK
      <3>2. SUFFICES ASSUME NEW i \in 1..(Len(wal) + 1)
                     PROVE  /\ logged'[i].parent \in Known(wal', i - 1)
                            /\ \E h \in Known(wal', i - 1) : wal'[i].hash = Hash(logged'[i].payload, h)
        BY <3>1 DEF LinksResolve
      <3>3. CASE i \in 1..Len(wal)
        BY <3>3, <2>7
      <3>4. CASE i = Len(wal) + 1
        <4>1. i - 1 = Len(wal)
          BY <3>1, <3>4
        <4>2. QED BY <4>1, <3>4, <2>8
      <3>5. QED BY <3>1, <3>3, <3>4
    <2>10. QED BY <2>6, <2>9
  <1>5. ASSUME NEW w \in Writers, AdvanceHead(w) PROVE HeadKnown' /\ SpansKnown' /\ LinksResolve'
    <2>1. /\ UNCHANGED <<wal, logged>>
          /\ head' = span[w].hash /\ span' = [span EXCEPT ![w] = NoSpan]
          /\ pc[w] = "stored" /\ pc' = [pc EXCEPT ![w] = "idle"]
      BY <1>5 DEF AdvanceHead, Go, storeVars
    <2>2. HeadKnown' /\ SpansKnown'
      BY <2>1 DEF HeadKnown, SpansKnown, Known, TypeOK
    <2>3. QED BY <2>1, <2>2, LinksKept
  <1>6. ASSUME NEW w \in Writers, PutFails(w) PROVE HeadKnown' /\ SpansKnown' /\ LinksResolve'
    <2>1. /\ UNCHANGED <<wal, logged, head>>
          /\ span' = [span EXCEPT ![w] = NoSpan] /\ pc' = [pc EXCEPT ![w] = "idle"]
      BY <1>6 DEF PutFails, Go, storeVars
    <2>2. HeadKnown' /\ SpansKnown'
      BY <1>t, <2>1 DEF HeadKnown, SpansKnown, Known
    <2>3. QED BY <2>1, <2>2, LinksKept
  <1>7. ASSUME Reload PROVE HeadKnown' /\ SpansKnown' /\ LinksResolve'
    <2>1. PICK n \in durable..Len(wal) : wal' = SubSeq(wal, 1, n) /\ logged' = SubSeq(logged, 1, n)
      BY <1>7 DEF Reload
    <2>2. /\ Len(wal') = n /\ n \in Nat /\ n <= Len(wal)
          /\ \A j \in 1..n : wal'[j] = wal[j] /\ logged'[j] = logged[j]
      BY <2>1 DEF TypeOK
    <2>3. ASSUME NEW m \in 0..n PROVE Known(wal', m) = Known(wal, m)
      BY <2>2, KnownSame
    <2>4. HeadKnown'
      BY <1>7, LastHashType DEF Reload, HeadKnown, TypeOK
    <2>5. SpansKnown'
      BY <1>7 DEF Reload, SpansKnown
    <2>6. LinksResolve'
      <3>1. DOMAIN wal' = 1..n /\ 1..n \subseteq DOMAIN wal
        BY <2>2 DEF TypeOK
      <3>2. ASSUME NEW i \in 1..n PROVE Known(wal', i - 1) = Known(wal, i - 1)
        BY <2>2, <2>3
      <3>3. QED BY <2>2, <3>1, <3>2 DEF LinksResolve
    <2>7. QED BY <2>4, <2>5, <2>6
  <1>8. ASSUME ClockSetBack PROVE HeadKnown' /\ SpansKnown' /\ LinksResolve'
    BY <1>8, LinksKept DEF ClockSetBack, chainVars, storeVars, HeadKnown, SpansKnown, Known
  <1>9. ASSUME SpanChanged PROVE HeadKnown' /\ SpansKnown' /\ LinksResolve'
    <2>2. UNCHANGED <<logged, head, pc, span>>
      BY <1>9 DEF SpanChanged, chainVars
    <2>3. /\ Len(wal') = Len(wal) /\ wal' \in Seq(Span)
          /\ \A j \in 1..Len(wal) : wal'[j].hash = wal[j].hash
      <3>1. /\ Len(wal') = Len(wal) /\ wal' \in Seq(Span)
            /\ \A j \in DOMAIN wal : wal'[j].hash = wal[j].hash
        BY <1>9, SpanChangedKeeps
      <3>2. DOMAIN wal = 1..Len(wal)
        BY DEF TypeOK
      <3>3. QED BY <3>1, <3>2
    <2>4. ASSUME NEW m \in 0..Len(wal) PROVE Known(wal', m) = Known(wal, m)
      BY <2>3, KnownSame
    <2>5. HeadKnown' /\ SpansKnown'
      BY <2>2, <2>3, <2>4 DEF HeadKnown, SpansKnown, TypeOK
    <2>6. LinksResolve'
      <3>1. DOMAIN wal' = 1..Len(wal) /\ DOMAIN wal = 1..Len(wal) /\ Len(wal) \in Nat
        BY <2>3 DEF TypeOK
      <3>2. ASSUME NEW j \in 1..Len(wal) PROVE Known(wal', j - 1) = Known(wal, j - 1)
        BY <2>4, <3>1
      <3>3. QED BY <2>2, <2>3, <3>1, <3>2 DEF LinksResolve
    <2>7. QED BY <2>5, <2>6
  <1>10. ASSUME UNCHANGED vars PROVE HeadKnown' /\ SpansKnown' /\ LinksResolve'
    BY <1>10, LinksKept DEF vars, chainVars, storeVars, HeadKnown, SpansKnown, Known
  <1>11. QED
    BY <1>1, <1>2, <1>3, <1>4, <1>5, <1>6, <1>7, <1>8, <1>9, <1>10 DEF Next, LogSpan

LEMMA LinkInit == Init => LinkState
  BY DEF Init, LinkState, HeadKnown, SpansKnown, LinksResolve, Known

\* Nothing in memory links to a span the store does not have.
THEOREM LinkInvariant == Spec => []LinkInv
  <1>1. TypeOK /\ LinkState => LinkInv
    BY DEF LinkState, LinkInv
  <1>2. QED BY <1>1, TypeInit, TypeNext, LinkInit, LinkNext, PTL DEF Spec

\* No link of the stored chain dangles, for any number of unlocked writers.
THEOREM LinksAlwaysResolve == Spec => []LinksResolve
  <1>1. LinkState => LinksResolve
    BY DEF LinkState
  <1>2. QED BY <1>1, TypeInit, TypeNext, LinkInit, LinkNext, PTL DEF Spec

-------------------------------------------------------------------------
(* Writers that take turns, and a clock that is never set back. *)

LEMMA TimeType ==
  ASSUME TypeOK, NEW i \in DOMAIN wal
  PROVE  wal[i].time[1] \in Int /\ wal[i].time[2] \in Int
  <1>1. wal[i] \in Span
    BY DEF TypeOK
  <1>2. wal[i].time \in Int \X Nat
    BY <1>1 DEF Span, Stamps
  <1>3. QED BY <1>2

\* In a log whose keys follow the order of its puts, the span listed before
\* number i is number i - 1, so the audit compares payloads and nothing else.
LEMMA InOrderExact == TypeOK /\ InOrder => (Verify(wal) <=> SaysAsLogged)
  <1> SUFFICES ASSUME TypeOK, InOrder PROVE Verify(wal) <=> SaysAsLogged
    OBVIOUS
  <1>1. DOMAIN wal = 1..Len(wal) /\ Len(wal) \in Nat
    BY DEF TypeOK
  <1>2. ASSUME NEW i \in DOMAIN wal, NEW j \in DOMAIN wal PROVE Earlier(wal[i], wal[j]) <=> i < j
    <2>1. wal[i].time[1] \in Int /\ wal[j].time[1] \in Int
      BY TimeType
    <2>2. i < j => wal[i].time[1] < wal[j].time[1]
      BY DEF InOrder
    <2>3. j < i => wal[j].time[1] < wal[i].time[1]
      BY DEF InOrder
    <2>4. i = j => wal[i].time = wal[j].time
      OBVIOUS
    <2>5. wal[i].time[2] \in Int /\ wal[j].time[2] \in Int
      BY TimeType
    <2>6. QED BY <1>1, <2>1, <2>2, <2>3, <2>4, <2>5 DEF Earlier
  <1>3. ASSUME NEW i \in DOMAIN wal PROVE LastHash(wal, Before(wal, i)) = {HashAt(wal, i - 1)}
    <2>1. Before(wal, i) = 1..(i - 1)
      BY <1>1, <1>2 DEF Before
    <2>2. CASE i = 1
      BY <2>1, <2>2 DEF LastHash, HashAt
    <2>3. CASE i # 1
      <3>1. i - 1 \in 1..(i - 1) /\ i - 1 \in DOMAIN wal /\ 1..(i - 1) \subseteq DOMAIN wal
        BY <1>1, <2>3
      <3>2. Last(wal, 1..(i - 1)) = {i - 1}
        BY <1>1, <1>2, <3>1 DEF Last
      <3>3. QED BY <1>1, <2>1, <2>3, <3>1, <3>2 DEF LastHash, HashAt
    <2>4. QED BY <2>2, <2>3
  <1>4. ASSUME NEW i \in DOMAIN wal
        PROVE  wal[i].hash = Hash(wal[i].payload, HashAt(wal, i - 1)) <=> wal[i].payload = logged[i].payload
    <2>1. HashAt(wal, i - 1) \in Hashes
      <3>1. CASE i = 1
        BY <3>1 DEF HashAt, Hashes, Genesis
      <3>2. CASE i # 1
        <4>1. i - 1 \in DOMAIN wal /\ i - 1 # 0
          BY <1>1, <3>2
        <4>2. wal[i - 1] \in Span
          BY <4>1 DEF TypeOK
        <4>3. QED BY <4>1, <4>2 DEF HashAt, Span
      <3>3. QED BY <3>1, <3>2
    <2>2. wal[i] \in Span /\ logged[i] \in Span
      BY DEF TypeOK
    <2>3. wal[i].payload \in Payloads /\ logged[i].payload \in Payloads
      BY <2>2 DEF Span
    <2>4. wal[i].hash = Hash(logged[i].payload, HashAt(wal, i - 1))
      BY DEF InOrder
    <2>5. QED BY <2>1, <2>2, <2>3, <2>4, HashInjective
  <1>5. Verify(wal) <=> \A i \in DOMAIN wal : wal[i].payload = logged[i].payload
    BY <1>3, <1>4 DEF Verify
  <1>6. QED BY <1>5 DEF SaysAsLogged

\* The order of the log and the writer's place in it survive a step that
\* leaves the store alone.
LEMMA OrderKept ==
  ASSUME TypeOK, InOrder, UNCHANGED <<wal, logged>>, clock' \in Int, clock <= clock'
  PROVE  InOrder'
  <1>1. clock \in Int
    BY DEF TypeOK
  <1>2. \A i \in DOMAIN wal' : wal'[i].time[1] <= clock'
    BY <1>1, TimeType DEF InOrder
  <1>3. QED BY <1>2 DEF InOrder, HashAt

\* Writers that have overlapped have overlapped for ever, and so the clock.
LEMMA OrderlyBefore ==
  ASSUME TypeOK, [Next]_vars, Orderly'
  PROVE  Orderly /\ ~ClockSetBack
  <1>t. stepBacks \in Nat
    BY DEF TypeOK
  <1>1. ASSUME NEW w \in Writers, LogSpan(w)
        PROVE  stepBacks' = stepBacks /\ (overlapped => overlapped')
    <2>1. CASE HashPayload(w)
      BY <2>1 DEF HashPayload, faultVars
    <2>2. CASE LinkParent(w) \/ Stamp(w) \/ PutSpan(w) \/ AdvanceHead(w)
      BY <2>2 DEF LinkParent, Stamp, PutSpan, AdvanceHead, faultVars
    <2>3. CASE PutFails(w)
      BY <2>3 DEF PutFails
    <2>4. QED BY <1>1, <2>1, <2>2, <2>3 DEF LogSpan
  <1>2. ASSUME Reload \/ SpanChanged \/ UNCHANGED vars
        PROVE  stepBacks' = stepBacks /\ (overlapped => overlapped')
    BY <1>2 DEF Reload, SpanChanged, vars, chainVars, faultVars
  <1>3. ~ClockSetBack
    BY <1>t DEF ClockSetBack, Orderly
  <1>4. QED BY <1>1, <1>2, <1>3 DEF Next, Orderly

LEMMA OrderNext == TypeOK /\ TypeOK' /\ OrderInv /\ [Next]_vars => OrderInv'
  <1> SUFFICES ASSUME TypeOK, TypeOK', InOrder, WriterInOrder, [Next]_vars, Orderly'
               PROVE  InOrder' /\ WriterInOrder'
    BY OrderlyBefore DEF OrderInv
  <1>a. DOMAIN wal = 1..Len(wal) /\ Len(wal) \in Nat /\ clock \in Int
    BY DEF TypeOK
  <1>b. \A v, w \in Writers : pc[v] # "idle" /\ pc[w] # "idle" => v = w
    BY DEF WriterInOrder
  <1>1. ASSUME NEW w \in Writers, HashPayload(w) PROVE InOrder' /\ WriterInOrder'
    <2>1. UNCHANGED <<wal, logged, head, clock>> /\ pc[w] = "idle" /\ pc'[w] = "hashed"
      BY <1>1 DEF HashPayload, storeVars, Go, TypeOK
    <2>u. \A v \in Writers : pc[v] = "idle" /\ (v # w => pc'[v] = "idle")
      BY <1>1, <2>1 DEF HashPayload, Go, TypeOK, Orderly
    <2>2. PICK p \in Payloads : span' = [span EXCEPT ![w].payload = p, ![w].hash = Hash(p, head)]
      BY <1>1 DEF HashPayload
    <2>3. span'[w].hash = Hash(span'[w].payload, head)
      BY <2>2 DEF TypeOK, Span
    <2>4. WriterInOrder'
      BY <2>1, <2>u, <2>3 DEF WriterInOrder, HashAt
    <2>5. QED BY <1>a, <2>1, <2>4, OrderKept
  <1>2. ASSUME NEW w \in Writers, LinkParent(w) PROVE InOrder' /\ WriterInOrder'
    <2>1. UNCHANGED <<wal, logged, head, clock>> /\ pc[w] = "hashed" /\ pc'[w] = "linked"
      BY <1>2 DEF LinkParent, storeVars, Go, TypeOK
    <2>u. \A v \in Writers : v # w => pc[v] = "idle" /\ pc'[v] = "idle"
      BY <1>2, <1>b, <2>1 DEF LinkParent, Go, TypeOK
    <2>2. span'[w].hash = span[w].hash /\ span'[w].payload = span[w].payload
      BY <1>2 DEF LinkParent, TypeOK, Span
    <2>3. WriterInOrder'
      BY <2>1, <2>u, <2>2 DEF WriterInOrder, HashAt
    <2>4. QED BY <1>a, <2>1, <2>3, OrderKept
  <1>3. ASSUME NEW w \in Writers, Stamp(w) PROVE InOrder' /\ WriterInOrder'
    <2>1. /\ UNCHANGED <<wal, logged, head>> /\ clock' = clock + 1
          /\ pc[w] = "linked" /\ pc'[w] = "stamped"
      BY <1>3 DEF Stamp, storeVars, Go, TypeOK
    <2>u. \A v \in Writers : v # w => pc[v] = "idle" /\ pc'[v] = "idle"
      BY <1>3, <1>b, <2>1 DEF Stamp, Go, TypeOK
    <2>2. /\ span'[w].hash = span[w].hash /\ span'[w].payload = span[w].payload
          /\ span'[w].time[1] = clock + 1
      BY <1>3 DEF Stamp, TypeOK, Span
    <2>3. \A i \in DOMAIN wal : wal[i].time[1] \in Int /\ wal[i].time[1] <= clock
      BY TimeType DEF InOrder
    <2>4. \A i \in DOMAIN wal : wal[i].time[1] < span'[w].time[1]
      BY <1>a, <2>2, <2>3
    <2>5. WriterInOrder'
      BY <1>a, <2>1, <2>u, <2>2, <2>4 DEF WriterInOrder, HashAt
    <2>6. QED BY <1>a, <2>1, <2>5, OrderKept
  <1>4. ASSUME NEW w \in Writers, PutSpan(w) PROVE InOrder' /\ WriterInOrder'
    <2>1. /\ wal' = Append(wal, span[w]) /\ logged' = Append(logged, span[w])
          /\ UNCHANGED <<head, span, clock>> /\ pc[w] = "stamped" /\ pc'[w] = "stored"
      BY <1>4 DEF PutSpan, Go, TypeOK
    <2>u. \A v \in Writers : v # w => pc[v] = "idle" /\ pc'[v] = "idle"
      BY <1>4, <1>b, <2>1 DEF PutSpan, Go, TypeOK
    <2>2. /\ Len(wal') = Len(wal) + 1 /\ wal'[Len(wal) + 1] = span[w]
          /\ logged'[Len(wal) + 1] = span[w]
          /\ \A j \in 1..Len(wal) : wal'[j] = wal[j] /\ logged'[j] = logged[j]
      BY <2>1 DEF TypeOK
    <2>3. DOMAIN wal' = 1..(Len(wal) + 1)
      BY <1>a, <2>2 DEF TypeOK
    <2>4. \A n \in 0..Len(wal) : HashAt(wal', n) = HashAt(wal, n)
      BY <1>a, <2>2 DEF HashAt
    <2>5. /\ span[w].time[1] <= clock /\ \A i \in DOMAIN wal : wal[i].time[1] < span[w].time[1]
          /\ span[w].hash = Hash(span[w].payload, HashAt(wal, Len(wal)))
      BY <2>1, <2>u DEF WriterInOrder
    <2>6. \A i, j \in DOMAIN wal' : i < j => wal'[i].time[1] < wal'[j].time[1]
      BY <1>a, <2>2, <2>3, <2>5 DEF InOrder
    <2>7. \A i \in DOMAIN wal' : wal'[i].time[1] <= clock'
      BY <1>a, <2>1, <2>2, <2>3, <2>5 DEF InOrder
    <2>8. ASSUME NEW i \in DOMAIN wal' PROVE wal'[i].hash = Hash(logged'[i].payload, HashAt(wal', i - 1))
      <3>1. CASE i \in DOMAIN wal
        <4>1. HashAt(wal', i - 1) = HashAt(wal, i - 1)
          BY <1>a, <2>4, <3>1
        <4>2. QED BY <1>a, <2>2, <3>1, <4>1 DEF InOrder
      <3>2. CASE i = Len(wal) + 1
        <4>1. HashAt(wal', i - 1) = HashAt(wal, Len(wal))
          BY <1>a, <2>4, <3>2
        <4>2. QED BY <2>2, <2>5, <3>2, <4>1
      <3>3. QED BY <1>a, <2>3, <3>1, <3>2
    <2>9. InOrder'
      BY <2>6, <2>7, <2>8 DEF InOrder
    <2>10. HashAt(wal', Len(wal')) = span'[w].hash
      BY <1>a, <2>1, <2>2 DEF HashAt
    <2>11. WriterInOrder'
      BY <2>1, <2>u, <2>10 DEF WriterInOrder
    <2>12. QED BY <2>9, <2>11
  <1>5. ASSUME NEW w \in Writers, AdvanceHead(w) PROVE InOrder' /\ WriterInOrder'
    <2>1. /\ UNCHANGED <<wal, logged, clock>> /\ head' = span[w].hash
          /\ pc[w] = "stored" /\ pc'[w] = "idle"
      BY <1>5 DEF AdvanceHead, Go, storeVars, TypeOK
    <2>u. \A v \in Writers : v # w => pc[v] = "idle" /\ pc'[v] = "idle"
      BY <1>5, <1>b, <2>1 DEF AdvanceHead, Go, TypeOK
    <2>2. WriterInOrder'
      BY <2>1, <2>u DEF WriterInOrder, HashAt
    <2>3. QED BY <1>a, <2>1, <2>2, OrderKept
  <1>6. ASSUME NEW w \in Writers, PutFails(w) PROVE InOrder' /\ WriterInOrder'
    <2>1. /\ UNCHANGED <<wal, logged, clock, head>> /\ pc[w] = "stamped" /\ pc'[w] = "idle"
      BY <1>6 DEF PutFails, Go, storeVars, TypeOK
    <2>u. \A v \in Writers : v # w => pc[v] = "idle" /\ pc'[v] = "idle"
      BY <1>6, <1>b, <2>1 DEF PutFails, Go, TypeOK
    <2>2. WriterInOrder'
      BY <2>1, <2>u DEF WriterInOrder, HashAt
    <2>3. QED BY <1>a, <2>1, <2>2, OrderKept
  <1>7. ASSUME Reload PROVE InOrder' /\ WriterInOrder'
    <2>1. PICK n \in durable..Len(wal) : wal' = SubSeq(wal, 1, n) /\ logged' = SubSeq(logged, 1, n)
      BY <1>7 DEF Reload
    <2>2. /\ DOMAIN wal' = 1..n /\ Len(wal') = n /\ n \in Nat /\ n <= Len(wal)
          /\ \A j \in 1..n : wal'[j] = wal[j] /\ logged'[j] = logged[j]
      BY <2>1 DEF TypeOK
    <2>3. \A m \in 0..n : HashAt(wal', m) = HashAt(wal, m)
      BY <2>2 DEF HashAt
    <2>4. clock' = clock
      BY <1>7 DEF Reload
    <2>5. ASSUME NEW i \in DOMAIN wal' PROVE wal'[i].hash = Hash(logged'[i].payload, HashAt(wal', i - 1))
      <3>1. i - 1 \in 0..n /\ i \in DOMAIN wal
        BY <1>a, <2>2
      <3>2. QED BY <2>2, <2>3, <3>1 DEF InOrder
    <2>6. InOrder'
      BY <1>a, <2>2, <2>4, <2>5 DEF InOrder
    <2>7. head' = HashAt(wal', Len(wal'))
      <3>1. head' \in LastHash(wal', DOMAIN wal')
        BY <1>7 DEF Reload
      <3>2. CASE n = 0
        BY <2>2, <3>1, <3>2 DEF LastHash, HashAt
      <3>3. CASE n # 0
        <4>1. PICK j \in Last(wal', DOMAIN wal') : head' = wal'[j].hash
          BY <2>2, <3>1, <3>3 DEF LastHash
        <4>2. j \in 1..n /\ ~Earlier(wal'[j], wal'[n])
          BY <2>2, <3>3, <4>1 DEF Last
        <4>3. j = n
          BY <2>2, <2>6, <4>2 DEF InOrder, Earlier
        <4>4. QED BY <2>2, <3>3, <4>1, <4>3 DEF HashAt
      <3>4. QED BY <3>2, <3>3
    <2>8. WriterInOrder'
      BY <1>7, <2>7 DEF Reload, WriterInOrder
    <2>9. QED BY <2>6, <2>8
  <1>8. ASSUME ClockSetBack PROVE InOrder' /\ WriterInOrder'
    BY <1>8, OrderlyBefore
  <1>9. ASSUME SpanChanged PROVE InOrder' /\ WriterInOrder'
    <2>2. UNCHANGED <<logged, head, pc, span, clock>>
      BY <1>9 DEF SpanChanged, chainVars
    <2>3. DOMAIN wal' = DOMAIN wal /\ Len(wal') = Len(wal)
      BY <1>9, SpanChangedKeeps DEF TypeOK
    <2>4. \A j \in DOMAIN wal : wal'[j].hash = wal[j].hash /\ wal'[j].time = wal[j].time
      BY <1>9, SpanChangedKeeps
    <2>5. \A m \in 0..Len(wal) : HashAt(wal', m) = HashAt(wal, m)
      BY <1>a, <2>4 DEF HashAt
    <2>6. InOrder'
      <3>1. ASSUME NEW i \in DOMAIN wal' PROVE wal'[i].hash = Hash(logged'[i].payload, HashAt(wal', i - 1))
        <4>1. i - 1 \in 0..Len(wal)
          BY <1>a, <2>3
        <4>2. QED BY <2>2, <2>3, <2>4, <2>5, <4>1 DEF InOrder
      <3>2. QED BY <2>2, <2>3, <2>4, <3>1 DEF InOrder
    <2>7. HashAt(wal', Len(wal')) = HashAt(wal, Len(wal))
      BY <1>a, <2>3, <2>5
    <2>8. WriterInOrder'
      BY <2>2, <2>3, <2>4, <2>7 DEF WriterInOrder
    <2>9. QED BY <2>6, <2>8
  <1>10. ASSUME UNCHANGED vars PROVE InOrder' /\ WriterInOrder'
    BY <1>10, <1>a, OrderKept DEF vars, chainVars, storeVars, WriterInOrder, HashAt
  <1>11. QED
    BY <1>1, <1>2, <1>3, <1>4, <1>5, <1>6, <1>7, <1>8, <1>9, <1>10 DEF Next, LogSpan

LEMMA OrderInit == Init => OrderInv
  BY DEF Init, OrderInv, InOrder, WriterInOrder, HashAt

\* While writers take turns and the clock is not set back, the keys' order is
\* the chain's, and a writer extends its end.
THEOREM OrderInvariant == Spec => []OrderInv
  <1>1. QED BY TypeInit, TypeNext, OrderInit, OrderNext, PTL DEF Spec

\* For writers that take turns with a steady clock the audit passes if and only
\* if every stored span says what it was logged with, through any number of
\* restarts, failed puts, losses of the log's end and altered spans.
THEOREM AuditIsExact == Spec => []AuditExact
  <1>1. TypeOK /\ OrderInv => AuditExact
    BY InOrderExact DEF OrderInv, AuditExact
  <1>2. QED BY <1>1, TypeInvariant, OrderInvariant, PTL
=========================================================================
