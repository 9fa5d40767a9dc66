------------------------ MODULE TextInjectionProofs ------------------------
(***************************************************************************)
(* For any phones, texts, limits and number of starts: TextInjection       *)
(* implements TypingLog, because what a service accepted is what it has    *)
(* attempted, then the text being typed, then its queue; it is well typed; *)
(* and every line of a typed text is typed.  The last rests on what        *)
(* normalize_newlines computes for every text (its recursion is unfolded   *)
(* from the right end, where it ends), on no text being accepted twice,    *)
(* and on a text in hand adding up with what is typed of it.               *)
(***************************************************************************)
EXTENDS TextInjection, SequenceTheorems, FiniteSetTheorems, WellFoundedInduction, TLAPS

\* The types the argument needs; what is left to type of a text is not in them.
Outcome == [text : Texts, ok : BOOLEAN]
BusyOK(g) ==
    /\ busy[g] = [text |-> busy[g].text, left |-> busy[g].left]
    /\ IsBusy(g) => busy[g].text \in Texts
QueueTypeOK ==
    /\ accepted \in [Services -> Seq(Texts)] /\ queue \in [Services -> Seq(Texts)]
    /\ results \in [Services -> Seq(Outcome)]
    /\ DOMAIN busy = Services /\ busy = [g \in Services |-> busy[g]]
    /\ \A g \in Services : BusyOK(g)
    /\ service \in 0 .. starts /\ starts \in 0 .. MaxStarts
    /\ handled \in [Phones -> Nat]

Typing(g) == IF IsBusy(g) THEN 1 ELSE 0

\* The accepted texts are accounted for, and wait within the limit.
Accounted(g) ==
    /\ Len(accepted[g]) = Len(results[g]) + Typing(g) + Len(queue[g])
    /\ IsBusy(g) => accepted[g][Len(results[g]) + 1] = busy[g].text
    /\ \A k \in 1 .. Len(queue[g]) : accepted[g][Len(results[g]) + Typing(g) + k] = queue[g][k]
QueueInv == QueueTypeOK /\ \A g \in Services : Accounted(g)

LEMMA TextNotEmpty == \A t \in Texts : t # <<>>
<1>1. SUFFICES ASSUME NEW p \in Phones, NEW t \in [from : {p}, n : 1 .. Len(Outbox[p])]
               PROVE  t # <<>>
  BY DEF Texts
<1>2. "from" \in DOMAIN t
  OBVIOUS
<1>3. DOMAIN <<>> = {}
  OBVIOUS
<1>4. QED
  BY <1>2, <1>3

\* The task that types text t is busy, whatever is left of the text.
LEMMA TypingIsBusy ==
    ASSUME NEW t \in Texts, NEW rest PROVE [text |-> t, left |-> rest] # Idle
<1>1. t # <<>>
  BY TextNotEmpty
<1>2. [text |-> t, left |-> rest].text # Idle.text
  BY <1>1 DEF Idle
<1>3. QED
  BY <1>2

LEMMA NextText ==
    ASSUME NEW p \in Phones, QueueTypeOK, handled[p] < Len(Outbox[p])
    PROVE  [from |-> p, n |-> handled[p] + 1] \in Texts
<1>1. Outbox[p] \in Seq(Seq(Chars)) /\ handled[p] \in Nat
  BY InjectionAssumption DEF QueueTypeOK
<1>2. handled[p] + 1 \in 1 .. Len(Outbox[p])
  BY <1>1, LenProperties
<1>3. [from |-> p, n |-> handled[p] + 1] \in [from : {p}, n : 1 .. Len(Outbox[p])]
  BY <1>2
<1>4. QED
  BY <1>3 DEF Texts

\* Services that a step leaves alone stay accounted for.
LEMMA OthersKeep ==
    ASSUME QueueInv, NEW h \in Services,
           accepted'[h] = accepted[h], queue'[h] = queue[h], results'[h] = results[h],
           busy'[h] = busy[h]
    PROVE  Accounted(h)' /\ BusyOK(h)'
  BY DEF QueueInv, QueueTypeOK, Accounted, BusyOK, Typing, IsBusy

-----------------------------------------------------------------------------
(* The steps that the log can see *)

LEMMA EnqueueStep ==
    ASSUME QueueInv, NEW g \in Services, NEW t \in Texts,
           Len(queue[g]) < QueueLimit,
           queue' = [queue EXCEPT ![g] = Append(@, t)],
           accepted' = [accepted EXCEPT ![g] = Append(@, t)],
           UNCHANGED <<busy, results>>
    PROVE  /\ Accounted(g)' /\ BusyOK(g)'
           /\ queue' \in [Services -> Seq(Texts)] /\ accepted' \in [Services -> Seq(Texts)]
           /\ Len(accepted[g]) - Len(results[g]) <= QueueLimit
<1>1. /\ accepted[g] \in Seq(Texts) /\ queue[g] \in Seq(Texts) /\ results[g] \in Seq(Outcome)
      /\ Accounted(g) /\ BusyOK(g) /\ Typing(g) \in {0, 1}
  BY DEF QueueInv, QueueTypeOK, Typing
<1>2. /\ accepted'[g] = Append(accepted[g], t) /\ queue'[g] = Append(queue[g], t)
      /\ busy'[g] = busy[g] /\ results'[g] = results[g] /\ Typing(g)' = Typing(g)
  BY DEF QueueInv, QueueTypeOK, Typing, IsBusy
<1>3. queue' \in [Services -> Seq(Texts)] /\ accepted' \in [Services -> Seq(Texts)]
  <2>1. Append(queue[g], t) \in Seq(Texts) /\ Append(accepted[g], t) \in Seq(Texts)
    BY <1>1
  <2>2. QED
    BY <2>1 DEF QueueInv, QueueTypeOK
<1> DEFINE a == Len(accepted[g])
           n == Len(results[g])
           m == Len(queue[g])
           b == Typing(g)
<1>4. /\ a \in Nat /\ m \in Nat /\ n \in Nat /\ b \in {0, 1}
      /\ a = n + b + m /\ (IsBusy(g) => b = 1 /\ accepted[g][n + 1] = busy[g].text)
      /\ \A k \in 1 .. m : accepted[g][n + b + k] = queue[g][k]
  <2>1. a \in Nat /\ m \in Nat /\ n \in Nat
    BY <1>1, LenProperties
  <2>2. QED
    BY <1>1, <2>1 DEF Accounted, Typing
<1>5. a - n <= QueueLimit
  BY <1>4, InjectionAssumption
<1>6. BusyOK(g)'
  BY <1>1, <1>2 DEF BusyOK, IsBusy
<1>7. Accounted(g)'
  <2>1. /\ Len(accepted'[g]) = a + 1 /\ Len(queue'[g]) = m + 1 /\ Len(results'[g]) = n
        /\ \A k \in 1 .. a : accepted'[g][k] = accepted[g][k]
        /\ accepted'[g][a + 1] = t
        /\ \A k \in 1 .. m : queue'[g][k] = queue[g][k]
        /\ queue'[g][m + 1] = t
    BY <1>1, <1>2, AppendProperties
  <2>2. IsBusy(g)' = IsBusy(g) /\ Typing(g)' = b
    BY <1>2 DEF IsBusy
  <2> HIDE DEF a, n, m, b
  <2>3. IsBusy(g) => accepted'[g][n + 1] = busy'[g].text
    <3>1. ASSUME IsBusy(g) PROVE n + 1 \in 1 .. a
      BY <1>4, <3>1
    <3>2. QED
      BY <1>2, <1>4, <2>1, <3>1
  <2>4. ASSUME NEW k \in 1 .. m + 1 PROVE accepted'[g][n + b + k] = queue'[g][k]
    <3>1. CASE k = m + 1
      <4>1. /\ a \in Nat /\ m \in Nat /\ n \in Nat /\ b \in Nat
            /\ a = n + b + m
        BY <1>4
      <4>2. n + b + (m + 1) = a + 1
        BY <4>1
      <4>3. n + b + k = a + 1
        BY <3>1, <4>2
      <4>4. QED
        BY <2>1, <3>1, <4>3
    <3>2. CASE k \in 1 .. m
      <4>1. n + b + k \in 1 .. a
        BY <1>4, <3>2
      <4>2. QED
        BY <1>4, <2>1, <3>2, <4>1
    <3>3. m \in Nat
      BY <1>4
    <3>4. k = m + 1 \/ k \in 1 .. m
      BY <3>3
    <3>5. QED
      BY <3>1, <3>2, <3>4
  <2>5. a + 1 = n + b + (m + 1)
    BY <1>4
  <2>6. QED
    BY <2>1, <2>2, <2>3, <2>4, <2>5 DEF Accounted
<1>8. QED
  BY <1>3, <1>5, <1>6, <1>7

LEMMA ReportStep ==
    ASSUME QueueInv, NEW g \in Services, NEW ok \in BOOLEAN, IsBusy(g), Report(g, ok)
    PROVE  /\ Accounted(g)' /\ BusyOK(g)' /\ results' \in [Services -> Seq(Outcome)]
           /\ Len(results[g]) < Len(accepted[g])
           /\ Attempted(g)' = Append(Attempted(g), accepted[g][Len(Attempted(g)) + 1])
<1>1. /\ accepted[g] \in Seq(Texts) /\ queue[g] \in Seq(Texts) /\ results[g] \in Seq(Outcome)
      /\ Accounted(g) /\ BusyOK(g) /\ busy[g].text \in Texts
  BY DEF QueueInv, QueueTypeOK, BusyOK
<1> DEFINE out == [text |-> busy[g].text, ok |-> ok]
<1>2. /\ results'[g] = Append(results[g], out) /\ out \in Outcome /\ busy'[g] = Idle
      /\ accepted'[g] = accepted[g] /\ queue'[g] = queue[g]
  BY <1>1 DEF QueueInv, QueueTypeOK, Report, Outcome
<1>3. results' \in [Services -> Seq(Outcome)]
  <2>1. Append(results[g], out) \in Seq(Outcome)
    BY <1>1, <1>2
  <2>2. QED
    BY <2>1 DEF QueueInv, QueueTypeOK, Report
<1>4. out.text = busy[g].text
  OBVIOUS
<1> HIDE DEF out
<1> DEFINE a == Len(accepted[g])
           n == Len(results[g])
           m == Len(queue[g])
<1>5. /\ a \in Nat /\ m \in Nat /\ n \in Nat
      /\ a = n + 1 + m /\ accepted[g][n + 1] = busy[g].text
      /\ \A k \in 1 .. m : accepted[g][n + 1 + k] = queue[g][k]
  <2>1. a \in Nat /\ m \in Nat /\ n \in Nat
    BY <1>1, LenProperties
  <2>2. QED
    BY <1>1, <2>1 DEF Accounted, Typing
<1>6. /\ Len(results'[g]) = n + 1 /\ results'[g][n + 1] = out
      /\ \A k \in 1 .. n : results'[g][k] = results[g][k]
  BY <1>1, <1>2, AppendProperties
<1>7. Typing(g) = 1 /\ Typing(g)' = 0 /\ ~IsBusy(g)'
  BY <1>2 DEF Typing, IsBusy
<1>8. Accounted(g)'
  <2>1. Len(accepted'[g]) = a /\ Len(queue'[g]) = m
    BY <1>2
  <2> HIDE DEF a, n, m
  <2>2. a = (n + 1) + 0 + m
    BY <1>5
  <2>3. ASSUME NEW k \in 1 .. m PROVE accepted'[g][(n + 1) + 0 + k] = queue'[g][k]
    BY <1>2, <1>5
  <2>4. QED
    BY <1>6, <1>7, <2>1, <2>2, <2>3 DEF Accounted
<1>9. BusyOK(g)'
  <2>1. busy'[g].text = <<>> /\ busy'[g].left = <<>>
    BY <1>2 DEF Idle
  <2>2. QED
    BY <1>2, <1>7, <2>1 DEF BusyOK, Idle
<1>10. n < a
  <2> HIDE DEF a, n, m
  <2>1. a \in Nat /\ m \in Nat /\ n \in Nat /\ a = n + 1 + m
    BY <1>5
  <2>2. QED
    BY <2>1
<1>11. Attempted(g)' = Append(Attempted(g), accepted[g][Len(Attempted(g)) + 1])
  <2> DEFINE old == [k \in 1 .. n |-> results[g][k].text]
             new == [k \in 1 .. n + 1 |-> results'[g][k].text]
  <2>1. Attempted(g) = old /\ Attempted(g)' = new
    BY <1>6 DEF Attempted
  <2>2. old \in Seq(Texts) /\ Len(old) = n
    <3>1. \A k \in 1 .. n : results[g][k].text \in Texts
      <4>1. ASSUME NEW k \in 1 .. n PROVE results[g][k] \in Outcome
        BY <1>1, ElementOfSeq
      <4>2. QED
        BY <4>1 DEF Outcome
    <3>2. QED
      BY <1>5, <3>1, IsASeq, LenProperties
  <2>3. accepted[g][n + 1] = out.text
    BY <1>4, <1>5
  <2>4. new = [k \in 1 .. n + 1 |-> IF k = n + 1 THEN out.text ELSE old[k]]
    BY <1>5, <1>6
  <2>5. Append(old, out.text) = [k \in 1 .. n + 1 |-> IF k = n + 1 THEN out.text ELSE old[k]]
    <3>1. \A k \in 1 .. n + 1 : Append(old, out.text)[k] = IF k = n + 1 THEN out.text ELSE old[k]
      BY <1>1, <1>4, <1>5, <2>2, AppendProperties
    <3>2. DOMAIN Append(old, out.text) = 1 .. n + 1
      BY <1>1, <1>4, <1>5, <2>2, AppendProperties, LenProperties
    <3>3. QED
      BY <1>1, <1>4, <2>2, <3>1, <3>2, AppendProperties
  <2>6. QED
    BY <2>1, <2>2, <2>3, <2>4, <2>5
<1>12. QED
  BY <1>3, <1>8, <1>9, <1>10, <1>11

-----------------------------------------------------------------------------
(* The steps it cannot see *)

LEMMA PopStep ==
    ASSUME QueueInv, NEW g \in Services, pop_front(g)
    PROVE  Accounted(g)' /\ BusyOK(g)' /\ queue' \in [Services -> Seq(Texts)]
<1> DEFINE t == Head(queue[g])
           rest == inject(t)
           a == Len(accepted[g])
           n == Len(results[g])
           m == Len(queue[g])
<1>1. /\ accepted[g] \in Seq(Texts) /\ queue[g] \in Seq(Texts) /\ results[g] \in Seq(Outcome)
      /\ Accounted(g) /\ queue[g] # <<>> /\ ~IsBusy(g)
  BY DEF QueueInv, QueueTypeOK, pop_front
<1>2. /\ accepted'[g] = accepted[g] /\ results'[g] = results[g]
      /\ busy'[g] = [text |-> t, left |-> rest] /\ queue'[g] = Tail(queue[g])
  BY DEF QueueInv, QueueTypeOK, pop_front
<1>3. t \in Texts /\ t = queue[g][1] /\ Tail(queue[g]) \in Seq(Texts)
  BY <1>1, HeadTailProperties
<1>4. /\ Len(queue'[g]) = m - 1
      /\ \A k \in 1 .. m - 1 : queue'[g][k] = queue[g][k + 1]
  BY <1>1, <1>2, HeadTailProperties
<1>5. /\ a \in Nat /\ n \in Nat /\ m \in Nat \ {0} /\ a = n + 0 + m
      /\ \A k \in 1 .. m : accepted[g][n + 0 + k] = queue[g][k]
  <2>1. a \in Nat /\ n \in Nat /\ m \in Nat /\ m # 0
    BY <1>1, LenProperties, EmptySeq
  <2>2. QED
    BY <1>1, <2>1 DEF Accounted, Typing
<1>6. queue' \in [Services -> Seq(Texts)]
  BY <1>3 DEF QueueInv, QueueTypeOK, pop_front
<1> HIDE DEF rest
<1>7. IsBusy(g)'
  BY <1>2, <1>3, TypingIsBusy DEF IsBusy, Idle
<1>8. BusyOK(g)'
  BY <1>2, <1>3 DEF BusyOK
<1>9. Accounted(g)'
  <2>1. busy'[g].text = t /\ Typing(g)' = 1 /\ Len(accepted'[g]) = a /\ Len(results'[g]) = n
    BY <1>2, <1>7 DEF Typing
  <2> HIDE DEF a, n, m
  <2>2. a = n + 1 + (m - 1)
    BY <1>5
  <2>3. accepted'[g][n + 1] = t
    <3>1. 1 \in 1 .. m /\ n + 0 + 1 = n + 1
      BY <1>5
    <3>2. QED
      BY <1>2, <1>3, <1>5, <3>1
  <2>4. ASSUME NEW k \in 1 .. m - 1 PROVE accepted'[g][n + 1 + k] = queue'[g][k]
    <3>1. k + 1 \in 1 .. m /\ n + 0 + (k + 1) = n + 1 + k
      BY <1>5
    <3>2. QED
      BY <1>2, <1>4, <1>5, <3>1
  <2>5. QED
    BY <1>4, <2>1, <2>2, <2>3, <2>4 DEF Accounted
<1>10. QED
  BY <1>6, <1>8, <1>9

LEMMA TypeCharStep ==
    ASSUME QueueInv, NEW g \in Services, TypeChar(g)
    PROVE  Accounted(g)' /\ BusyOK(g)'
<1>1. IsBusy(g) /\ BusyOK(g) /\ Accounted(g) /\ busy[g].text \in Texts
  BY DEF TypeChar, QueueInv, QueueTypeOK, BusyOK
<1>0. ASSUME NEW t, NEW old, NEW new
      PROVE  [[text |-> t, left |-> old] EXCEPT !.left = new] = [text |-> t, left |-> new]
  <2>1. [text |-> t, left |-> old] \in [text : {t}, left : {old, new}]
    OBVIOUS
  <2>2. QED
    BY <2>1
<1>2. PICK rest : busy'[g] = [text |-> busy[g].text, left |-> rest]
  <2>1. busy'[g] = [busy[g] EXCEPT !.left = Tail(@)]
    BY DEF TypeChar, QueueInv, QueueTypeOK
  <2>2. PICK t, left : busy[g] = [text |-> t, left |-> left]
    BY <1>1 DEF BusyOK
  <2>3. busy'[g] = [[text |-> t, left |-> left] EXCEPT !.left = Tail(left)] /\ busy[g].text = t
    BY <2>1, <2>2
  <2>4. [[text |-> t, left |-> left] EXCEPT !.left = Tail(left)] = [text |-> t, left |-> Tail(left)]
    BY <1>0
  <2>5. QED
    BY <2>3, <2>4
<1>3. accepted'[g] = accepted[g] /\ queue'[g] = queue[g] /\ results'[g] = results[g]
  BY DEF TypeChar
<1>4. IsBusy(g)' /\ busy'[g].text = busy[g].text
  BY <1>1, <1>2, TypingIsBusy DEF IsBusy, Idle
<1>5. QED
  BY <1>1, <1>2, <1>3, <1>4 DEF Accounted, BusyOK, Typing

-----------------------------------------------------------------------------
(* What each step does to the log: nothing, or one Accept or Attempt.       *)

LogVars == <<accepted, [g \in Services |-> Attempted(g)]>>

LEMMA SameLog ==
    ASSUME UNCHANGED <<accepted, results>> PROVE UNCHANGED LogVars
  BY DEF LogVars, Attempted

\* A step that leaves the queues, the tasks and their logs alone.
LEMMA QuietStep ==
    ASSUME QueueInv, UNCHANGED <<accepted, queue, results, busy>>,
           service' \in 0 .. starts', starts' \in 0 .. MaxStarts, handled' \in [Phones -> Nat]
    PROVE  QueueInv' /\ UNCHANGED LogVars
<1>1. \A h \in Services : Accounted(h)' /\ BusyOK(h)'
  BY OthersKeep
<1>2. QED
  BY <1>1, SameLog DEF QueueInv, QueueTypeOK

LEMMA AcceptStep ==
    ASSUME QueueInv, NEW g \in Services, NEW t \in Texts, handled' \in [Phones -> Nat],
           UNCHANGED <<service, starts, busy, results>>,
           Len(queue[g]) < QueueLimit,
           queue' = [queue EXCEPT ![g] = Append(@, t)],
           accepted' = [accepted EXCEPT ![g] = Append(@, t)]
    PROVE  QueueInv' /\ Log!Accept(g, t)
<1>1. /\ Accounted(g)' /\ BusyOK(g)'
      /\ queue' \in [Services -> Seq(Texts)] /\ accepted' \in [Services -> Seq(Texts)]
      /\ Len(accepted[g]) - Len(results[g]) <= QueueLimit
  BY EnqueueStep
<1>2. \A h \in Services : Accounted(h)' /\ BusyOK(h)'
  <2>1. ASSUME NEW h \in Services, h # g PROVE Accounted(h)' /\ BusyOK(h)'
    <3>1. accepted'[h] = accepted[h] /\ queue'[h] = queue[h]
      BY <2>1 DEF QueueInv, QueueTypeOK
    <3>2. QED
      BY <3>1, OthersKeep
  <2>2. QED
    BY <1>1, <2>1
<1>3. QueueInv'
  BY <1>1, <1>2 DEF QueueInv, QueueTypeOK
<1>4. Len([h \in Services |-> Attempted(h)][g]) = Len(results[g])
  <2>1. results[g] \in Seq(Outcome)
    BY DEF QueueInv, QueueTypeOK
  <2>2. Len(results[g]) \in Nat
    BY <2>1, LenProperties
  <2>3. Attempted(g) = [k \in 1 .. Len(results[g]) |-> results[g][k].text]
    BY DEF Attempted
  <2>4. QED
    BY <2>2, <2>3
<1>5. UNCHANGED [h \in Services |-> Attempted(h)]
  BY DEF Attempted
<1>6. QED
  BY <1>1, <1>3, <1>4, <1>5 DEF Log!Accept

LEMMA AttemptStep ==
    ASSUME QueueInv, NEW g \in Services, NEW ok \in BOOLEAN, IsBusy(g), Report(g, ok)
    PROVE  QueueInv' /\ Log!Attempt(g)
<1>1. /\ Accounted(g)' /\ BusyOK(g)' /\ results' \in [Services -> Seq(Outcome)]
      /\ Len(results[g]) < Len(accepted[g])
      /\ Attempted(g)' = Append(Attempted(g), accepted[g][Len(Attempted(g)) + 1])
  BY ReportStep
<1>2. ASSUME NEW h \in Services, h # g
      PROVE  results'[h] = results[h] /\ Accounted(h)' /\ BusyOK(h)' /\ Attempted(h)' = Attempted(h)
  <2>1. results'[h] = results[h] /\ busy'[h] = busy[h] /\ UNCHANGED <<accepted, queue>>
    BY <1>2 DEF QueueInv, QueueTypeOK, Report
  <2>2. QED
    BY <2>1, OthersKeep DEF Attempted
<1>3. QueueInv'
  <2>1. /\ UNCHANGED <<accepted, queue, service, starts, handled>>
        /\ busy' = [busy EXCEPT ![g] = Idle]
    BY DEF Report, channelVars
  <2>2. DOMAIN busy' = Services /\ busy' = [h \in Services |-> busy'[h]]
    BY <2>1 DEF QueueInv, QueueTypeOK
  <2>3. QED
    BY <1>1, <1>2, <2>1, <2>2 DEF QueueInv, QueueTypeOK
<1>4. Len(Attempted(g)) = Len(results[g])
  <2>1. Len(results[g]) \in Nat
    BY LenProperties DEF QueueInv, QueueTypeOK
  <2>2. QED
    BY <2>1 DEF Attempted
<1> DEFINE L == [h \in Services |-> Attempted(h)]
<1>5. L' = [L EXCEPT ![g] = Append(@, accepted[g][Len(@) + 1])]
  <2>1. \A h \in Services : L'[h] = IF h = g THEN Append(L[g], accepted[g][Len(L[g]) + 1]) ELSE L[h]
    BY <1>1, <1>2
  <2>2. QED
    BY <2>1
<1>6. L[g] = Attempted(g) /\ UNCHANGED accepted
  BY DEF Report
<1>7. QED
  BY <1>1, <1>3, <1>4, <1>5, <1>6 DEF Log!Attempt

LEMMA StepMaps ==
    ASSUME QueueInv, [Next]_vars PROVE QueueInv' /\ (Log!Next \/ UNCHANGED LogVars)
<1>1. CASE UNCHANGED vars
  <2>1. UNCHANGED <<accepted, queue, results, busy, service, starts, handled>>
    BY <1>1 DEF vars, channelVars
  <2>2. QED
    BY <2>1, QuietStep DEF QueueInv, QueueTypeOK
<1>2. CASE start_server \/ stop_server
  <2>1. /\ UNCHANGED <<accepted, queue, results, busy, handled>>
        /\ service' \in 0 .. starts' /\ starts' \in 0 .. MaxStarts
    BY <1>2, InjectionAssumption DEF start_server, stop_server, channelVars, QueueInv, QueueTypeOK
  <2>2. QED
    BY <2>1, QuietStep DEF QueueInv, QueueTypeOK
<1>3. ASSUME NEW p \in Phones, handle_text(p) PROVE QueueInv' /\ (Log!Next \/ UNCHANGED LogVars)
  <2> DEFINE t == [from |-> p, n |-> handled[p] + 1]
  <2>1. t \in Texts
    BY <1>3, NextText DEF handle_text, QueueInv
  <2>2. UNCHANGED <<service, starts, busy, results>> /\ handled' \in [Phones -> Nat]
    BY <1>3 DEF handle_text, QueueInv, QueueTypeOK
  <2>3. CASE UNCHANGED <<queue, accepted>>
    BY <2>2, <2>3, QuietStep DEF QueueInv, QueueTypeOK
  <2>4. CASE service # 0 /\ enqueue_injection(service, t)
    <3>1. service \in Services
      BY <2>4, InjectionAssumption DEF QueueInv, QueueTypeOK, Services
    <3>2. CASE Len(queue[service]) < QueueLimit /\ ~UNCHANGED <<queue, accepted>>
      <4>1. /\ queue' = [queue EXCEPT ![service] = Append(@, t)]
            /\ accepted' = [accepted EXCEPT ![service] = Append(@, t)]
        BY <2>4, <3>2 DEF enqueue_injection
      <4>2. QueueInv' /\ Log!Accept(service, t)
        BY <2>1, <2>2, <3>1, <3>2, <4>1, AcceptStep
      <4>3. QED
        BY <2>1, <3>1, <4>2 DEF Log!Next
    <3>3. QED
      BY <2>3, <2>4, <3>2 DEF enqueue_injection
  <2>5. QED
    BY <1>3, <2>3, <2>4 DEF handle_text
<1>4. ASSUME NEW g \in Services, Finish(g) \/ Fail(g) PROVE QueueInv' /\ Log!Next
  <2>1. \E ok \in BOOLEAN : IsBusy(g) /\ Report(g, ok)
    BY <1>4 DEF Finish, Fail
  <2>2. QED
    BY <2>1, AttemptStep DEF Log!Next
<1>5. ASSUME NEW g \in Services, pop_front(g) \/ TypeChar(g) PROVE QueueInv' /\ UNCHANGED LogVars
  <2>1. /\ UNCHANGED <<accepted, results, service, starts, handled>>
        /\ busy' = [h \in Services |-> busy'[h]] /\ DOMAIN busy' = Services
        /\ \A h \in Services : h # g => busy'[h] = busy[h] /\ queue'[h] = queue[h]
    BY <1>5 DEF pop_front, TypeChar, channelVars, QueueInv, QueueTypeOK
  <2>2. Accounted(g)' /\ BusyOK(g)' /\ queue' \in [Services -> Seq(Texts)]
    BY <1>5, PopStep, TypeCharStep DEF TypeChar, QueueInv, QueueTypeOK
  <2>3. \A h \in Services : Accounted(h)' /\ BusyOK(h)'
    BY <2>1, <2>2, OthersKeep
  <2>4. QED
    BY <2>1, <2>2, <2>3, SameLog DEF QueueInv, QueueTypeOK
<1>6. QED
  BY <1>1, <1>2, <1>3, <1>4, <1>5 DEF Next, Process

LEMMA InitMaps == Init => QueueInv /\ Log!Init
<1> SUFFICES ASSUME Init PROVE QueueInv /\ Log!Init
  OBVIOUS
<1>1. \A g \in Services : ~IsBusy(g) /\ accepted[g] = <<>> /\ queue[g] = <<>> /\ results[g] = <<>>
                          /\ busy[g] = Idle
  BY DEF Init, IsBusy
<1>2. ASSUME NEW g \in Services PROVE Accounted(g)
  <2>1. /\ Len(accepted[g]) = 0 /\ Len(results[g]) = 0 /\ Len(queue[g]) = 0
        /\ Typing(g) = 0 /\ ~IsBusy(g)
    BY <1>1 DEF Typing
  <2>2. QED
    BY <2>1 DEF Accounted
<1>3. \A g \in Services : BusyOK(g)
  BY <1>1 DEF BusyOK, Idle
<1>4. QueueTypeOK
  BY <1>3, InjectionAssumption DEF Init, QueueTypeOK
<1>5. \A g \in Services : Attempted(g) = <<>>
  BY <1>1 DEF Attempted
<1>6. QED
  BY <1>2, <1>4, <1>5 DEF QueueInv, Log!Init, Init

\* Whatever is sent, refused, typed, failed or left behind by a stop, each service
\* attempts what it accepted once and in order, and keeps no more than its limit
\* waiting.
THEOREM LogImplemented == Spec => ImplementsLog
<1>1. QueueInv /\ [Next]_vars => QueueInv' /\ [Log!Next]_LogVars
  BY StepMaps
<1>2. QED
  BY <1>1, InitMaps, PTL DEF Spec, ImplementsLog, Log!Spec, LogVars

-----------------------------------------------------------------------------
(* What normalize_newlines computes.                                       *)

\* What holds at a position of a text whenever it holds further right holds at
\* every position.
LEMMA Leftwards ==
    ASSUME NEW n \in Nat, NEW S,
           \A i \in 1 .. n + 1 : (\A j \in 1 .. n + 1 : j > i => j \in S) => i \in S
    PROVE  \A i \in 1 .. n + 1 : i \in S
<1> DEFINE T == {n + 1 - i : i \in (1 .. n + 1) \ S}
           less == OpToRel(<, Nat)
<1>1. SUFFICES ASSUME NEW i \in (1 .. n + 1) \ S PROVE FALSE
  OBVIOUS
<1>2. T \subseteq Nat /\ T # {}
  OBVIOUS
<1>3. PICK x \in T : \A y \in T : ~(<<y, x>> \in less)
  <2> HIDE DEF T, less
  <2>1. IsWellFoundedOn(less, Nat)
    BY NatLessThanWellFounded DEF less
  <2>2. QED
    BY <1>2, <2>1, WFMin
<1>4. PICK k \in (1 .. n + 1) \ S : x = n + 1 - k
  OBVIOUS
<1>5. ASSUME NEW j \in 1 .. n + 1, j > k PROVE j \in S
  <2>1. SUFFICES ASSUME j \notin S PROVE FALSE
    OBVIOUS
  <2>2. n + 1 - j \in T /\ n + 1 - j \in Nat /\ x \in Nat
    BY <1>2, <2>1
  <2>3. ~(n + 1 - j < x)
    BY <1>3, <2>2 DEF OpToRel
  <2>4. QED
    BY <1>4, <1>5, <2>2, <2>3
<1>6. QED
  BY <1>4, <1>5

\* The recursion of ReplaceCrLf, one level of it.
Rest(s, from, i) ==
    IF i > Len(s) THEN <<>>
    ELSE IF i < Len(s) /\ s[i] = "CR" /\ s[i + 1] = "LF"
         THEN <<"LF">> \o from[i + 2]
         ELSE <<s[i]>> \o from[i + 1]
From(s) == CHOOSE from : from = [i \in 1 .. Len(s) + 1 |-> Rest(s, from, i)]

LEMMA ReplaceIsFrom == ASSUME NEW s PROVE ReplaceCrLf(s) = From(s)[1]
  BY Zenon DEF ReplaceCrLf, From, Rest

LEMMA RestType ==
    ASSUME NEW s \in Seq(Chars), NEW f, NEW i \in 1 .. Len(s) + 1,
           \A j \in 1 .. Len(s) + 1 : j > i => f[j] \in Seq(Chars)
    PROVE  Rest(s, f, i) \in Seq(Chars)
<1>1. Len(s) \in Nat
  BY LenProperties
<1>2. CASE i > Len(s)
  BY <1>2, EmptySeq DEF Rest
<1>3. CASE i <= Len(s)
  <2>1. s[i] \in Chars /\ "LF" \in Chars
    BY <1>1, <1>3, ElementOfSeq DEF Chars
  <2>2. <<s[i]>> \in Seq(Chars) /\ <<"LF">> \in Seq(Chars)
    BY <2>1
  <2>3. CASE i < Len(s) /\ s[i] = "CR" /\ s[i + 1] = "LF"
    <3>1. i + 2 \in 1 .. Len(s) + 1 /\ i + 2 > i
      BY <1>1, <2>3
    <3>2. f[i + 2] \in Seq(Chars)
      BY <3>1
    <3>3. <<"LF">> \o f[i + 2] \in Seq(Chars)
      BY <2>2, <3>2, ConcatProperties
    <3>4. Rest(s, f, i) = <<"LF">> \o f[i + 2]
      BY <1>1, <1>3, <2>3 DEF Rest
    <3>5. QED
      BY <3>3, <3>4
  <2>4. CASE ~(i < Len(s) /\ s[i] = "CR" /\ s[i + 1] = "LF")
    <3>1. i + 1 \in 1 .. Len(s) + 1 /\ i + 1 > i
      BY <1>1, <1>3
    <3>2. f[i + 1] \in Seq(Chars)
      BY <3>1
    <3>3. <<s[i]>> \o f[i + 1] \in Seq(Chars)
      BY <2>2, <3>2, ConcatProperties
    <3>4. Rest(s, f, i) = <<s[i]>> \o f[i + 1]
      BY <1>1, <1>3, <2>4 DEF Rest
    <3>5. QED
      BY <3>3, <3>4
  <2>5. QED
    BY <2>3, <2>4
<1>4. QED
  BY <1>1, <1>2, <1>3

\* One level looks only to the right.
LEMMA RestLooksRight ==
    ASSUME NEW s \in Seq(Chars), NEW f, NEW g, NEW i \in 1 .. Len(s) + 1,
           \A j \in 1 .. Len(s) + 1 : j > i => f[j] = g[j]
    PROVE  Rest(s, f, i) = Rest(s, g, i)
<1>1. Len(s) \in Nat
  BY LenProperties
<1>2. i <= Len(s) => f[i + 1] = g[i + 1]
  <2>1. i <= Len(s) => i + 1 \in 1 .. Len(s) + 1 /\ i + 1 > i
    BY <1>1
  <2>2. QED
    BY <2>1
<1>3. i < Len(s) => f[i + 2] = g[i + 2]
  <2>1. i < Len(s) => i + 2 \in 1 .. Len(s) + 1 /\ i + 2 > i
    BY <1>1
  <2>2. QED
    BY <2>1
<1>4. ~(i > Len(s)) => i <= Len(s)
  BY <1>1
<1>5. QED
  BY <1>2, <1>3, <1>4, Zenon DEF Rest

\* The recursion has a solution, so that From is one.
LEMMA FromExists ==
    ASSUME NEW s \in Seq(Chars)
    PROVE  From(s) = [i \in 1 .. Len(s) + 1 |-> Rest(s, From(s), i)]
<1> DEFINE n == Len(s)
           Solves(f, i) == \A j \in 1 .. n + 1 : j >= i => f[j] = Rest(s, f, j)
           S == {i \in 1 .. n + 1 : \E f \in [1 .. n + 1 -> Seq(Chars)] : Solves(f, i)}
<1>1. n \in Nat
  BY LenProperties
<1>2. ASSUME NEW i \in 1 .. n + 1, \A j \in 1 .. n + 1 : j > i => j \in S
      PROVE  i \in S
  <2>1. PICK f \in [1 .. n + 1 -> Seq(Chars)] : \A j \in 1 .. n + 1 : j > i => f[j] = Rest(s, f, j)
    <3>1. CASE i = n + 1
      <4>1. [j \in 1 .. n + 1 |-> <<>>] \in [1 .. n + 1 -> Seq(Chars)]
        BY EmptySeq
      <4>2. \A j \in 1 .. n + 1 : ~(j > i)
        BY <1>1, <3>1
      <4>3. QED
        BY <4>1, <4>2
    <3>2. CASE i # n + 1
      <4>1. i + 1 \in 1 .. n + 1 /\ i + 1 > i
        BY <1>1, <3>2
      <4>2. i + 1 \in S
        BY <1>2, <4>1
      <4>3. PICK f \in [1 .. n + 1 -> Seq(Chars)] : Solves(f, i + 1)
        BY <4>2
      <4>4. \A j \in 1 .. n + 1 : j > i => j >= i + 1
        BY <1>1
      <4>5. QED
        BY <4>3, <4>4
    <3>3. QED
      BY <3>1, <3>2
  <2> DEFINE g == [f EXCEPT ![i] = Rest(s, f, i)]
  <2>2. Rest(s, f, i) \in Seq(Chars)
    BY RestType
  <2>3. /\ g \in [1 .. n + 1 -> Seq(Chars)] /\ g[i] = Rest(s, f, i)
        /\ \A j \in 1 .. n + 1 : j # i => g[j] = f[j]
    BY <2>2
  <2> HIDE DEF g
  <2>4. ASSUME NEW j \in 1 .. n + 1, j >= i PROVE g[j] = Rest(s, g, j)
    <3>1. \A k \in 1 .. n + 1 : k > j => f[k] = g[k]
      BY <1>1, <2>3, <2>4
    <3>2. Rest(s, f, j) = Rest(s, g, j)
      BY <3>1, RestLooksRight
    <3>3. j = i \/ j > i
      BY <1>1, <2>4
    <3>4. QED
      BY <2>1, <2>3, <3>2, <3>3
  <2>5. QED
    BY <2>3, <2>4
<1>3. \A i \in 1 .. n + 1 : i \in S
  <2> HIDE DEF S, n
  <2> QED
    BY <1>1, <1>2, Leftwards
<1>4. PICK f \in [1 .. n + 1 -> Seq(Chars)] : Solves(f, 1)
  <2>1. 1 \in 1 .. n + 1
    BY <1>1
  <2>2. QED
    BY <1>3, <2>1
<1>5. f = [i \in 1 .. n + 1 |-> Rest(s, f, i)]
  <2>1. \A i \in 1 .. n + 1 : f[i] = Rest(s, f, i)
    BY <1>1, <1>4
  <2>2. QED
    BY <2>1
<1>6. QED
  BY <1>5, Zenon DEF From

LEMMA FromStep ==
    ASSUME NEW s \in Seq(Chars), NEW i \in 1 .. Len(s) + 1
    PROVE  From(s)[i] = Rest(s, From(s), i)
<1> DEFINE F == From(s)
<1>1. F = [j \in 1 .. Len(s) + 1 |-> Rest(s, F, j)]
  BY FromExists
<1> HIDE DEF F
<1>2. F[i] = Rest(s, F, i)
  BY <1>1
<1>3. QED
  BY <1>2 DEF F

LEMMA FromType ==
    ASSUME NEW s \in Seq(Chars)
    PROVE  \A i \in 1 .. Len(s) + 1 : From(s)[i] \in Seq(Chars)
<1> DEFINE S == {i \in 1 .. Len(s) + 1 : From(s)[i] \in Seq(Chars)}
<1>1. Len(s) \in Nat
  BY LenProperties
<1>2. ASSUME NEW i \in 1 .. Len(s) + 1, \A j \in 1 .. Len(s) + 1 : j > i => j \in S
      PROVE  i \in S
  BY <1>2, FromStep, RestType
<1>3. \A i \in 1 .. Len(s) + 1 : i \in S
  <2> HIDE DEF S
  <2> QED
    BY <1>1, <1>2, Leftwards
<1>4. QED
  BY <1>3

LEMMA NormalizedType ==
    ASSUME NEW s \in Seq(Chars)
    PROVE  /\ ReplaceCrLf(s) \in Seq(Chars) /\ ReplaceCr(s) \in Seq(Chars)
           /\ normalize_newlines(s) \in Seq(Chars)
<1>1. ASSUME NEW t \in Seq(Chars) PROVE ReplaceCr(t) \in Seq(Chars)
  <2>1. Len(t) \in Nat /\ DOMAIN t = 1 .. Len(t)
    BY LenProperties
  <2>2. \A i \in 1 .. Len(t) : t[i] \in Chars /\ "LF" \in Chars
    BY <2>1, ElementOfSeq DEF Chars
  <2>3. QED
    BY <2>1, <2>2, IsASeq DEF ReplaceCr
<1>2. ReplaceCrLf(s) \in Seq(Chars)
  <2>1. 1 \in 1 .. Len(s) + 1
    BY LenProperties
  <2>2. QED
    BY <2>1, FromType, ReplaceIsFrom
<1>3. QED
  BY <1>1, <1>2 DEF normalize_newlines

-----------------------------------------------------------------------------
(* Counting characters.                                                    *)

Hits(s, C) == {i \in DOMAIN s : s[i] \in C}
CountIn(s, C) == Cardinality(Hits(s, C))

LEMMA HitsFinite ==
    ASSUME NEW S, NEW s \in Seq(S), NEW C
    PROVE  IsFiniteSet(Hits(s, C)) /\ CountIn(s, C) \in Nat
<1>1. DOMAIN s = 1 .. Len(s) /\ Len(s) \in Nat
  BY LenProperties
<1>2. IsFiniteSet(1 .. Len(s))
  BY <1>1, FS_Interval
<1>3. Hits(s, C) \subseteq 1 .. Len(s)
  BY <1>1 DEF Hits
<1>4. QED
  BY <1>2, <1>3, FS_Subset, FS_CardinalityType DEF CountIn

\* A character put in front counts itself and moves the others by one.
LEMMA CountCons ==
    ASSUME NEW S, NEW s \in Seq(S), NEW c \in S, NEW C
    PROVE  CountIn(<<c>> \o s, C) = CountIn(s, C) + (IF c \in C THEN 1 ELSE 0)
<1> DEFINE A == Hits(s, C)
           B == {i + 1 : i \in A}
           t == <<c>> \o s
<1>1. /\ Len(s) \in Nat /\ DOMAIN s = 1 .. Len(s) /\ <<c>> \in Seq(S) /\ Len(<<c>>) = 1
      /\ t \in Seq(S) /\ Len(t) = 1 + Len(s) /\ DOMAIN t = 1 .. 1 + Len(s)
  BY LenProperties, ConcatProperties
<1>2. t[1] = c /\ \A i \in 1 .. Len(s) : i + 1 \in 1 .. 1 + Len(s) /\ t[i + 1] = s[i]
  <2>1. t[1] = <<c>>[1]
    BY <1>1, ConcatProperties
  <2>2. ASSUME NEW i \in 1 .. Len(s) PROVE i + 1 \in 1 .. 1 + Len(s) /\ t[i + 1] = s[i]
    <3>1. i + 1 \in 1 .. Len(<<c>>) + Len(s) /\ ~(i + 1 <= Len(<<c>>)) /\ (i + 1) - Len(<<c>>) = i
      BY <1>1
    <3>2. t[i + 1] = s[(i + 1) - Len(<<c>>)]
      BY <1>1, <3>1, ConcatProperties
    <3>3. QED
      BY <1>1, <3>1, <3>2
  <2>3. QED
    BY <2>1, <2>2
<1> HIDE DEF t
<1>3. A \subseteq 1 .. Len(s) /\ IsFiniteSet(A) /\ Cardinality(A) \in Nat
  BY <1>1, HitsFinite DEF CountIn, Hits
<1>4. IsFiniteSet(B) /\ Cardinality(B) = Cardinality(A)
  <2> DEFINE f == [i \in A |-> i + 1]
  <2>1. f \in Bijection(A, B)
    <3>1. f \in [A -> B]
      OBVIOUS
    <3>2. \A i, j \in A : f[i] = f[j] => i = j
      BY <1>1, <1>3
    <3>3. \A k \in B : \E i \in A : f[i] = k
      OBVIOUS
    <3>4. QED
      BY <3>1, <3>2, <3>3 DEF Bijection, Injection, Surjection, IsInjective
  <2>2. ExistsBijection(A, B)
    BY <2>1 DEF ExistsBijection
  <2>3. QED
    BY <1>3, <2>2, FS_Bijection
<1>5. ASSUME NEW k PROVE k \in Hits(t, C) <=> (k \in B \/ (k = 1 /\ c \in C))
  <2>1. CASE k \in DOMAIN t /\ k # 1
    <3>1. k - 1 \in 1 .. Len(s) /\ (k - 1) + 1 = k
      BY <1>1, <2>1
    <3>2. t[k] = s[k - 1]
      BY <1>2, <3>1
    <3>3. k \in B <=> k - 1 \in A
      BY <1>1, <1>3, <3>1
    <3>4. QED
      BY <1>1, <2>1, <3>1, <3>2, <3>3 DEF Hits
  <2>2. CASE k = 1
    <3>1. 1 \in DOMAIN t /\ 1 \notin B
      BY <1>1, <1>3
    <3>2. QED
      BY <1>2, <2>2, <3>1 DEF Hits
  <2>3. CASE k \notin DOMAIN t
    <3>1. k \notin B /\ 1 \in DOMAIN t
      BY <1>1, <1>2, <1>3, <2>3
    <3>2. QED
      BY <2>3, <3>1 DEF Hits
  <2>4. QED
    BY <2>1, <2>2, <2>3
<1>6. 1 \notin B
  BY <1>3
<1> HIDE DEF A, B
<1>7. CASE c \in C
  <2>1. Hits(t, C) = B \cup {1}
    BY <1>5, <1>7
  <2>2. Cardinality(B \cup {1}) = Cardinality(B) + 1
    BY <1>4, <1>6, FS_AddElement
  <2>3. QED
    BY <1>4, <1>7, <2>1, <2>2 DEF CountIn, A, t
<1>8. CASE c \notin C
  <2>1. Hits(t, C) = B
    BY <1>5, <1>8
  <2>2. QED
    BY <1>3, <1>4, <1>8, <2>1 DEF CountIn, A, t
<1>9. QED
  BY <1>7, <1>8

\* The members of J from i on, when those from k on are known.
LEMMA CountFromHere ==
    ASSUME NEW n \in Nat, NEW J \in SUBSET (1 .. n), NEW i \in 1 .. n + 1, NEW k \in 1 .. n + 1,
           i < k, \A j \in J : j >= i => j = i \/ j >= k
    PROVE  Cardinality({j \in J : j >= i})
             = Cardinality({j \in J : j >= k}) + (IF i \in J THEN 1 ELSE 0)
<1> DEFINE A == {j \in J : j >= k}
<1>1. IsFiniteSet(A)
  <2>1. IsFiniteSet(1 .. n)
    BY FS_Interval
  <2>2. A \subseteq 1 .. n
    BY Zenon
  <2>3. QED
    BY <2>1, <2>2, FS_Subset
<1>2. Cardinality(A) \in Nat /\ i \notin A
  BY <1>1, FS_CardinalityType
<1>3. {j \in J : j >= i} = IF i \in J THEN A \cup {i} ELSE A
  <2>1. \A j \in J : j \in Nat
    OBVIOUS
  <2>2. ASSUME NEW j PROVE j \in J /\ j >= i <=> j \in A \/ (j = i /\ i \in J)
    <3>1. CASE j \in J
      <4>1. j \in Nat /\ (j >= i => j = i \/ j >= k) /\ (j >= k => j >= i)
        BY <2>1, <3>1
      <4>2. i >= i
        OBVIOUS
      <4>3. QED
        BY <3>1, <4>1, <4>2
    <3>2. CASE j \notin J
      BY <3>2
    <3>3. QED
      BY <3>1, <3>2
  <2> HIDE DEF A
  <2>3. QED
    BY <2>2
<1>4. Cardinality(A \cup {i}) = Cardinality(A) + 1
  <2> HIDE DEF A
  <2> QED
    BY <1>1, <1>2, FS_AddElement
<1> HIDE DEF A
<1>5. Cardinality({j \in J : j >= i}) = Cardinality(A) + (IF i \in J THEN 1 ELSE 0)
  BY <1>2, <1>3, <1>4
<1>6. QED
  BY <1>5 DEF A

\* A pair is a "\r\n"; a position is reached unless it is the "\n" of a pair.
Pair(s, i) == i < Len(s) /\ s[i] = "CR" /\ s[i + 1] = "LF"
Reached(s, i) == ~(i > 1 /\ Pair(s, i - 1))

\* J marks the reached positions whose replacement is a character of C.
Marks(s, C, J) ==
    /\ J \in SUBSET (1 .. Len(s))
    /\ \A i \in 1 .. Len(s) : Reached(s, i) =>
          /\ i \in J <=> IF Pair(s, i) THEN "LF" \in C ELSE s[i] \in C
          /\ Pair(s, i) => i + 1 \notin J

LEMMA CountLevel ==
    ASSUME NEW s \in Seq(Chars), NEW C, NEW J, Marks(s, C, J),
           NEW i \in 1 .. Len(s) + 1,
           \A k \in 1 .. Len(s) + 1 : k > i /\ Reached(s, k)
                => CountIn(From(s)[k], C) = Cardinality({j \in J : j >= k}),
           Reached(s, i)
    PROVE  CountIn(From(s)[i], C) = Cardinality({j \in J : j >= i})
<1> DEFINE n == Len(s)
           f == From(s)
<1>1. n \in Nat /\ J \in SUBSET (1 .. n)
  BY LenProperties DEF Marks
<1>2. \A k \in 1 .. n + 1 : f[k] \in Seq(Chars)
  BY FromType
<1>3. f[i] = Rest(s, f, i)
  BY FromStep
<1> HIDE DEF f
<1>4. CASE i = n + 1
  <2>1. f[i] = <<>>
    BY <1>1, <1>3, <1>4 DEF Rest
  <2>2. Hits(<<>>, C) = {}
    BY DEF Hits
  <2>3. {j \in J : j >= i} = {}
    <3>1. \A j \in J : j \in Nat /\ ~(j >= i)
      BY <1>1, <1>4
    <3>2. QED
      BY <3>1
  <2>4. QED
    BY <2>1, <2>2, <2>3 DEF CountIn, f
<1>5. CASE i \in 1 .. n /\ Pair(s, i)
  <2>1. i + 2 \in 1 .. n + 1 /\ i + 2 > i /\ s[i + 1] = "LF"
    BY <1>1, <1>5 DEF Pair
  <2>2. Reached(s, i + 2)
    <3>1. (i + 2) - 1 = i + 1
      BY <1>1
    <3>2. QED
      BY <2>1, <3>1 DEF Reached, Pair
  <2>3. f[i] = <<"LF">> \o f[i + 2]
    BY <1>1, <1>3, <1>5 DEF Rest, Pair
  <2>4. CountIn(f[i], C) = CountIn(f[i + 2], C) + (IF "LF" \in C THEN 1 ELSE 0)
    <3>1. "LF" \in Chars
      BY DEF Chars
    <3>2. QED
      BY <1>2, <2>1, <2>3, <3>1, CountCons
  <2>5. CountIn(f[i + 2], C) = Cardinality({j \in J : j >= i + 2})
    BY <2>1, <2>2 DEF f
  <2>6. (i \in J <=> "LF" \in C) /\ i + 1 \notin J
    BY <1>5 DEF Marks
  <2>7. \A j \in J : j >= i => j = i \/ j >= i + 2
    BY <1>1, <2>6
  <2>8. Cardinality({j \in J : j >= i})
          = Cardinality({j \in J : j >= i + 2}) + (IF i \in J THEN 1 ELSE 0)
    <3>1. PICK k \in 1 .. n + 1 : k = i + 2 /\ i < k
      BY <2>1
    <3>2. \A j \in J : j >= i => j = i \/ j >= k
      BY <2>7, <3>1
    <3>3. Cardinality({j \in J : j >= i})
            = Cardinality({j \in J : j >= k}) + (IF i \in J THEN 1 ELSE 0)
      BY <1>1, <3>1, <3>2, CountFromHere
    <3>4. QED
      BY <3>1, <3>3
  <2>9. QED
    BY <2>4, <2>5, <2>6, <2>8 DEF f
<1>6. CASE i \in 1 .. n /\ ~Pair(s, i)
  <2>1. i + 1 \in 1 .. n + 1 /\ i + 1 > i
    BY <1>1, <1>6
  <2>2. Reached(s, i + 1)
    <3>1. (i + 1) - 1 = i
      BY <1>1
    <3>2. QED
      BY <1>6, <3>1 DEF Reached
  <2>3. f[i] = <<s[i]>> \o f[i + 1]
    BY <1>1, <1>3, <1>6 DEF Rest, Pair
  <2>4. CountIn(f[i], C) = CountIn(f[i + 1], C) + (IF s[i] \in C THEN 1 ELSE 0)
    <3>1. s[i] \in Chars
      BY <1>6, ElementOfSeq
    <3>2. QED
      BY <1>2, <2>1, <2>3, <3>1, CountCons
  <2>5. CountIn(f[i + 1], C) = Cardinality({j \in J : j >= i + 1})
    BY <2>1, <2>2 DEF f
  <2>6. i \in J <=> s[i] \in C
    BY <1>6 DEF Marks
  <2>7. \A j \in J : j >= i => j = i \/ j >= i + 1
    BY <1>1
  <2>8. Cardinality({j \in J : j >= i})
          = Cardinality({j \in J : j >= i + 1}) + (IF i \in J THEN 1 ELSE 0)
    <3>1. PICK k \in 1 .. n + 1 : k = i + 1 /\ i < k
      BY <2>1
    <3>2. \A j \in J : j >= i => j = i \/ j >= k
      BY <2>7, <3>1
    <3>3. Cardinality({j \in J : j >= i})
            = Cardinality({j \in J : j >= k}) + (IF i \in J THEN 1 ELSE 0)
      BY <1>1, <3>1, <3>2, CountFromHere
    <3>4. QED
      BY <3>1, <3>3
  <2>9. QED
    BY <2>4, <2>5, <2>6, <2>8 DEF f
<1>7. QED
  BY <1>1, <1>4, <1>5, <1>6

LEMMA CountMarks ==
    ASSUME NEW s \in Seq(Chars), NEW C, NEW J, Marks(s, C, J)
    PROVE  CountIn(ReplaceCrLf(s), C) = Cardinality(J)
<1> DEFINE S == {i \in 1 .. Len(s) + 1 : Reached(s, i)
                    => CountIn(From(s)[i], C) = Cardinality({j \in J : j >= i})}
<1>1. Len(s) \in Nat
  BY LenProperties
<1>2. ASSUME NEW i \in 1 .. Len(s) + 1, \A j \in 1 .. Len(s) + 1 : j > i => j \in S
      PROVE  i \in S
  BY <1>2, CountLevel
<1>3. \A i \in 1 .. Len(s) + 1 : i \in S
  <2> HIDE DEF S
  <2> QED
    BY <1>1, <1>2, Leftwards
<1>4. 1 \in S /\ Reached(s, 1)
  BY <1>1, <1>3 DEF Reached
<1>5. {j \in J : j >= 1} = J
  <2>1. \A j \in J : j >= 1
    BY <1>1 DEF Marks
  <2>2. QED
    BY <2>1
<1>6. QED
  BY <1>4, <1>5, ReplaceIsFrom

\* Replacing the remaining "\r" changes no count that does not tell them apart.
LEMMA CountReplaceCr ==
    ASSUME NEW s \in Seq(Chars), NEW C, "CR" \in C <=> "LF" \in C
    PROVE  CountIn(ReplaceCr(s), C) = CountIn(s, C)
<1>1. Hits(ReplaceCr(s), C) = Hits(s, C)
  BY DEF Hits, ReplaceCr
<1>2. QED
  BY <1>1 DEF CountIn

\* What is typed of a text has its line breaks, however they were written, and
\* its other characters.
THEOREM LinesOfNormalized ==
    ASSUME NEW s \in Seq(Chars)
    PROVE  /\ CountIn(normalize_newlines(s), {"CR", "LF"}) = Breaks(s)
           /\ CountIn(normalize_newlines(s), {"x", "TAB"}) = Others(s)
<1> DEFINE B == {i \in DOMAIN s : s[i] = "CR" \/ (s[i] = "LF" /\ ~(i > 1 /\ s[i - 1] = "CR"))}
           O == {i \in DOMAIN s : s[i] \in {"x", "TAB"}}
<1>1. Len(s) \in Nat /\ DOMAIN s = 1 .. Len(s)
  BY LenProperties
<1>2. Marks(s, {"CR", "LF"}, B)
  <2>1. ASSUME NEW i \in 1 .. Len(s), Reached(s, i)
        PROVE  /\ i \in B <=> IF Pair(s, i) THEN "LF" \in {"CR", "LF"} ELSE s[i] \in {"CR", "LF"}
               /\ Pair(s, i) => i + 1 \notin B
    <3>1. CASE Pair(s, i)
      <4>1. i + 1 > 1 /\ (i + 1) - 1 = i /\ s[i] = "CR" /\ s[i + 1] = "LF"
        BY <1>1, <3>1 DEF Pair
      <4>2. i + 1 \notin B
        BY <4>1
      <4>3. QED
        BY <1>1, <3>1, <4>1, <4>2
    <3>2. CASE ~Pair(s, i)
      <4>1. s[i] = "LF" /\ i > 1 => s[i - 1] # "CR"
        <5>1. i - 1 < Len(s) /\ (i - 1) + 1 = i
          BY <1>1
        <5>2. QED
          BY <2>1, <5>1 DEF Reached, Pair
      <4>2. QED
        BY <1>1, <3>2, <4>1
    <3>3. QED
      BY <3>1, <3>2
  <2>2. QED
    BY <1>1, <2>1 DEF Marks
<1>3. Marks(s, {"x", "TAB"}, O)
  BY <1>1 DEF Marks, Pair
<1>4. ReplaceCrLf(s) \in Seq(Chars)
  BY NormalizedType
<1>5. /\ CountIn(ReplaceCr(ReplaceCrLf(s)), {"CR", "LF"}) = CountIn(ReplaceCrLf(s), {"CR", "LF"})
      /\ CountIn(ReplaceCr(ReplaceCrLf(s)), {"x", "TAB"}) = CountIn(ReplaceCrLf(s), {"x", "TAB"})
  BY <1>4, CountReplaceCr
<1> HIDE DEF B, O
<1>6. CountIn(ReplaceCrLf(s), {"CR", "LF"}) = Cardinality(B) /\ CountIn(ReplaceCrLf(s), {"x", "TAB"}) = Cardinality(O)
  BY <1>2, <1>3, CountMarks
<1>7. QED
  BY <1>5, <1>6 DEF normalize_newlines, Breaks, Others, B, O

LEMMA CountTail ==
    ASSUME NEW s \in Seq(Chars), s # <<>>, NEW C
    PROVE  CountIn(s, C) = CountIn(Tail(s), C) + (IF Head(s) \in C THEN 1 ELSE 0)
<1>1. Head(s) \in Chars /\ Tail(s) \in Seq(Chars) /\ Len(s) \in Nat
  BY HeadTailProperties, LenProperties
<1>2. s = <<Head(s)>> \o Tail(s)
  <2>1. Len(s) # 0
    BY EmptySeq
  <2>2. 1 \in 1 .. Len(s) /\ Len(s) \in 1 .. Len(s)
    BY <1>1, <2>1
  <2>3. SubSeq(s, 1, Len(s)) = <<s[1]>> \o SubSeq(s, 1 + 1, Len(s))
    BY <2>2, SubSeqRecursiveFirst
  <2>4. SubSeq(s, 1, Len(s)) = s /\ Tail(s) = SubSeq(s, 2, Len(s)) /\ Head(s) = s[1] /\ 1 + 1 = 2
    BY SubSeqFull, TailIsSubSeq
  <2>5. QED
    BY <2>3, <2>4
<1>3. PICK c \in Chars, r \in Seq(Chars) : c = Head(s) /\ r = Tail(s)
  BY <1>1
<1>4. CountIn(<<c>> \o r, C) = CountIn(r, C) + (IF c \in C THEN 1 ELSE 0)
  BY CountCons
<1>5. QED
  BY <1>2, <1>3, <1>4

LEMMA CountNone == ASSUME NEW C PROVE CountIn(<<>>, C) = 0
<1>1. Hits(<<>>, C) = {}
  BY DEF Hits
<1>2. QED
  BY <1>1, FS_EmptySet DEF CountIn

-----------------------------------------------------------------------------
(* Counting key events.                                                    *)

Event == [text : Texts, char : Chars]
Places(t, C) == {i \in DOMAIN typed : typed[i].text = t /\ typed[i].char \in C}

LEMMA AtType ==
    ASSUME typed \in Seq(Event), NEW t, NEW C
    PROVE  IsFiniteSet(Places(t, C)) /\ At(t, C) \in Nat
<1>1. DOMAIN typed = 1 .. Len(typed) /\ Len(typed) \in Nat
  BY LenProperties
<1>2. IsFiniteSet(1 .. Len(typed))
  BY <1>1, FS_Interval
<1>3. Places(t, C) \subseteq 1 .. Len(typed)
  BY <1>1 DEF Places
<1>4. QED
  BY <1>2, <1>3, FS_Subset, FS_CardinalityType DEF At, Places

LEMMA AtNone ==
    ASSUME NEW t, NEW C, \A i \in DOMAIN typed : typed[i].text # t
    PROVE  At(t, C) = 0
<1>1. Places(t, C) = {}
  BY DEF Places
<1>2. QED
  BY <1>1, FS_EmptySet DEF At, Places

LEMMA AtAppend ==
    ASSUME typed \in Seq(Event), NEW e \in Event, typed' = Append(typed, e), NEW t, NEW C
    PROVE  At(t, C)' = At(t, C) + (IF e.text = t /\ e.char \in C THEN 1 ELSE 0)
<1> DEFINE n == Len(typed)
<1>1. /\ n \in Nat /\ DOMAIN typed = 1 .. n /\ DOMAIN typed' = 1 .. n + 1
      /\ typed'[n + 1] = e /\ \A i \in 1 .. n : typed'[i] = typed[i]
  <2>1. n \in Nat /\ DOMAIN typed = 1 .. n
    BY LenProperties
  <2>2. /\ typed' \in Seq(Event) /\ Len(typed') = n + 1
        /\ typed'[n + 1] = e /\ \A i \in 1 .. n : typed'[i] = typed[i]
    BY AppendProperties
  <2>3. DOMAIN typed' = 1 .. Len(typed')
    BY <2>2, LenProperties
  <2>4. DOMAIN typed' = 1 .. n + 1
    BY <2>2, <2>3, Zenon
  <2>5. QED
    BY <2>1, <2>2, <2>4, Zenon
<1>2. IsFiniteSet(Places(t, C)) /\ n + 1 \notin Places(t, C) /\ Cardinality(Places(t, C)) \in Nat
  <2>1. IsFiniteSet(Places(t, C))
    BY AtType
  <2>2. n + 1 \notin 1 .. n
    BY <1>1
  <2>3. n + 1 \notin Places(t, C)
    BY <1>1, <2>2, Zenon DEF Places
  <2>4. QED
    BY <2>1, <2>3, FS_CardinalityType
<1>3. ASSUME NEW i PROVE i \in Places(t, C)' <=>
                            i \in Places(t, C) \/ (i = n + 1 /\ e.text = t /\ e.char \in C)
  <2>1. i \in 1 .. n + 1 <=> i \in 1 .. n \/ i = n + 1
    BY <1>1
  <2>2. n + 1 \notin 1 .. n
    BY <1>1
  <2>3. QED
    BY <1>1, <2>1, <2>2 DEF Places
<1> HIDE DEF n
<1>4. At(t, C) = Cardinality(Places(t, C)) /\ At(t, C)' = Cardinality(Places(t, C)')
  BY DEF At, Places
<1>5. CASE e.text = t /\ e.char \in C
  <2>1. Places(t, C)' = Places(t, C) \cup {n + 1}
    BY <1>3, <1>5
  <2>2. Cardinality(Places(t, C) \cup {n + 1}) = Cardinality(Places(t, C)) + 1
    BY <1>2, FS_AddElement
  <2>3. QED
    BY <1>4, <1>5, <2>1, <2>2
<1>6. CASE ~(e.text = t /\ e.char \in C)
  <2>1. Places(t, C)' = Places(t, C)
    BY <1>3, <1>6
  <2>2. QED
    BY <1>2, <1>4, <1>6, <2>1
<1>7. QED
  BY <1>5, <1>6

-----------------------------------------------------------------------------
(* The types, with what is left to type and the bound of a queue.          *)

WaitOK(g) == busy[g].left \in Seq(Chars) /\ Len(queue[g]) <= QueueLimit
LineTypes ==
    /\ answers \in [Phones -> Seq(ChannelMessage \cup {"none"})] /\ typed \in Seq(Event)
    /\ \A g \in Services : WaitOK(g)
LineTypeInv == QueueInv /\ LineTypes

LEMMA ContentType ==
    ASSUME NEW t \in Texts PROVE Content(t) \in Seq(Chars) /\ inject(t) \in Seq(Chars)
<1>1. PICK p \in Phones : t \in [from : {p}, n : 1 .. Len(Outbox[p])]
  BY DEF Texts
<1>2. t.from = p /\ t.n \in 1 .. Len(Outbox[p]) /\ Outbox[p] \in Seq(Seq(Chars))
  BY <1>1, InjectionAssumption
<1>3. Outbox[p][t.n] \in Seq(Chars)
  BY <1>2, ElementOfSeq
<1>4. Content(t) \in Seq(Chars)
  BY <1>2, <1>3 DEF Content
<1>5. QED
  BY <1>4, NormalizedType DEF inject

\* What a round of the typing loop does to the task and to the key events.
LEMMA TypedCharacter ==
    ASSUME LineTypeInv, NEW g \in Services, TypeChar(g)
    PROVE  /\ IsBusy(g) /\ busy[g].left \in Seq(Chars) /\ busy[g].left # <<>>
           /\ IsBusy(g)' /\ busy'[g].text = busy[g].text /\ busy'[g].left = Tail(busy[g].left)
           /\ Tail(busy[g].left) \in Seq(Chars)
           /\ [text |-> busy[g].text, char |-> Head(busy[g].left)] \in Event
           /\ typed' = IF Typeable(Head(busy[g].left))
                       THEN Append(typed, [text |-> busy[g].text, char |-> Head(busy[g].left)])
                       ELSE typed
           /\ \A h \in Services : h # g => busy'[h] = busy[h]
<1> DEFINE t == busy[g].text
           s == busy[g].left
<1>1. /\ IsBusy(g) /\ BusyOK(g) /\ t \in Texts /\ s \in Seq(Chars) /\ s # <<>>
      /\ DOMAIN busy = Services /\ busy = [h \in Services |-> busy[h]]
  BY DEF TypeChar, LineTypeInv, LineTypes, WaitOK, QueueInv, QueueTypeOK, BusyOK
<1>2. Head(s) \in Chars /\ Tail(s) \in Seq(Chars)
  BY <1>1, HeadTailProperties
<1>3. busy' = [busy EXCEPT ![g].left = Tail(@)]
  BY DEF TypeChar
<1>4. busy'[g] = [busy[g] EXCEPT !.left = Tail(s)] /\ \A h \in Services : h # g => busy'[h] = busy[h]
  BY <1>1, <1>3
<1>5. busy[g] = [text |-> t, left |-> s]
  BY <1>1 DEF BusyOK
<1>6. busy'[g] = [text |-> t, left |-> Tail(s)]
  <2>1. ASSUME NEW old, NEW new
        PROVE  [[text |-> t, left |-> old] EXCEPT !.left = new] = [text |-> t, left |-> new]
    <3>1. [text |-> t, left |-> old] \in [text : {t}, left : {old, new}]
      OBVIOUS
    <3>2. QED
      BY <3>1
  <2> DEFINE r == Tail(s)
  <2>2. busy'[g] = [[text |-> t, left |-> s] EXCEPT !.left = r]
    BY <1>4, <1>5
  <2> HIDE DEF r, s, t
  <2>3. [[text |-> t, left |-> s] EXCEPT !.left = r] = [text |-> t, left |-> r]
    BY <2>1
  <2>4. QED
    BY <2>2, <2>3 DEF r
<1>7. IsBusy(g)'
  <2> HIDE DEF t, s
  <2>1. [text |-> t, left |-> Tail(s)] # Idle
    BY <1>1, TypingIsBusy
  <2>2. QED
    BY <1>6, <2>1 DEF IsBusy, Idle
<1>8. busy'[g].text = t /\ busy'[g].left = Tail(s)
  <2> HIDE DEF t, s
  <2> QED
    BY <1>6
<1>9. [text |-> t, char |-> Head(s)] \in Event
  <2> HIDE DEF t, s
  <2> QED
    BY <1>1, <1>2 DEF Event
<1>10. typed' = IF Typeable(Head(s)) THEN Append(typed, [text |-> t, char |-> Head(s)]) ELSE typed
  BY DEF TypeChar
<1> HIDE DEF t, s
<1>11. QED
  BY <1>1, <1>2, <1>4, <1>7, <1>8, <1>9, <1>10, Zenon DEF t, s

LEMMA LineTypesStep ==
    ASSUME LineTypeInv, [Next]_vars PROVE LineTypeInv'
<1>1. QueueInv'
  BY StepMaps DEF LineTypeInv
<1>2. QueueTypeOK /\ LineTypes /\ \A g \in Services : WaitOK(g)
  BY DEF LineTypeInv, QueueInv, LineTypes
<1>3. CASE UNCHANGED <<answers, typed, busy, queue>>
  <2>1. LineTypes'
    BY <1>2, <1>3 DEF LineTypes, WaitOK
  <2>2. QED
    BY <1>1, <2>1 DEF LineTypeInv
<1>4. ASSUME NEW p \in Phones, handle_text(p) PROVE LineTypeInv'
  <2>1. UNCHANGED <<typed, busy>>
    BY <1>4 DEF handle_text
  <2>2. PICK m \in ChannelMessage \cup {"none"} : dc_send(p, m)
    BY <1>4 DEF handle_text, enqueue_injection, ChannelMessage
  <2>3. answers' \in [Phones -> Seq(ChannelMessage \cup {"none"})]
    <3>1. Append(answers[p], m) \in Seq(ChannelMessage \cup {"none"})
      BY <1>2 DEF LineTypes
    <3>2. QED
      BY <1>2, <2>2, <3>1 DEF LineTypes, dc_send
  <2>4. ASSUME NEW g \in Services PROVE Len(queue'[g]) <= QueueLimit
    <3>1. CASE queue' = queue
      BY <1>2, <3>1 DEF WaitOK
    <3>2. CASE queue' # queue
      <4>1. PICK t : /\ Len(queue[service]) < QueueLimit
                     /\ queue' = [queue EXCEPT ![service] = Append(@, t)]
                     /\ t = [from |-> p, n |-> handled[p] + 1]
        BY <1>4, <3>2 DEF handle_text, enqueue_injection
      <4>2. t \in Texts
        BY <1>2, <1>4, <4>1, NextText DEF handle_text
      <4>3. queue[g] \in Seq(Texts) /\ DOMAIN queue = Services
        BY <1>2 DEF QueueTypeOK
      <4>4. CASE g # service
        BY <1>2, <4>1, <4>3, <4>4 DEF WaitOK
      <4>5. CASE g = service
        <5>1. queue'[g] = Append(queue[g], t)
          BY <4>1, <4>3, <4>5
        <5>2. Len(queue'[g]) = Len(queue[g]) + 1 /\ Len(queue[g]) \in Nat
          BY <4>2, <4>3, <5>1, AppendProperties, LenProperties
        <5>3. QED
          BY <4>1, <4>5, <5>2, InjectionAssumption
      <4>6. QED
        BY <4>4, <4>5
    <3>3. QED
      BY <3>1, <3>2
  <2>5. QED
    BY <1>1, <1>2, <2>1, <2>3, <2>4 DEF LineTypeInv, LineTypes, WaitOK
<1>5. ASSUME NEW g \in Services, pop_front(g) PROVE LineTypeInv'
  <2> DEFINE t == Head(queue[g])
  <2>1. queue[g] \in Seq(Texts) /\ queue[g] # <<>> /\ DOMAIN queue = Services /\ DOMAIN busy = Services
    BY <1>2, <1>5 DEF QueueTypeOK, pop_front
  <2>2. /\ UNCHANGED <<answers, typed>> /\ queue'[g] = Tail(queue[g])
        /\ busy'[g] = [text |-> t, left |-> inject(t)]
        /\ \A h \in Services : h # g => queue'[h] = queue[h] /\ busy'[h] = busy[h]
    BY <1>5, <2>1 DEF pop_front, channelVars
  <2>3. t \in Texts
    BY <2>1, HeadTailProperties
  <2>4. inject(t) \in Seq(Chars)
    BY <2>3, ContentType
  <2>5. Len(queue'[g]) <= QueueLimit
    <3>1. Len(Tail(queue[g])) = Len(queue[g]) - 1 /\ Len(queue[g]) \in Nat
      BY <2>1, HeadTailProperties, LenProperties
    <3>2. QED
      BY <1>2, <2>2, <3>1, InjectionAssumption DEF WaitOK
  <2>6. WaitOK(g)'
    <3>1. busy'[g].left = inject(t)
      BY <2>2
    <3>2. QED
      BY <2>4, <2>5, <3>1, Zenon DEF WaitOK
  <2>7. ASSUME NEW h \in Services, h # g PROVE WaitOK(h)'
    BY <1>2, <2>2, <2>7 DEF WaitOK
  <2>8. QED
    BY <1>1, <1>2, <2>2, <2>6, <2>7, Zenon DEF LineTypeInv, LineTypes
<1>6. ASSUME NEW g \in Services, TypeChar(g) PROVE LineTypeInv'
  <2> DEFINE e == [text |-> busy[g].text, char |-> Head(busy[g].left)]
  <2>1. UNCHANGED <<answers, queue>>
    BY <1>6 DEF TypeChar, channelVars
  <2>2. /\ busy'[g].left \in Seq(Chars) /\ e \in Event
        /\ typed' = IF Typeable(Head(busy[g].left)) THEN Append(typed, e) ELSE typed
        /\ \A h \in Services : h # g => busy'[h] = busy[h]
    BY <1>6, TypedCharacter, Zenon
  <2> HIDE DEF e
  <2>3. typed' \in Seq(Event)
    BY <1>2, <2>2, AppendProperties DEF LineTypes
  <2>4. \A h \in Services : WaitOK(h)'
    BY <1>2, <2>1, <2>2, Zenon DEF WaitOK
  <2>5. QED
    BY <1>1, <1>2, <2>1, <2>3, <2>4 DEF LineTypeInv, LineTypes
<1>7. ASSUME NEW g \in Services, Finish(g) \/ Fail(g) PROVE LineTypeInv'
  <2>1. /\ UNCHANGED <<answers, queue, typed>> /\ busy' = [busy EXCEPT ![g] = Idle]
    BY <1>7 DEF Finish, Fail, Report, channelVars
  <2>2. \A h \in Services : busy'[h].left \in Seq(Chars)
    <3>1. Idle.left \in Seq(Chars)
      BY EmptySeq DEF Idle
    <3>2. DOMAIN busy = Services
      BY <1>2 DEF QueueTypeOK
    <3>3. QED
      BY <1>2, <2>1, <3>1, <3>2 DEF WaitOK
  <2>3. QED
    BY <1>1, <1>2, <2>1, <2>2 DEF LineTypeInv, LineTypes, WaitOK
<1>8. CASE start_server \/ stop_server \/ UNCHANGED vars
  <2>1. UNCHANGED <<answers, typed, busy, queue>>
    BY <1>8 DEF start_server, stop_server, channelVars, vars
  <2>2. QED
    BY <1>3, <2>1
<1>9. QED
  BY <1>4, <1>5, <1>6, <1>7, <1>8 DEF Next, Process

LEMMA LineTypesInit == Init => LineTypeInv
<1> SUFFICES ASSUME Init PROVE LineTypeInv
  OBVIOUS
<1>1. QueueInv
  BY InitMaps
<1>2. ASSUME NEW g \in Services PROVE WaitOK(g)
  <2>1. busy[g] = Idle /\ queue[g] = <<>>
    BY DEF Init
  <2>2. busy[g].left = <<>> /\ Len(queue[g]) = 0
    BY <2>1 DEF Idle
  <2>3. QED
    BY <2>2, InjectionAssumption, EmptySeq DEF WaitOK
<1>3. QED
  BY <1>1, <1>2 DEF Init, LineTypeInv, LineTypes

LEMMA LineTypeInvariant == Spec => []LineTypeInv
<1>1. LineTypeInv /\ [Next]_vars => LineTypeInv'
  BY LineTypesStep
<1>2. QED
  BY <1>1, LineTypesInit, PTL DEF Spec

\* Every state is well typed and no queue is longer than its limit.
THEOREM TypeCorrect == Spec => []TypeOK
<1>1. LineTypeInv => TypeOK
  <2> SUFFICES ASSUME LineTypeInv PROVE TypeOK
    OBVIOUS
  <2>1. QueueTypeOK /\ LineTypes /\ \A g \in Services : BusyOK(g) /\ WaitOK(g)
    BY DEF LineTypeInv, QueueInv, QueueTypeOK, LineTypes
  <2>2. ASSUME NEW g \in Services PROVE busy[g] \in [text : Texts, left : Seq(Chars)] \cup {Idle}
    <3>1. CASE ~IsBusy(g)
      BY <3>1 DEF IsBusy
    <3>2. CASE IsBusy(g)
      <4>1. PICK t, s : t = busy[g].text /\ s = busy[g].left
        OBVIOUS
      <4>2. t \in Texts /\ s \in Seq(Chars) /\ busy[g] = [text |-> t, left |-> s]
        BY <2>1, <3>2, <4>1 DEF BusyOK, WaitOK
      <4>3. QED
        BY <4>2
    <3>3. QED
      BY <3>1, <3>2
  <2>3. busy \in [Services -> [text : Texts, left : Seq(Chars)] \cup {Idle}]
    BY <2>1, <2>2 DEF QueueTypeOK
  <2>4. QED
    BY <2>1, <2>3 DEF TypeOK, QueueTypeOK, LineTypes, WaitOK, Outcome, Event
<1>2. QED
  BY <1>1, LineTypeInvariant, PTL

-----------------------------------------------------------------------------
(* Every line of a typed text is typed.                                    *)

\* No text is accepted twice, by any service, and a phone's next text is new.
Once == \A g, h \in Services : \A j \in 1 .. Len(accepted[g]), k \in 1 .. Len(accepted[h]) :
            accepted[g][j] = accepted[h][k] => g = h /\ j = k
Past == \A g \in Services : \A k \in 1 .. Len(accepted[g]) :
            accepted[g][k].n <= handled[accepted[g][k].from]

\* The reports are of the texts accepted first, in their order.
Reported == \A g \in Services : \A k \in 1 .. Len(results[g]) : results[g][k].text = accepted[g][k]

\* Only a text that a task has taken from its queue is at the cursor.
Taken(g, t) == \E k \in 1 .. Len(results[g]) + Typing(g) : t = accepted[g][k]
Begun == \A i \in 1 .. Len(typed) : \E g \in Services : Taken(g, typed[i].text)

\* What is typed of a text and what is left of it add up to the text.
Total(t, C) == CountIn(inject(t), C)
Done(g, k, C) ==
    IF results[g][k].ok THEN At(results[g][k].text, C) = Total(results[g][k].text, C)
    ELSE At(results[g][k].text, C) <= Total(results[g][k].text, C)
InHand(g, C) == IsBusy(g) => At(busy[g].text, C) + CountIn(busy[g].left, C) = Total(busy[g].text, C)
Counted(C) == \A g \in Services :
    InHand(g, C) /\ \A k \in 1 .. Len(results[g]) : Done(g, k, C)

TypeableChars == {c \in Chars : Typeable(c)}
LineInv == /\ LineTypeInv /\ Once /\ Past /\ Reported /\ Begun
           /\ \A C \in SUBSET TypeableChars : Counted(C)

LEMMA ServiceFacts ==
    ASSUME LineTypeInv, NEW g \in Services
    PROVE  /\ accepted[g] \in Seq(Texts) /\ queue[g] \in Seq(Texts) /\ results[g] \in Seq(Outcome)
           /\ Len(accepted[g]) \in Nat /\ Len(results[g]) \in Nat /\ Len(queue[g]) \in Nat
           /\ Typing(g) \in {0, 1} /\ (IsBusy(g) <=> Typing(g) = 1)
           /\ Len(accepted[g]) = Len(results[g]) + Typing(g) + Len(queue[g])
           /\ IsBusy(g) => accepted[g][Len(results[g]) + 1] = busy[g].text
           /\ \A k \in 1 .. Len(queue[g]) : accepted[g][Len(results[g]) + Typing(g) + k] = queue[g][k]
           /\ busy[g].left \in Seq(Chars)
<1>1. /\ accepted[g] \in Seq(Texts) /\ queue[g] \in Seq(Texts) /\ results[g] \in Seq(Outcome)
      /\ Accounted(g) /\ WaitOK(g)
  BY DEF LineTypeInv, LineTypes, QueueInv, QueueTypeOK
<1>2. Len(accepted[g]) \in Nat /\ Len(results[g]) \in Nat /\ Len(queue[g]) \in Nat
  BY <1>1, LenProperties
<1>3. Typing(g) \in {0, 1} /\ (IsBusy(g) <=> Typing(g) = 1) /\ busy[g].left \in Seq(Chars)
  BY <1>1 DEF WaitOK, Typing
<1>4. QED
  BY <1>1, <1>2, <1>3, Zenon DEF Accounted

LEMMA FirstPlace ==
    ASSUME NEW a \in Nat, NEW n \in Nat, NEW m \in Nat, a = n + 1 + m PROVE n + 1 \in 1 .. a
  OBVIOUS

LEMMA OnceAt ==
    ASSUME Once, NEW g \in Services, NEW h \in Services,
           NEW j \in 1 .. Len(accepted[g]), NEW k \in 1 .. Len(accepted[h]),
           accepted[g][j] = accepted[h][k]
    PROVE  g = h /\ j = k
  BY Zenon DEF Once

\* The text in hand is the only one of its kind: not in hand elsewhere, not reported.
LEMMA InHandIsApart ==
    ASSUME LineInv, NEW g \in Services, IsBusy(g)
    PROVE  /\ \A h \in Services : h # g /\ IsBusy(h) => busy[h].text # busy[g].text
           /\ \A h \in Services : \A k \in 1 .. Len(results[h]) : results[h][k].text # busy[g].text
<1> DEFINE n == Len(results[g]) + 1
<1>0. ASSUME NEW h \in Services, IsBusy(h)
      PROVE  /\ Len(results[h]) + 1 \in 1 .. Len(accepted[h])
             /\ accepted[h][Len(results[h]) + 1] = busy[h].text
  <2>1. /\ Len(accepted[h]) = Len(results[h]) + 1 + Len(queue[h])
        /\ Len(results[h]) \in Nat /\ Len(queue[h]) \in Nat /\ Len(accepted[h]) \in Nat
    BY <1>0, ServiceFacts DEF LineInv
  <2>2. accepted[h][Len(results[h]) + 1] = busy[h].text
    BY <1>0, ServiceFacts, Zenon DEF LineInv
  <2>3. Len(results[h]) + 1 \in 1 .. Len(accepted[h])
    BY <2>1, FirstPlace
  <2>4. QED
    BY <2>2, <2>3, Zenon
<1>1. n \in 1 .. Len(accepted[g]) /\ accepted[g][n] = busy[g].text
  BY <1>0
<1>2. ASSUME NEW h \in Services, h # g, IsBusy(h) PROVE busy[h].text # busy[g].text
  <2>1. Len(results[h]) + 1 \in 1 .. Len(accepted[h])
        /\ accepted[h][Len(results[h]) + 1] = busy[h].text
    BY <1>0, <1>2
  <2>2. PICK m \in 1 .. Len(accepted[g]) : accepted[g][m] = busy[g].text
    BY <1>1
  <2>3. PICK k \in 1 .. Len(accepted[h]) : accepted[h][k] = busy[h].text
    BY <2>1
  <2>4. QED
    BY <1>2, <2>2, <2>3, OnceAt DEF LineInv
<1>3. ASSUME NEW h \in Services, NEW k \in 1 .. Len(results[h]) PROVE results[h][k].text # busy[g].text
  <2>0. /\ Len(accepted[h]) = Len(results[h]) + Typing(h) + Len(queue[h])
        /\ Len(results[h]) \in Nat /\ Len(queue[h]) \in Nat /\ Typing(h) \in {0, 1}
        /\ Len(results[g]) \in Nat
    BY ServiceFacts, Zenon DEF LineInv
  <2>1. k \in 1 .. Len(accepted[h]) /\ Len(results[g]) \in Nat /\ Len(results[h]) \in Nat
    BY <2>0
  <2>2. results[h][k].text = accepted[h][k]
    BY DEF LineInv, Reported
  <2>3. ~(h = g /\ k = n)
    BY <2>1
  <2>4. PICK m \in 1 .. Len(accepted[g]) : m = n /\ accepted[g][m] = busy[g].text
    BY <1>1
  <2>5. k \in 1 .. Len(accepted[h])
    BY <2>1
  <2>6. QED
    BY <2>2, <2>3, <2>4, <2>5, OnceAt DEF LineInv
<1>4. QED
  BY <1>2, <1>3

\* Nothing of a text still queued is at the cursor.
LEMMA QueuedIsUntouched ==
    ASSUME LineInv, NEW g \in Services, ~IsBusy(g), queue[g] # <<>>, NEW C
    PROVE  At(Head(queue[g]), C) = 0
<1> DEFINE t == Head(queue[g])
           n == Len(results[g]) + 1
<1>1. n \in 1 .. Len(accepted[g]) /\ accepted[g][n] = t
  <2>1. queue[g] \in Seq(Texts) /\ Len(queue[g]) \in Nat
    BY ServiceFacts DEF LineInv
  <2>2. Len(queue[g]) # 0 /\ t = queue[g][1]
    BY <2>1, EmptySeq
  <2>3. 1 \in 1 .. Len(queue[g]) /\ Typing(g) = 0 /\ Len(results[g]) + 0 + 1 = n
    BY <2>1, <2>2, ServiceFacts DEF LineInv, Typing
  <2>4. accepted[g][Len(results[g]) + Typing(g) + 1] = queue[g][1]
    BY <2>3, ServiceFacts DEF LineInv
  <2>5. n \in 1 .. Len(accepted[g])
    BY <2>1, <2>2, <2>3, ServiceFacts DEF LineInv
  <2>6. QED
    BY <2>2, <2>3, <2>4, <2>5
<1>2. ASSUME NEW i \in DOMAIN typed PROVE typed[i].text # t
  <2>1. i \in 1 .. Len(typed)
    BY LenProperties DEF LineInv, LineTypeInv, LineTypes
  <2>2. PICK h \in Services : \E k \in 1 .. Len(results[h]) + Typing(h) : typed[i].text = accepted[h][k]
    BY <2>1 DEF LineInv, Begun, Taken
  <2>3. PICK k \in 1 .. Len(results[h]) + Typing(h) : typed[i].text = accepted[h][k]
    BY <2>2
  <2>4. k \in 1 .. Len(accepted[h]) /\ ~(h = g /\ k = n)
    <3>1. /\ Len(accepted[h]) = Len(results[h]) + Typing(h) + Len(queue[h])
          /\ Len(results[h]) \in Nat /\ Len(queue[h]) \in Nat /\ Typing(h) \in {0, 1}
      BY ServiceFacts, Zenon DEF LineInv
    <3>2. k \in 1 .. Len(accepted[h])
      BY <3>1
    <3>3. h = g => Typing(h) = 0
      BY DEF Typing
    <3>4. QED
      BY <3>1, <3>2, <3>3
  <2> HIDE DEF n, t
  <2>5. accepted[h][k] # accepted[g][n]
    BY <1>1, <2>4, Zenon DEF LineInv, Once
  <2>6. QED
    BY <1>1, <2>3, <2>5
<1>3. QED
  BY <1>2, AtNone

\* A step that leaves the tasks, their reports and the cursor alone keeps the counts.
LEMMA QuietCounts ==
    ASSUME LineInv, UNCHANGED <<typed, busy, results>>, NEW C \in SUBSET TypeableChars
    PROVE  Counted(C)'
<1>1. Counted(C)
  BY DEF LineInv
<1>2. \A t : At(t, C)' = At(t, C)
  BY DEF At
<1>3. \A g \in Services : InHand(g, C)'
  BY <1>1, <1>2 DEF Counted, InHand, IsBusy, Total
<1>4. \A g \in Services : \A k \in 1 .. Len(results'[g]) : Done(g, k, C)'
  BY <1>1, <1>2 DEF Counted, Done, Total
<1>5. QED
  BY <1>3, <1>4 DEF Counted

LEMMA TypedCounts ==
    ASSUME LineInv, NEW g \in Services, TypeChar(g), NEW C \in SUBSET TypeableChars
    PROVE  Counted(C)'
<1>0. PICK t, s, c : t = busy[g].text /\ s = busy[g].left /\ c = Head(s)
  OBVIOUS
<1> DEFINE one == IF c \in C THEN 1 ELSE 0
<1>1. /\ IsBusy(g) /\ s \in Seq(Chars) /\ s # <<>> /\ Tail(s) \in Seq(Chars)
      /\ busy'[g].text = t /\ busy'[g].left = Tail(s)
      /\ [text |-> t, char |-> c] \in Event
      /\ typed' = IF Typeable(c) THEN Append(typed, [text |-> t, char |-> c]) ELSE typed
      /\ \A h \in Services : h # g => busy'[h] = busy[h]
      /\ typed \in Seq(Event) /\ UNCHANGED results
  <2>1. LineTypeInv /\ typed \in Seq(Event) /\ UNCHANGED results
    BY DEF LineInv, LineTypeInv, LineTypes, TypeChar
  <2>2. QED
    BY <1>0, <2>1, TypedCharacter
<1>2. CountIn(s, C) = CountIn(Tail(s), C) + one /\ CountIn(Tail(s), C) \in Nat
  BY <1>0, <1>1, CountTail, HitsFinite
<1>3. ASSUME NEW u PROVE /\ u = t => At(u, C)' = At(u, C) + one
                         /\ u # t => At(u, C)' = At(u, C)
                         /\ At(u, C) \in Nat
  <2>1. At(u, C) \in Nat
    BY <1>1, AtType
  <2>2. CASE Typeable(c)
    <3> DEFINE e == [text |-> t, char |-> c]
    <3>1. e.text = t /\ e.char = c
      OBVIOUS
    <3>2. e \in Event /\ typed' = Append(typed, e)
      BY <1>1, <2>2
    <3> HIDE DEF e
    <3>3. At(u, C)' = At(u, C) + (IF e.text = u /\ e.char \in C THEN 1 ELSE 0)
      BY <1>1, <3>2, AtAppend
    <3>4. QED
      BY <2>1, <3>1, <3>3
  <2>3. CASE ~Typeable(c)
    <3>1. c \notin C /\ typed' = typed
      BY <1>1, <2>3 DEF TypeableChars
    <3>2. At(u, C)' = At(u, C)
      BY <3>1 DEF At
    <3>3. QED
      BY <2>1, <3>1, <3>2
  <2>4. QED
    BY <2>2, <2>3
<1>4. Counted(C)
  BY DEF LineInv
<1>5. InHand(g, C)'
  <2>1. At(t, C) + CountIn(s, C) = Total(t, C)
    BY <1>0, <1>1, <1>4 DEF Counted, InHand
  <2>2. At(t, C)' = At(t, C) + one /\ At(t, C) \in Nat
    BY <1>3
  <2>3. At(t, C)' + CountIn(Tail(s), C) = Total(t, C)
    BY <1>2, <2>1, <2>2
  <2>4. QED
    BY <1>1, <2>3 DEF InHand, Total
<1>6. ASSUME NEW h \in Services, h # g PROVE InHand(h, C)'
  <2>1. SUFFICES ASSUME IsBusy(h)' PROVE (At(busy[h].text, C) + CountIn(busy[h].left, C) = Total(busy[h].text, C))'
    BY DEF InHand
  <2>2. busy'[h] = busy[h] /\ IsBusy(h) /\ busy[h].text # t
    BY <1>0, <1>1, <1>6, <2>1, InHandIsApart DEF IsBusy
  <2>3. At(busy[h].text, C) + CountIn(busy[h].left, C) = Total(busy[h].text, C)
    BY <1>4, <2>2 DEF Counted, InHand
  <2>4. PICK a : a = busy[h].text
    OBVIOUS
  <2>5. At(a, C)' = At(a, C)
    BY <1>3, <2>2, <2>4
  <2>6. QED
    BY <2>2, <2>3, <2>4, <2>5 DEF Total
<1>7. ASSUME NEW h \in Services, NEW k \in 1 .. Len(results[h]) PROVE Done(h, k, C)'
  <2>1. results[h][k].text # t
    <3>1. IsBusy(g)
      BY <1>1
    <3>2. QED
      BY <1>0, <3>1, InHandIsApart, Zenon
  <2>2. Done(h, k, C)
    BY <1>4 DEF Counted
  <2>3. PICK a : a = results[h][k].text
    OBVIOUS
  <2>4. At(a, C)' = At(a, C)
    BY <1>3, <2>1, <2>3
  <2>5. QED
    BY <1>1, <2>2, <2>3, <2>4 DEF Done, Total
<1>8. QED
  BY <1>1, <1>5, <1>6, <1>7 DEF Counted

LEMMA PoppedCounts ==
    ASSUME LineInv, NEW g \in Services, pop_front(g), NEW C \in SUBSET TypeableChars
    PROVE  Counted(C)'
<1> DEFINE t == Head(queue[g])
<1>1. /\ ~IsBusy(g) /\ queue[g] # <<>> /\ UNCHANGED <<typed, results>>
      /\ busy'[g] = [text |-> t, left |-> inject(t)]
      /\ \A h \in Services : h # g => busy'[h] = busy[h]
  BY DEF LineInv, LineTypeInv, QueueInv, QueueTypeOK, pop_front
<1>2. At(t, C) = 0
  BY <1>1, QueuedIsUntouched
<1>3. t \in Texts
  BY <1>1, HeadTailProperties DEF LineInv, LineTypeInv, QueueInv, QueueTypeOK
<1>4. CountIn(inject(t), C) \in Nat
  BY <1>3, ContentType, HitsFinite
<1>5. \A u : At(u, C)' = At(u, C)
  BY <1>1 DEF At
<1>6. Counted(C)
  BY DEF LineInv
<1>7. InHand(g, C)'
  <2>1. PICK a : a = t
    OBVIOUS
  <2>2. PICK r : r = inject(a)
    OBVIOUS
  <2>3. busy'[g].text = a /\ busy'[g].left = r
    BY <1>1, <2>1, <2>2
  <2>4. At(a, C)' = 0 /\ CountIn(r, C) \in Nat /\ Total(a, C)' = CountIn(r, C)
    BY <1>2, <1>4, <1>5, <2>1, <2>2 DEF Total
  <2>5. QED
    BY <2>3, <2>4 DEF InHand
<1>8. ASSUME NEW h \in Services, h # g PROVE InHand(h, C)'
  BY <1>1, <1>5, <1>6, <1>8 DEF Counted, InHand, IsBusy, Total
<1>9. ASSUME NEW h \in Services, NEW k \in 1 .. Len(results[h]) PROVE Done(h, k, C)'
  BY <1>1, <1>5, <1>6 DEF Counted, Done, Total
<1>10. QED
  BY <1>1, <1>7, <1>8, <1>9 DEF Counted

LEMMA ReportedCounts ==
    ASSUME LineInv, NEW g \in Services, NEW ok \in BOOLEAN, IsBusy(g), Report(g, ok),
           ok => busy[g].left = <<>>, NEW C \in SUBSET TypeableChars
    PROVE  Counted(C)'
<1>1. PICK t, s : t = busy[g].text /\ s = busy[g].left
  OBVIOUS
<1>2. /\ results[g] \in Seq(Outcome) /\ Len(results[g]) \in Nat /\ s \in Seq(Chars)
      /\ typed \in Seq(Event) /\ t \in Texts
  BY <1>1, ServiceFacts DEF LineInv, LineTypeInv, LineTypes, QueueInv, QueueTypeOK, BusyOK
<1>3. PICK r : r = [text |-> t, ok |-> ok]
  OBVIOUS
<1>4. /\ results'[g] = Append(results[g], r) /\ ~IsBusy(g)' /\ UNCHANGED typed
      /\ \A h \in Services : h # g => results'[h] = results[h] /\ busy'[h] = busy[h]
  BY <1>1, <1>3 DEF Report, LineInv, LineTypeInv, QueueInv, QueueTypeOK, IsBusy
<1>5. r.text = t /\ r.ok = ok /\ r \in Outcome
  BY <1>2, <1>3 DEF Outcome
<1>6. /\ Len(results'[g]) = Len(results[g]) + 1 /\ results'[g][Len(results[g]) + 1] = r
      /\ \A k \in 1 .. Len(results[g]) : results'[g][k] = results[g][k]
  BY <1>2, <1>4, <1>5, AppendProperties
<1>7. \A u : At(u, C)' = At(u, C)
  BY <1>4 DEF At
<1>8. Counted(C)
  BY DEF LineInv
<1>9. ASSUME NEW h \in Services PROVE InHand(h, C)'
  BY <1>4, <1>7, <1>8 DEF Counted, InHand, IsBusy, Total
<1>10. PICK m : m = Len(results[g]) + 1
  OBVIOUS
<1>11. Done(g, m, C)'
  <2>1. At(t, C) + CountIn(s, C) = Total(t, C) /\ At(t, C) \in Nat /\ CountIn(s, C) \in Nat
    BY <1>1, <1>2, <1>8, AtType, HitsFinite DEF Counted, InHand
  <2>2. ok => CountIn(s, C) = 0
    BY <1>1, CountNone
  <2>3. IF ok THEN At(t, C) = Total(t, C) ELSE At(t, C) <= Total(t, C)
    BY <2>1, <2>2
  <2>4. IF ok THEN At(t, C)' = Total(t, C) ELSE At(t, C)' <= Total(t, C)
    BY <1>7, <2>3
  <2>5. results'[g][m].ok = ok /\ results'[g][m].text = t
    BY <1>5, <1>6, <1>10
  <2>6. QED
    BY <2>4, <2>5 DEF Done, Total
<1>12. ASSUME NEW h \in Services, NEW k \in 1 .. Len(results'[h]) PROVE Done(h, k, C)'
  <2>1. CASE k \in 1 .. Len(results[h])
    <3>1. results'[h][k] = results[h][k] /\ Done(h, k, C)
      BY <1>4, <1>6, <1>8, <2>1 DEF Counted
    <3>2. QED
      BY <1>7, <3>1 DEF Done, Total
  <2>2. CASE h = g /\ k = m
    BY <1>11, <2>2
  <2>3. k \in 1 .. Len(results[h]) \/ (h = g /\ k = m)
    BY <1>2, <1>4, <1>6, <1>10
  <2>4. QED
    BY <2>1, <2>2, <2>3
<1>13. QED
  BY <1>9, <1>12 DEF Counted

\* The places of a queue's log that are taken stay taken.
LEMMA PlacesWithin ==
    ASSUME LineTypeInv, NEW g \in Services
    PROVE  /\ \A k \in 1 .. Len(results[g]) + Typing(g) : k \in 1 .. Len(accepted[g])
           /\ \A k \in 1 .. Len(results[g]) : k \in 1 .. Len(accepted[g])
<1>1. /\ Len(accepted[g]) = Len(results[g]) + Typing(g) + Len(queue[g])
      /\ Len(results[g]) \in Nat /\ Len(queue[g]) \in Nat /\ Typing(g) \in {0, 1}
  BY ServiceFacts, Zenon
<1>2. PICK a, n, m, b : a = Len(accepted[g]) /\ n = Len(results[g]) /\ m = Len(queue[g]) /\ b = Typing(g)
  OBVIOUS
<1>3. a = n + b + m /\ n \in Nat /\ m \in Nat /\ b \in {0, 1}
  BY <1>1, <1>2
<1>4. (\A k \in 1 .. n + b : k \in 1 .. a) /\ \A k \in 1 .. n : k \in 1 .. a
  BY <1>3
<1>5. QED
  BY <1>2, <1>4, Zenon

LEMMA TextParts == ASSUME NEW t \in Texts PROVE t.n \in Nat /\ t.from \in Phones
<1>1. PICK p \in Phones : t \in [from : {p}, n : 1 .. Len(Outbox[p])]
  BY DEF Texts
<1>2. Outbox[p] \in Seq(Seq(Chars))
  BY InjectionAssumption
<1>3. Len(Outbox[p]) \in Nat
  BY <1>2, LenProperties
<1>4. QED
  BY <1>1, <1>3

LEMMA OrderKept ==
    ASSUME LineInv, UNCHANGED <<accepted, results, typed>>,
           \A q \in Phones : handled'[q] >= handled[q] /\ handled[q] \in Nat /\ handled'[q] \in Nat,
           \A h \in Services : Typing(h)' = Typing(h) \/ Typing(h)' = Typing(h) + 1
    PROVE  Once' /\ Past' /\ Reported' /\ Begun'
<1>1. Once' /\ Reported'
  BY DEF LineInv, Once, Reported
<1>2. ASSUME NEW h \in Services, NEW k \in 1 .. Len(accepted[h])
      PROVE  accepted[h][k].n <= handled'[accepted[h][k].from]
  <2>1. accepted[h][k].n <= handled[accepted[h][k].from]
    BY DEF LineInv, Past
  <2>2. accepted[h][k] \in Texts
    BY ServiceFacts, ElementOfSeq DEF LineInv
  <2>3. accepted[h][k].n \in Nat /\ accepted[h][k].from \in Phones
    BY <2>2, TextParts
  <2>4. QED
    BY <2>1, <2>3
<1>3. Past'
  BY <1>2 DEF Past
<1>4. Begun'
  <2>1. ASSUME NEW h \in Services, NEW u, Taken(h, u) PROVE Taken(h, u)'
    <3>1. PICK k \in 1 .. Len(results[h]) + Typing(h) : u = accepted[h][k]
      BY <2>1 DEF Taken
    <3>2. Len(results[h]) \in Nat /\ Typing(h) \in {0, 1}
      BY ServiceFacts DEF LineInv
    <3>3. k \in 1 .. Len(results[h]) + Typing(h)'
      BY <3>2
    <3>4. QED
      BY <3>1, <3>3 DEF Taken
  <2>2. ASSUME NEW i \in 1 .. Len(typed) PROVE \E h \in Services : Taken(h, typed[i].text)'
    <3>1. PICK u : u = typed[i].text
      OBVIOUS
    <3>2. PICK h \in Services : Taken(h, u)
      BY <3>1 DEF LineInv, Begun
    <3>3. Taken(h, u)'
      BY <2>1, <3>2
    <3>4. QED
      BY <3>1, <3>3 DEF Taken
  <2>3. QED
    BY <2>2 DEF Begun
<1>5. QED
  BY <1>1, <1>3, <1>4

\* A text accepted is its phone's next, so no text accepted before.
LEMMA AcceptedOrder ==
    ASSUME LineInv, NEW g \in Services, NEW p \in Phones, NEW t \in Texts,
           t.from = p, t.n = handled[p] + 1,
           handled' = [handled EXCEPT ![p] = @ + 1],
           accepted' = [accepted EXCEPT ![g] = Append(@, t)],
           UNCHANGED <<busy, results, typed>>
    PROVE  Once' /\ Past' /\ Reported' /\ Begun'
<1>1. /\ accepted[g] \in Seq(Texts) /\ DOMAIN accepted = Services /\ handled \in [Phones -> Nat]
      /\ Len(accepted[g]) \in Nat
  BY LenProperties DEF LineInv, LineTypeInv, QueueInv, QueueTypeOK
<1>2. /\ accepted'[g] = Append(accepted[g], t)
      /\ \A h \in Services : h # g => accepted'[h] = accepted[h]
  BY <1>1
<1>3. /\ Len(accepted'[g]) = Len(accepted[g]) + 1 /\ accepted'[g][Len(accepted[g]) + 1] = t
      /\ \A k \in 1 .. Len(accepted[g]) : accepted'[g][k] = accepted[g][k]
  BY <1>1, <1>2, AppendProperties
<1>4. PICK m : m = Len(accepted[g]) + 1
  OBVIOUS
<1>5. ASSUME NEW h \in Services, NEW k \in 1 .. Len(accepted'[h])
      PROVE  \/ k \in 1 .. Len(accepted[h]) /\ accepted'[h][k] = accepted[h][k]
             \/ h = g /\ k = m /\ accepted'[h][k] = t
  <2>1. CASE h = g
    BY <1>1, <1>3, <1>4, <2>1
  <2>2. CASE h # g
    BY <1>2, <2>2
  <2>3. QED
    BY <2>1, <2>2
<1>6. \A h \in Services : \A k \in 1 .. Len(accepted[h]) : accepted'[h][k] = accepted[h][k]
  BY <1>2, <1>3
<1>7. ASSUME NEW h \in Services, NEW k \in 1 .. Len(accepted[h])
      PROVE  /\ accepted[h][k].from \in Phones /\ accepted[h][k].n \in Nat
             /\ accepted[h][k].n <= handled[accepted[h][k].from] /\ accepted[h][k] # t
  <2>1. accepted[h][k] \in Texts
    BY ServiceFacts, ElementOfSeq DEF LineInv
  <2>2. accepted[h][k].n \in Nat /\ accepted[h][k].from \in Phones
    BY <2>1, TextParts
  <2>3. accepted[h][k].n <= handled[accepted[h][k].from]
    BY DEF LineInv, Past
  <2>4. handled[p] \in Nat
    BY <1>1
  <2>5. QED
    BY <2>2, <2>3, <2>4
<1>8. Once'
  <2>1. ASSUME NEW h \in Services, NEW i \in Services, NEW j \in 1 .. Len(accepted'[h]),
               NEW k \in 1 .. Len(accepted'[i]), accepted'[h][j] = accepted'[i][k]
        PROVE  h = i /\ j = k
    <3>1. CASE j \in 1 .. Len(accepted[h]) /\ accepted'[h][j] = accepted[h][j]
               /\ k \in 1 .. Len(accepted[i]) /\ accepted'[i][k] = accepted[i][k]
      BY <2>1, <3>1, OnceAt DEF LineInv
    <3>2. CASE accepted'[h][j] = t /\ accepted'[i][k] = t
      <4>1. h = g /\ j = m /\ i = g /\ k = m
        BY <1>5, <1>7, <3>2
      <4>2. QED
        BY <4>1
    <3>3. QED
      BY <1>5, <1>7, <2>1, <3>1, <3>2
  <2>2. QED
    BY <2>1 DEF Once
<1>9. Past'
  <2>1. ASSUME NEW h \in Services, NEW k \in 1 .. Len(accepted'[h])
        PROVE  accepted'[h][k].n <= handled'[accepted'[h][k].from]
    <3>1. handled'[p] = handled[p] + 1 /\ handled[p] \in Nat
          /\ \A q \in Phones : q # p => handled'[q] = handled[q]
      BY <1>1
    <3>2. CASE k \in 1 .. Len(accepted[h]) /\ accepted'[h][k] = accepted[h][k]
      BY <1>7, <3>1, <3>2
    <3>3. CASE accepted'[h][k] = t
      BY <3>1, <3>3
    <3>4. QED
      BY <1>5, <3>2, <3>3
  <2>2. QED
    BY <2>1 DEF Past
<1>10. Reported'
  <2>1. ASSUME NEW h \in Services, NEW k \in 1 .. Len(results[h])
        PROVE  results[h][k].text = accepted'[h][k]
    BY <1>6, PlacesWithin DEF LineInv, Reported
  <2>2. QED
    BY <2>1 DEF Reported
<1>11. Begun'
  <2>1. ASSUME NEW h \in Services, NEW u, Taken(h, u) PROVE Taken(h, u)'
    <3>1. PICK k \in 1 .. Len(results[h]) + Typing(h) : u = accepted[h][k]
      BY <2>1 DEF Taken
    <3>2. accepted'[h][k] = accepted[h][k]
      BY <1>6, PlacesWithin DEF LineInv
    <3>3. Len(results'[h]) + Typing(h)' = Len(results[h]) + Typing(h)
      BY DEF Typing, IsBusy
    <3>4. QED
      BY <3>1, <3>2, <3>3 DEF Taken
  <2>2. ASSUME NEW i \in 1 .. Len(typed) PROVE \E h \in Services : Taken(h, typed[i].text)'
    <3>1. PICK u : u = typed[i].text
      OBVIOUS
    <3>2. PICK h \in Services : Taken(h, u)
      BY <3>1 DEF LineInv, Begun
    <3>3. Taken(h, u)'
      BY <2>1, <3>2
    <3>4. QED
      BY <3>1, <3>3 DEF Taken
  <2>3. QED
    BY <2>2 DEF Begun
<1>12. QED
  BY <1>8, <1>9, <1>10, <1>11

LEMMA TypedOrder ==
    ASSUME LineInv, NEW g \in Services, TypeChar(g)
    PROVE  Once' /\ Past' /\ Reported' /\ Begun'
<1>1. UNCHANGED <<accepted, results, handled>>
  BY DEF TypeChar, channelVars
<1>2. Once' /\ Past' /\ Reported'
  BY <1>1 DEF LineInv, Once, Past, Reported
<1>3. PICK t, c : t = busy[g].text /\ c = Head(busy[g].left)
  OBVIOUS
<1>4. PICK e : e = [text |-> t, char |-> c]
  OBVIOUS
<1>5. /\ IsBusy(g) /\ IsBusy(g)' /\ e \in Event /\ (typed' = typed \/ typed' = Append(typed, e))
      /\ \A h \in Services : h # g => busy'[h] = busy[h]
  <2>1. LineTypeInv
    BY DEF LineInv
  <2>2. QED
    BY <1>3, <1>4, <2>1, TypedCharacter
<1>6. \A h \in Services : Len(results'[h]) + Typing(h)' = Len(results[h]) + Typing(h)
  BY <1>1, <1>5 DEF Typing, IsBusy
<1>7. \A h \in Services : \A u : Taken(h, u) => Taken(h, u)'
  BY <1>1, <1>6 DEF Taken
<1>8. Taken(g, t)'
  <2>1. Typing(g) = 1 /\ Len(results[g]) \in Nat /\ accepted[g][Len(results[g]) + 1] = t
    BY <1>3, <1>5, ServiceFacts DEF LineInv
  <2>2. Len(results[g]) + 1 \in 1 .. Len(results[g]) + 1
    BY <2>1
  <2>3. Taken(g, t)
    BY <2>1, <2>2 DEF Taken
  <2>4. QED
    BY <1>7, <2>3
<1>9. ASSUME NEW i \in 1 .. Len(typed') PROVE \E h \in Services : Taken(h, typed[i].text)'
  <2>1. typed \in Seq(Event) /\ Len(typed) \in Nat
    BY LenProperties DEF LineInv, LineTypeInv, LineTypes
  <2>2. PICK u : u = typed'[i].text
    OBVIOUS
  <2>3. (i \in 1 .. Len(typed) /\ typed'[i] = typed[i]) \/ typed'[i] = e
    BY <1>5, <2>1, AppendProperties
  <2>4. CASE i \in 1 .. Len(typed) /\ typed'[i] = typed[i]
    <3>1. PICK h \in Services : Taken(h, u)
      BY <2>2, <2>4 DEF LineInv, Begun
    <3>2. Taken(h, u)'
      BY <1>7, <3>1
    <3>3. QED
      BY <2>2, <3>2 DEF Taken
  <2>5. CASE typed'[i] = e
    <3>1. typed'[i].text = t
      BY <1>4, <2>5
    <3>2. QED
      BY <1>8, <3>1 DEF Taken
  <2>6. QED
    BY <2>3, <2>4, <2>5
<1>10. QED
  BY <1>2, <1>9 DEF Begun

LEMMA ReportedOrder ==
    ASSUME LineInv, NEW g \in Services, NEW ok \in BOOLEAN, IsBusy(g), Report(g, ok)
    PROVE  Once' /\ Past' /\ Reported' /\ Begun'
<1>1. UNCHANGED <<accepted, typed, handled>>
  BY DEF Report, channelVars
<1>2. Once' /\ Past'
  BY <1>1 DEF LineInv, Once, Past
<1>3. PICK t, m : t = busy[g].text /\ m = Len(results[g]) + 1
  OBVIOUS
<1>4. PICK r : r = [text |-> t, ok |-> ok]
  OBVIOUS
<1>5. /\ results[g] \in Seq(Outcome) /\ Len(results[g]) \in Nat /\ t \in Texts
      /\ Typing(g) = 1 /\ accepted[g][m] = t
  BY <1>3, ServiceFacts DEF LineInv, LineTypeInv, QueueInv, QueueTypeOK, BusyOK
<1>6. /\ results'[g] = Append(results[g], r) /\ Typing(g)' = 0 /\ r \in Outcome /\ r.text = t
      /\ \A h \in Services : h # g => results'[h] = results[h] /\ busy'[h] = busy[h]
  BY <1>3, <1>4, <1>5 DEF Report, LineInv, LineTypeInv, QueueInv, QueueTypeOK, IsBusy, Typing, Outcome
<1>7. /\ Len(results'[g]) = m /\ results'[g][m] = r
      /\ \A k \in 1 .. Len(results[g]) : results'[g][k] = results[g][k]
  BY <1>3, <1>5, <1>6, AppendProperties
<1>8. Reported'
  <2>1. ASSUME NEW h \in Services, NEW k \in 1 .. Len(results'[h])
        PROVE  results'[h][k].text = accepted[h][k]
    <3>1. CASE k \in 1 .. Len(results[h])
      BY <1>6, <1>7, <3>1 DEF LineInv, Reported
    <3>2. CASE h = g /\ k = m
      BY <1>5, <1>6, <1>7, <3>2
    <3>3. k \in 1 .. Len(results[h]) \/ (h = g /\ k = m)
      BY <1>3, <1>5, <1>6, <1>7
    <3>4. QED
      BY <3>1, <3>2, <3>3
  <2>2. QED
    BY <1>1, <2>1 DEF Reported
<1>9. \A h \in Services : Len(results'[h]) + Typing(h)' = Len(results[h]) + Typing(h)
  <2>1. ASSUME NEW h \in Services, h # g
        PROVE  Len(results'[h]) + Typing(h)' = Len(results[h]) + Typing(h)
    BY <1>6, <2>1 DEF Typing, IsBusy
  <2>2. Len(results'[g]) + Typing(g)' = Len(results[g]) + Typing(g)
    BY <1>3, <1>5, <1>6, <1>7
  <2>3. QED
    BY <2>1, <2>2
<1>10. \A h \in Services : \A u : Taken(h, u) => Taken(h, u)'
  BY <1>1, <1>9 DEF Taken
<1>11. ASSUME NEW i \in 1 .. Len(typed) PROVE \E h \in Services : Taken(h, typed[i].text)'
  <2>1. PICK u : u = typed[i].text
    OBVIOUS
  <2>2. PICK h \in Services : Taken(h, u)
    BY <2>1 DEF LineInv, Begun
  <2>3. Taken(h, u)'
    BY <1>10, <2>2
  <2>4. QED
    BY <1>1, <2>1, <2>3 DEF Taken
<1>12. Begun'
  BY <1>1, <1>11 DEF Begun
<1>13. QED
  BY <1>2, <1>8, <1>12

LEMMA LineStep ==
    ASSUME LineInv, [Next]_vars PROVE LineInv'
<1>1. LineTypeInv' /\ LineTypeInv /\ handled \in [Phones -> Nat]
  BY LineTypesStep DEF LineInv, LineTypeInv, QueueInv, QueueTypeOK
<1> DEFINE Order == Once /\ Past /\ Reported /\ Begun
           Counts == \A C \in SUBSET TypeableChars : Counted(C)
<1>2. SUFFICES Order' /\ Counts'
  BY <1>1 DEF LineInv
<1>3. \A h \in Services : Typing(h) \in {0, 1}
  BY DEF Typing
<1>4. CASE UNCHANGED <<accepted, results, typed, busy, handled>>
  <2>1. \A h \in Services : Typing(h)' = Typing(h)
    BY <1>4 DEF Typing, IsBusy
  <2>2. \A q \in Phones : handled'[q] >= handled[q] /\ handled[q] \in Nat /\ handled'[q] \in Nat
    BY <1>1, <1>4
  <2>3. Order'
    BY <1>4, <2>1, <2>2, OrderKept
  <2>4. Counts'
    BY <1>4, QuietCounts
  <2>5. QED
    BY <2>3, <2>4
<1>5. ASSUME NEW p \in Phones, handle_text(p) PROVE Order' /\ Counts'
  <2>1. /\ UNCHANGED <<results, typed, busy, service, starts>>
        /\ handled' = [handled EXCEPT ![p] = @ + 1]
    BY <1>5 DEF handle_text
  <2>2. Counts'
    BY <2>1, QuietCounts
  <2>3. CASE accepted' = accepted
    <3>1. \A h \in Services : Typing(h)' = Typing(h)
      BY <2>1 DEF Typing, IsBusy
    <3>2. \A q \in Phones : handled'[q] >= handled[q] /\ handled[q] \in Nat /\ handled'[q] \in Nat
      BY <1>1, <2>1
    <3>3. QED
      BY <2>1, <2>2, <2>3, <3>1, <3>2, OrderKept
  <2>4. CASE accepted' # accepted
    <3>1. PICK t : /\ t = [from |-> p, n |-> handled[p] + 1]
                   /\ accepted' = [accepted EXCEPT ![service] = Append(@, t)] /\ service # 0
      BY <1>5, <2>4 DEF handle_text, enqueue_injection
    <3>2. t \in Texts /\ t.from = p /\ t.n = handled[p] + 1
      BY <1>1, <1>5, <3>1, NextText DEF handle_text, LineTypeInv, QueueInv
    <3>3. service \in Services
      BY <1>1, <3>1, InjectionAssumption DEF LineTypeInv, QueueInv, QueueTypeOK, Services
    <3>4. Order'
      BY <2>1, <3>1, <3>2, <3>3, AcceptedOrder
    <3>5. QED
      BY <2>2, <3>4
  <2>5. QED
    BY <2>3, <2>4
<1>6. ASSUME NEW g \in Services, pop_front(g) PROVE Order' /\ Counts'
  <2>1. UNCHANGED <<accepted, results, typed, handled>>
    BY <1>6 DEF pop_front, channelVars
  <2>2. ASSUME NEW h \in Services PROVE Typing(h)' = Typing(h) \/ Typing(h)' = Typing(h) + 1
    <3>1. h # g => busy'[h] = busy[h]
      BY <1>1, <1>6 DEF pop_front, LineTypeInv, QueueInv, QueueTypeOK
    <3>2. ~IsBusy(g)
      BY <1>6 DEF pop_front
    <3>3. QED
      BY <3>1, <3>2 DEF Typing, IsBusy
  <2>3. \A q \in Phones : handled'[q] >= handled[q] /\ handled[q] \in Nat /\ handled'[q] \in Nat
    BY <1>1, <2>1
  <2>4. Order'
    BY <2>1, <2>2, <2>3, OrderKept
  <2>5. QED
    BY <1>6, <2>4, PoppedCounts
<1>7. ASSUME NEW g \in Services, TypeChar(g) PROVE Order' /\ Counts'
  BY <1>7, TypedOrder, TypedCounts
<1>8. ASSUME NEW g \in Services, Finish(g) \/ Fail(g) PROVE Order' /\ Counts'
  <2>1. PICK ok \in BOOLEAN : IsBusy(g) /\ Report(g, ok) /\ (ok => busy[g].left = <<>>)
    BY <1>8 DEF Finish, Fail
  <2>2. QED
    BY <2>1, ReportedOrder, ReportedCounts
<1>9. CASE start_server \/ stop_server \/ UNCHANGED vars
  <2>1. UNCHANGED <<accepted, results, typed, busy, handled>>
    BY <1>9 DEF start_server, stop_server, channelVars, vars
  <2>2. QED
    BY <1>4, <2>1
<1> HIDE DEF Order, Counts
<1>10. QED
  BY <1>5, <1>6, <1>7, <1>8, <1>9 DEF Next, Process

LEMMA LineInit == Init => LineInv
<1> SUFFICES ASSUME Init PROVE LineInv
  OBVIOUS
<1>1. LineTypeInv
  BY LineTypesInit
<1>2. \A g \in Services : accepted[g] = <<>> /\ results[g] = <<>> /\ ~IsBusy(g)
  BY DEF Init, IsBusy
<1>3. \A g \in Services : Len(accepted[g]) = 0 /\ Len(results[g]) = 0
  BY <1>2
<1>4. Len(typed) = 0
  BY DEF Init
<1>5. Once /\ Past /\ Reported /\ Begun
  BY <1>3, <1>4 DEF Once, Past, Reported, Begun
<1>6. \A C \in SUBSET TypeableChars : Counted(C)
  BY <1>2, <1>3 DEF Counted, InHand
<1>7. QED
  BY <1>1, <1>5, <1>6 DEF LineInv

\* A text reported as typed has left at the cursor as many line breaks as it has
\* lines to break, however its sender writes them, and all its other characters; a
\* failed one has left no more.  For any texts, phones, limits and restarts.
THEOREM LinesAreKept == Spec => []LinesKept
<1>1. LineInv /\ [Next]_vars => LineInv'
  BY LineStep
<1>2. LineInv => LinesKept
  <2> DEFINE B == {"CR", "LF"}
             O == {"x", "TAB"}
  <2>1. B \in SUBSET TypeableChars /\ O \in SUBSET TypeableChars
    BY DEF TypeableChars, Typeable, control_char_unicode, Chars
  <2>2. SUFFICES ASSUME LineInv, NEW g \in Services, NEW k \in DOMAIN results[g],
                        NEW t, t = results[g][k].text
                 PROVE  IF results[g][k].ok
                        THEN At(t, B) = Breaks(Content(t)) /\ At(t, O) = Others(Content(t))
                        ELSE At(t, B) <= Breaks(Content(t)) /\ At(t, O) <= Others(Content(t))
    BY DEF LinesKept
  <2>3. results[g] \in Seq(Outcome) /\ k \in 1 .. Len(results[g])
    BY <2>2, ServiceFacts, LenProperties DEF LineInv
  <2>4. t \in Texts
    <3>1. results[g][k] \in Outcome
      BY <2>3, ElementOfSeq
    <3>2. QED
      BY <2>2, <3>1 DEF Outcome
  <2>5. Total(t, B) = Breaks(Content(t)) /\ Total(t, O) = Others(Content(t))
    BY <2>4, ContentType, LinesOfNormalized DEF Total, inject
  <2> HIDE DEF B, O
  <2>6. Done(g, k, B) /\ Done(g, k, O)
    BY <2>1, <2>2, <2>3 DEF LineInv, Counted
  <2>7. QED
    BY <2>2, <2>5, <2>6 DEF Done
<1>3. QED
  BY <1>1, <1>2, LineInit, PTL DEF Spec

-----------------------------------------------------------------------------
(* The texts of one service do not interleave at the cursor.               *)

\* Key events follow the order in which their service accepted the texts.
InOrder(g) == \A i, j \in 1 .. Len(typed) : \A k, m \in 1 .. Len(accepted[g]) :
    i <= j /\ typed[i].text = accepted[g][k] /\ typed[j].text = accepted[g][m] => k <= m
CursorInv == LineInv /\ \A g \in Services : InOrder(g)

LEMMA CursorStep ==
    ASSUME CursorInv, [Next]_vars PROVE CursorInv'
<1>1. LineInv /\ LineInv' /\ \A g \in Services : InOrder(g)
  BY LineStep DEF CursorInv
<1>2. SUFFICES \A g \in Services : InOrder(g)'
  BY <1>1 DEF CursorInv
\* What a service accepted keeps its place.
<1>3. CASE typed' = typed /\ \A h \in Services : \A k \in 1 .. Len(accepted[h]) :
                              k \in 1 .. Len(accepted'[h]) /\ accepted'[h][k] = accepted[h][k]
  <2>1. ASSUME NEW g \in Services, NEW i \in 1 .. Len(typed), NEW k \in 1 .. Len(accepted'[g]),
               typed[i].text = accepted'[g][k]
        PROVE  k \in 1 .. Len(accepted[g]) /\ accepted'[g][k] = accepted[g][k]
    <3>1. PICK u : u = typed[i].text
      OBVIOUS
    <3>2. PICK h \in Services : Taken(h, u)
      BY <1>1, <3>1 DEF LineInv, Begun
    <3>3. PICK m \in 1 .. Len(accepted[h]) : u = accepted[h][m]
      BY <1>1, <3>2, PlacesWithin DEF LineInv, Taken
    <3>4. m \in 1 .. Len(accepted'[h]) /\ accepted'[h][m] = u
      BY <1>3, <3>3
    <3>5. Once'
      BY <1>1 DEF LineInv
    <3>6. accepted'[h][m] = accepted'[g][k]
      BY <2>1, <3>1, <3>4
    <3>7. h = g /\ m = k
      BY <3>4, <3>5, <3>6 DEF Once
    <3>8. QED
      BY <3>3, <3>4, <3>7
  <2>2. ASSUME NEW g \in Services PROVE InOrder(g)'
    <3>1. SUFFICES ASSUME NEW i \in 1 .. Len(typed), NEW j \in 1 .. Len(typed),
                          NEW k \in 1 .. Len(accepted'[g]), NEW m \in 1 .. Len(accepted'[g]),
                          i <= j, typed[i].text = accepted'[g][k], typed[j].text = accepted'[g][m]
                   PROVE  k <= m
      BY <1>3, Zenon DEF InOrder
    <3>2. /\ k \in 1 .. Len(accepted[g]) /\ accepted'[g][k] = accepted[g][k]
          /\ m \in 1 .. Len(accepted[g]) /\ accepted'[g][m] = accepted[g][m]
      BY <2>1, <3>1
    <3>3. QED
      BY <1>1, <3>1, <3>2, Zenon DEF InOrder
  <2>3. QED
    BY <2>2
<1>4. ASSUME NEW g \in Services, TypeChar(g) PROVE \A h \in Services : InOrder(h)'
  <2>1. UNCHANGED <<accepted, results>> /\ LineTypeInv /\ Once /\ Begun
    BY <1>1, <1>4 DEF TypeChar, LineInv
  <2>2. PICK t, e : t = busy[g].text /\ e = [text |-> t, char |-> Head(busy[g].left)]
    OBVIOUS
  <2>3. IsBusy(g) /\ e \in Event /\ e.text = t /\ (typed' = typed \/ typed' = Append(typed, e))
    BY <1>4, <2>1, <2>2, TypedCharacter
  <2>4. CASE typed' = typed
    BY <1>1, <2>1, <2>4 DEF InOrder
  <2>5. CASE typed' = Append(typed, e)
    <3>1. PICK n : n = Len(results[g]) + 1
      OBVIOUS
    <3>2. n \in 1 .. Len(accepted[g]) /\ accepted[g][n] = t
      <4>1. /\ Len(accepted[g]) = Len(results[g]) + 1 + Len(queue[g]) /\ Len(accepted[g]) \in Nat
            /\ Len(results[g]) \in Nat /\ Len(queue[g]) \in Nat /\ accepted[g][n] = t
        BY <2>1, <2>2, <2>3, <3>1, ServiceFacts
      <4>2. QED
        BY <3>1, <4>1, FirstPlace
    <3>3. typed \in Seq(Event) /\ Len(typed) \in Nat
      BY <2>1, LenProperties DEF LineTypeInv, LineTypes
    <3>4. /\ Len(typed') = Len(typed) + 1 /\ typed'[Len(typed) + 1] = e
          /\ \A i \in 1 .. Len(typed) : typed'[i] = typed[i]
      BY <2>3, <2>5, <3>3, AppendProperties
    <3>5. ASSUME NEW h \in Services, NEW m \in 1 .. Len(accepted[h]), t = accepted[h][m]
          PROVE  h = g /\ m = n
      BY <2>1, <3>2, <3>5, OnceAt
    <3>6. ASSUME NEW i \in 1 .. Len(typed), NEW k \in 1 .. Len(accepted[g]),
                 typed[i].text = accepted[g][k]
          PROVE  k <= n
      <4>1. PICK h \in Services : Taken(h, typed[i].text)
        BY <2>1 DEF Begun
      <4>2. PICK m \in 1 .. Len(results[h]) + Typing(h) : typed[i].text = accepted[h][m]
        BY <4>1 DEF Taken
      <4>3. m \in 1 .. Len(accepted[h])
        BY <2>1, <4>2, PlacesWithin
      <4>4. accepted[h][m] = accepted[g][k]
        BY <3>6, <4>2
      <4>5. h = g /\ m = k
        BY <2>1, <4>3, <4>4, OnceAt
      <4>6. Len(results[g]) \in Nat /\ Typing(g) \in {0, 1}
        BY <2>1, ServiceFacts
      <4>7. QED
        BY <3>1, <4>2, <4>5, <4>6
    <3>7. ASSUME NEW h \in Services, NEW i \in 1 .. Len(typed'), NEW j \in 1 .. Len(typed'),
                 NEW k \in 1 .. Len(accepted[h]), NEW m \in 1 .. Len(accepted[h]),
                 i <= j, typed'[i].text = accepted[h][k], typed'[j].text = accepted[h][m]
          PROVE  k <= m
      <4>1. CASE j \in 1 .. Len(typed)
        <5>1. i \in 1 .. Len(typed) /\ typed'[i] = typed[i] /\ typed'[j] = typed[j]
          BY <3>3, <3>4, <3>7, <4>1
        <5>2. QED
          BY <1>1, <3>7, <4>1, <5>1, Zenon DEF InOrder
      <4>2. CASE j = Len(typed) + 1
        <5>1. typed'[j].text = t
          BY <2>3, <3>4, <4>2
        <5>2. h = g /\ m = n
          BY <3>5, <3>7, <5>1
        <5>3. CASE i \in 1 .. Len(typed)
          BY <3>4, <3>6, <3>7, <5>2, <5>3
        <5>4. CASE i = Len(typed) + 1
          <6>1. typed'[i].text = t
            BY <2>3, <3>4, <5>4
          <6>2. k = n
            BY <3>5, <3>7, <6>1
          <6>3. QED
            BY <5>2, <6>2
        <5>5. QED
          BY <3>3, <3>4, <5>3, <5>4
      <4>3. QED
        BY <3>3, <3>4, <4>1, <4>2
    <3>8. QED
      BY <2>1, <3>7, Zenon DEF InOrder
  <2>6. QED
    BY <2>3, <2>4, <2>5
<1>5. CASE typed' = typed /\ accepted' = accepted
  BY <1>3, <1>5
<1>6. ASSUME NEW p \in Phones, handle_text(p) PROVE \A g \in Services : InOrder(g)'
  <2>1. typed' = typed
    BY <1>6 DEF handle_text
  <2>2. accepted' = accepted \/ \E t : accepted' = [accepted EXCEPT ![service] = Append(@, t)] /\ t \in Texts
    <3>1. [from |-> p, n |-> handled[p] + 1] \in Texts
      BY <1>1, <1>6, NextText DEF handle_text, LineInv, LineTypeInv, QueueInv
    <3>2. QED
      BY <1>6, <3>1 DEF handle_text, enqueue_injection
  <2>3. CASE accepted' = accepted
    BY <1>5, <2>1, <2>3
  <2>4. ASSUME NEW t \in Texts, accepted' = [accepted EXCEPT ![service] = Append(@, t)]
        PROVE  \A h \in Services : \A k \in 1 .. Len(accepted[h]) :
                  k \in 1 .. Len(accepted'[h]) /\ accepted'[h][k] = accepted[h][k]
    <3>1. ASSUME NEW h \in Services, NEW k \in 1 .. Len(accepted[h])
          PROVE  k \in 1 .. Len(accepted'[h]) /\ accepted'[h][k] = accepted[h][k]
      <4>1. accepted[h] \in Seq(Texts) /\ Len(accepted[h]) \in Nat /\ DOMAIN accepted = Services
        BY <1>1, ServiceFacts DEF LineInv, LineTypeInv, QueueInv, QueueTypeOK
      <4>2. accepted'[h] = accepted[h] \/ accepted'[h] = Append(accepted[h], t)
        BY <2>4, <4>1
      <4>3. QED
        BY <4>1, <4>2, AppendProperties
    <3>2. QED
      BY <3>1
  <2>5. QED
    BY <1>3, <2>1, <2>2, <2>3, <2>4
<1>7. CASE (\E g \in Services : pop_front(g) \/ Finish(g) \/ Fail(g)) \/ start_server \/ stop_server
           \/ UNCHANGED vars
  <2>1. typed' = typed /\ accepted' = accepted
    BY <1>7 DEF pop_front, Finish, Fail, Report, start_server, stop_server, vars
  <2>2. QED
    BY <1>5, <2>1
<1>8. QED
  BY <1>4, <1>6, <1>7 DEF Next, Process

LEMMA CursorInvariant == Spec => []CursorInv
<1>1. Init => CursorInv
  <2>1. Init => \A g \in Services : InOrder(g)
    BY DEF Init, InOrder
  <2>2. QED
    BY <2>1, LineInit DEF CursorInv
<1>2. CursorInv /\ [Next]_vars => CursorInv'
  BY CursorStep
<1>3. QED
  BY <1>1, <1>2, PTL DEF Spec

\* Two key events of a text have, between them, no key event of another text that
\* the same service accepted.
LEMMA NothingBetween ==
    ASSUME CursorInv, NEW g \in Services,
           NEW i \in 1 .. Len(typed), NEW j \in 1 .. Len(typed), NEW k \in i .. j,
           typed[i].text = typed[j].text,
           AcceptedBy(g, typed[i].text), AcceptedBy(g, typed[k].text)
    PROVE  typed[k].text = typed[i].text
<1>1. PICK a \in 1 .. Len(accepted[g]) : typed[i].text = accepted[g][a]
  BY DEF AcceptedBy
<1>2. PICK b \in 1 .. Len(accepted[g]) : typed[k].text = accepted[g][b]
  BY DEF AcceptedBy
<1>3. Len(typed) \in Nat /\ Len(accepted[g]) \in Nat
  BY LenProperties, ServiceFacts DEF CursorInv, LineInv, LineTypeInv, LineTypes
<1>4. k \in 1 .. Len(typed) /\ i <= k /\ k <= j
  BY <1>3
<1>5. InOrder(g)
  BY DEF CursorInv
<1>6. a <= b /\ b <= a
  BY <1>1, <1>2, <1>4, <1>5 DEF InOrder
<1>7. a = b
  BY <1>3, <1>6
<1>8. QED
  BY <1>1, <1>2, <1>7

\* connection.rs:56, queue by queue: the texts that one service accepted do not
\* interleave at the cursor, for any phones, texts, limits and restarts.
THEOREM QueueTypesOneByOne == Spec => []TextsApart
<1>1. CursorInv => TextsApart
  BY NothingBetween DEF TextsApart
<1>2. QED
  BY <1>1, CursorInvariant, PTL

\* As long as the service is started only once, no texts interleave at all.
THEOREM OneStartNoInterleaving ==
    ASSUME MaxStarts = 1 PROVE Spec => []NoInterleaving
<1>1. CursorInv => NoInterleaving
  <2>1. SUFFICES ASSUME CursorInv, NEW i \in 1 .. Len(typed), NEW j \in 1 .. Len(typed), i < j,
                        typed[i].text = typed[j].text, NEW k \in i .. j
                 PROVE  typed[k].text = typed[i].text
    BY Zenon DEF NoInterleaving
  <2>2. Services = {1} /\ LineTypeInv /\ Begun
    <3>1. LineTypeInv /\ Begun
      BY <2>1 DEF CursorInv, LineInv
    <3>2. 1 .. 1 = {1}
      OBVIOUS
    <3>3. QED
      BY <3>1, <3>2, Zenon DEF Services
  <2>3. Len(typed) \in Nat
    BY <2>2, LenProperties DEF LineTypeInv, LineTypes
  <2>4. ASSUME NEW m \in 1 .. Len(typed) PROVE AcceptedBy(1, typed[m].text)
    <3>1. Taken(1, typed[m].text)
      BY <2>2 DEF Begun
    <3>2. QED
      BY <2>2, <3>1, PlacesWithin DEF Taken, AcceptedBy
  <2>5. k \in 1 .. Len(typed)
    BY <2>3
  <2>6. QED
    BY <2>1, <2>2, <2>4, <2>5, NothingBetween
<1>2. QED
  BY <1>1, CursorInvariant, PTL
=============================================================================
