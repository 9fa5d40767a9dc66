--------------------------- MODULE TextInjection ---------------------------
(***************************************************************************)
(* From a text message on a phone's DataChannel to key events at the       *)
(* cursor: handle_text (webrtc/mod.rs), the queue and the processing task  *)
(* of ConnectionManager (connection.rs) and the injector                   *)
(* (text/injector.rs).  Every start of the service creates a manager with  *)
(* a queue and a task of its own; stopping it ends neither.                *)
(*                                                                         *)
(* A channel delivers the texts of a phone in order and its handler is     *)
(* awaited, so one phone's texts are handled one at a time.  Characters    *)
(* are reduced to the classes the injector tells apart.                    *)
(***************************************************************************)
EXTENDS Naturals, Sequences, FiniteSets

CONSTANTS
    Phones,
    Outbox,         \* what each phone sends: a sequence of texts per phone
    QueueLimit,     \* injection.queue_size
    MaxTextLength,  \* injection.max_text_length
    MaxStarts       \* bound: starts of the service

Chars == {"x", "CR", "LF", "TAB", "CTL"}

ASSUME InjectionAssumption ==
    /\ Outbox \in [Phones -> Seq(Seq(Chars))]
    /\ QueueLimit \in Nat /\ MaxTextLength \in Nat
    /\ MaxStarts \in Nat

Services == 1 .. MaxStarts

(* A text by its sender and its number.                                     *)
Texts == UNION {[from : {p}, n : 1 .. Len(Outbox[p])] : p \in Phones}
Content(t) == Outbox[t.from][t.n]

VARIABLES
    service,    \* the running service, 0 when stopped
    starts,     \* services started so far
    handled,    \* per phone: texts its channel has handled
    answers,    \* per phone: the answers sent back, "none" for a text dropped
    queue,      \* per service: injection_queue
    busy,       \* per service: the task's current text and the characters left
    accepted,   \* per service: the texts enqueued
    results,    \* per service: the on_result events
    typed       \* the key events so far, with their text

channelVars == <<handled, answers>>
vars == <<service, starts, channelVars, queue, busy, accepted, results, typed>>

(* What the desktop sends back on a channel.                               *)
ChannelMessage == {"ack", "error"}

Idle == [text |-> <<>>, left |-> <<>>]
IsBusy(g) == busy[g] # Idle

TypeOK ==
    /\ service \in 0 .. starts /\ starts \in 0 .. MaxStarts
    /\ handled \in [Phones -> Nat]
    /\ answers \in [Phones -> Seq(ChannelMessage \cup {"none"})]
    /\ queue \in [Services -> Seq(Texts)]
    /\ busy \in [Services -> [text : Texts, left : Seq(Chars)] \cup {Idle}]
    /\ accepted \in [Services -> Seq(Texts)]
    /\ results \in [Services -> Seq([text : Texts, ok : BOOLEAN])]
    /\ typed \in Seq([text : Texts, char : Chars])
    /\ \A g \in Services : Len(queue[g]) <= QueueLimit

-----------------------------------------------------------------------------
(* The injector's pure part *)

validate_text(s) == 0 < Len(s) /\ Len(s) <= MaxTextLength

(* replace("\r\n", "\n"): left to right, without overlap.                   *)
ReplaceCrLf(s) ==
    LET from[i \in 1 .. Len(s) + 1] ==
            IF i > Len(s) THEN <<>>
            ELSE IF i < Len(s) /\ s[i] = "CR" /\ s[i + 1] = "LF"
                 THEN <<"LF">> \o from[i + 2]
                 ELSE <<s[i]>> \o from[i + 1]
    IN from[1]
ReplaceCr(s) == [i \in DOMAIN s |-> IF s[i] = "CR" THEN "LF" ELSE s[i]]

normalize_newlines_Swapped(s) == ReplaceCrLf(ReplaceCr(s))
normalize_newlines(s) == ReplaceCr(ReplaceCrLf(s))

(* Line breaks and tabs are typed, other control characters are skipped.    *)
control_char_unicode(c) == c \in {"CR", "LF", "TAB"}
Typeable(c) == c = "x" \/ control_char_unicode(c)

(* What inject goes on to type.  It validates the text again, by the same   *)
(* limit: it passes.                                                        *)
inject(t) == normalize_newlines(Content(t))

-----------------------------------------------------------------------------
Init ==
    /\ service = 0 /\ starts = 0
    /\ handled = [p \in Phones |-> 0]
    /\ answers = [p \in Phones |-> <<>>]
    /\ queue = [g \in Services |-> <<>>]
    /\ busy = [g \in Services |-> Idle]
    /\ accepted = [g \in Services |-> <<>>]
    /\ results = [g \in Services |-> <<>>]
    /\ typed = <<>>

start_server ==
    /\ service = 0 /\ starts < MaxStarts
    /\ starts' = starts + 1 /\ service' = starts + 1
    /\ UNCHANGED <<channelVars, queue, busy, accepted, results, typed>>

(* The state is dropped; the task keeps the manager alive and goes on.      *)
stop_server ==
    /\ service # 0
    /\ service' = 0
    /\ UNCHANGED <<starts, channelVars, queue, busy, accepted, results, typed>>

dc_send(p, m) == answers' = [answers EXCEPT ![p] = Append(@, m)]

(* handle_text: the state stays locked from the look at it to the end of    *)
(* enqueue_injection.  Without a service the text is dropped unanswered.    *)
enqueue_injection_Full(g, t) ==
    /\ IF Len(queue[g]) >= QueueLimit
       THEN UNCHANGED queue
       ELSE queue' = [queue EXCEPT ![g] = Append(@, t)]
    /\ accepted' = [accepted EXCEPT ![g] = Append(@, t)]
    /\ dc_send(t.from, "ack")

enqueue_injection(g, t) ==
    \/ /\ Len(queue[g]) < QueueLimit
       /\ queue' = [queue EXCEPT ![g] = Append(@, t)]
       /\ accepted' = [accepted EXCEPT ![g] = Append(@, t)]
       /\ dc_send(t.from, "ack")
    \/ /\ Len(queue[g]) >= QueueLimit
       /\ dc_send(t.from, "error")
       /\ UNCHANGED <<queue, accepted>>

handle_text(p) ==
    /\ handled[p] < Len(Outbox[p])
    /\ handled' = [handled EXCEPT ![p] = @ + 1]
    /\ LET t == [from |-> p, n |-> handled[p] + 1] IN
       \/ /\ service = 0
          /\ dc_send(p, "none")
          /\ UNCHANGED <<queue, accepted>>
       \/ /\ service # 0 /\ ~validate_text(Content(t))
          /\ dc_send(p, "error")
          /\ UNCHANGED <<queue, accepted>>
       \/ /\ service # 0 /\ validate_text(Content(t))
          /\ enqueue_injection(service, t)
    /\ UNCHANGED <<service, starts, busy, results, typed>>

-----------------------------------------------------------------------------
(* The processing task of service g *)

pop_front(g) ==
    /\ ~IsBusy(g) /\ queue[g] # <<>>
    /\ LET t == Head(queue[g]) IN
       busy' = [busy EXCEPT ![g] = [text |-> t, left |-> inject(t)]]
    /\ queue' = [queue EXCEPT ![g] = Tail(@)]
    /\ UNCHANGED <<service, starts, channelVars, accepted, results, typed>>

(* One round of inject_unicode's loop.                                      *)
TypeChar(g) ==
    /\ IsBusy(g) /\ busy[g].left # <<>>
    /\ LET c == Head(busy[g].left) IN
       typed' = IF Typeable(c) THEN Append(typed, [text |-> busy[g].text, char |-> c])
                ELSE typed
    /\ busy' = [busy EXCEPT ![g].left = Tail(@)]
    /\ UNCHANGED <<service, starts, channelVars, queue, accepted, results>>

Report(g, ok) ==
    /\ results' = [results EXCEPT ![g] = Append(@, [text |-> busy[g].text, ok |-> ok])]
    /\ busy' = [busy EXCEPT ![g] = Idle]
    /\ UNCHANGED <<service, starts, channelVars, queue, accepted, typed>>

Finish(g) == IsBusy(g) /\ busy[g].left = <<>> /\ Report(g, TRUE)

(* The platform refuses the keyboard, or the next key: what was typed       *)
(* stays, the rest is given up.                                             *)
Fail_Requeues(g) ==
    /\ IsBusy(g) /\ busy[g].left # <<>>
    /\ queue' = [queue EXCEPT ![g] = Append(@, busy[g].text)]
    /\ busy' = [busy EXCEPT ![g] = Idle]
    /\ UNCHANGED <<service, starts, channelVars, accepted, results, typed>>

Fail(g) == IsBusy(g) /\ busy[g].left # <<>> /\ Report(g, FALSE)

Process(g) == pop_front(g) \/ TypeChar(g) \/ Finish(g)

Next ==
    \/ start_server \/ stop_server
    \/ \E p \in Phones : handle_text(p)
    \/ \E g \in Services : Process(g) \/ Fail(g)

Spec == Init /\ [][Next]_vars

(* The task polls its queue for ever and every call of the injector returns.*)
FairSpec == Spec /\ \A g \in Services : WF_vars(Process(g) \/ Fail(g))

-----------------------------------------------------------------------------
(* Properties *)

Attempted(g) == [k \in 1 .. Len(results[g]) |-> results[g][k].text]
Log == INSTANCE TypingLog WITH Limit <- QueueLimit,
                               attempted <- [g \in Services |-> Attempted(g)]

(* Whatever is sent, refused, typed, failed or left behind by a stop, each  *)
(* service attempts the texts it accepted once, in their order, and never   *)
(* keeps more waiting than its limit.                                       *)
ImplementsLog == Log!Spec

(* An acknowledged text is attempted, also when the service that accepted   *)
(* it is stopped first.                                                     *)
AcknowledgedIsAttempted ==
    \A g \in Services : \A k \in 1 .. Cardinality(Texts) :
        Len(accepted[g]) >= k ~> Len(results[g]) >= k

(* connection.rs:56 "the queue is processed in order, so that texts do not  *)
(* interleave at the cursor": refuted once the service was restarted.       *)
NoInterleaving ==
    \A i, j \in 1 .. Len(typed) : i < j /\ typed[i].text = typed[j].text =>
        \A k \in i .. j : typed[k].text = typed[i].text

(* Queue by queue it holds: between two key events of a text that a service *)
(* accepted come none of another text that it accepted.                     *)
AcceptedBy(g, t) == \E k \in 1 .. Len(accepted[g]) : t = accepted[g][k]
TextsApart == \A g \in Services : \A i, j \in 1 .. Len(typed) :
    typed[i].text = typed[j].text /\ AcceptedBy(g, typed[i].text) =>
        \A k \in i .. j : AcceptedBy(g, typed[k].text) => typed[k].text = typed[i].text

(* A text reported as typed has left as many line breaks at the cursor as   *)
(* it has lines to break, whatever the sender's platform writes for one,    *)
(* and every other character that can be typed; a failed one has left no    *)
(* more than that.                                                          *)
Breaks(s) == Cardinality({i \in DOMAIN s : s[i] = "CR" \/
                            (s[i] = "LF" /\ ~(i > 1 /\ s[i - 1] = "CR"))})
Others(s) == Cardinality({i \in DOMAIN s : s[i] \in {"x", "TAB"}})
At(t, C) == Cardinality({i \in DOMAIN typed : typed[i].text = t /\ typed[i].char \in C})
LinesKept ==
    \A g \in Services : \A k \in DOMAIN results[g] :
        LET t == results[g][k].text
            breaks == At(t, {"CR", "LF"})
            others == At(t, {"x", "TAB"})
        IN IF results[g][k].ok
           THEN breaks = Breaks(Content(t)) /\ others = Others(Content(t))
           ELSE breaks <= Breaks(Content(t)) /\ others <= Others(Content(t))
=============================================================================
