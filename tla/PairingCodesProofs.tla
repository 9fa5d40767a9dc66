------------------------- MODULE PairingCodesProofs -------------------------
(***************************************************************************)
(* Theorems about PairingCodes, for every lifetime, every limit and any    *)
(* number of phones and codes.                                             *)
(***************************************************************************)
EXTENDS PairingCodes, SequenceTheorems, TLAPS

CodeTypeOK ==
    /\ now \in 0 .. MaxNow /\ slept \in BOOLEAN
    /\ code \in [val : Codes, at : 0 .. now] \cup {None}
    /\ timer \in Nat \cup {None} /\ lag \in Nat
TokenTypeOK ==
    /\ tokens \in Seq([id : Nat, at : Nat]) /\ Len(tokens) <= MaxTokens
    /\ issued \in Seq(Nat)
ScreenTypeOK ==
    /\ events \in Seq(Codes)
    /\ poll \in Shown \cup {None}
    /\ screen \in [code : Codes, qr : Codes] \cup {None}
PhoneTypeOK ==
    phone \in [Phones -> [code : Codes \cup {None}, tok : Nat, offer : {None, "code", "token"}]]

\* Why the timer keeps up: while the host is awake, the age of the code and what
\* the timer still sleeps add up to one sleep, or to that and the start's lag.
Age == now - code.at
TimerInv ==
    /\ timer # None => code # None
    /\ code = None => lag = 0
    /\ code # None /\ ~slept =>
         IF timer = None THEN Age = lag
         ELSE Interval <= Age + timer /\ Age + timer <= Interval + lag

\* Why a token lives as long as it does: the list is the newest MaxTokens of all
\* tokens issued, each under its number and with its time of issue.
Newest(s, i) ==
    \A n \in 1 .. Len(s) : s[n] = [id |-> Len(i) - Len(s) + n, at |-> i[Len(i) - Len(s) + n]]
NewestInv ==
    /\ Len(tokens) = IF Len(issued) < MaxTokens THEN Len(issued) ELSE MaxTokens
    /\ Newest(tokens, issued)

LEMMA IntervalNat == Interval \in Nat /\ Interval >= Expiry /\ Interval >= 1
  BY CodesAssumption DEF Interval

-----------------------------------------------------------------------------
(* The code and its timer.                                                 *)

CodeInv == CodeTypeOK /\ TimerInv

LEMMA CodeFrame ==
    ASSUME CodeInv, UNCHANGED <<now, slept, code, timer, lag>> PROVE CodeInv'
  BY DEF CodeInv, CodeTypeOK, TimerInv, Age

LEMMA CodeStep == ASSUME CodeInv, [Next]_vars PROVE CodeInv'
<1> USE CodesAssumption, NoneAssumption, IntervalNat
<1>1. ASSUME NEW c \in Codes, IssueFirst(c) PROVE CodeInv'
  <2>1. /\ UNCHANGED <<now, slept, timer, lag>> /\ timer = None /\ lag = 0
        /\ code' = [val |-> c, at |-> now]
    BY <1>1 DEF IssueFirst, issue_pairing_code, CodeInv, CodeTypeOK, TimerInv
  <2>2. code' # None /\ code'.at = now /\ now \in Nat
    BY <2>1 DEF CodeInv, CodeTypeOK
  <2>3. CodeTypeOK'
    BY <2>1 DEF CodeInv, CodeTypeOK
  <2>4. QED
    BY <2>1, <2>2, <2>3 DEF CodeInv, CodeTypeOK, TimerInv, Age
<1>2. ASSUME spawn_pairing_code_rotation PROVE CodeInv'
  BY <1>2 DEF spawn_pairing_code_rotation, CodeInv, CodeTypeOK, TimerInv, Age
<1>3. ASSUME NEW c \in Codes, TimerFires(c) PROVE CodeInv'
  <2>1. /\ UNCHANGED <<now, slept, lag>> /\ timer = 0 /\ timer' = Interval /\ code # None
        /\ code' = IF now - code.at >= Expiry THEN [val |-> c, at |-> now] ELSE code
    BY <1>3 DEF TimerFires, rotate_pairing_code_if_expired, issue_pairing_code, CodeInv, TimerInv
  <2>2. code.at \in 0 .. now /\ code.val \in Codes
    BY <2>1 DEF CodeInv, CodeTypeOK
  <2>3. CodeTypeOK'
    BY <2>1, <2>2 DEF CodeInv, CodeTypeOK
  <2>4. CASE now - code.at >= Expiry
    <3>1. code' # None /\ code'.at = now /\ now \in Nat
      BY <2>1, <2>4 DEF CodeInv, CodeTypeOK
    <3>2. QED
      BY <2>1, <2>3, <3>1 DEF CodeInv, CodeTypeOK, TimerInv, Age
  <2>5. CASE ~(now - code.at >= Expiry)
    <3>1. slept = TRUE
      BY <2>1, <2>2, <2>5 DEF CodeInv, CodeTypeOK, TimerInv, Age
    <3>2. QED
      BY <2>1, <2>3, <2>5, <3>1 DEF CodeInv, CodeTypeOK, TimerInv, Age
  <2>6. QED
    BY <2>4, <2>5
<1>4. ASSUME Tick PROVE CodeInv'
  <2>1. CodeTypeOK'
    BY <1>4 DEF Tick, Running, CodeInv, CodeTypeOK
  <2>2. TimerInv'
    <3>1. CASE code = None
      BY <1>4, <3>1 DEF Tick, Running, CodeInv, CodeTypeOK, TimerInv
    <3>2. CASE code # None
      <4>1. code.at \in 0 .. now
        BY <3>2 DEF CodeInv, CodeTypeOK
      <4>2. Age \in Nat /\ Age' = Age + 1
        BY <1>4, <4>1 DEF Tick, Age, CodeInv, CodeTypeOK
      <4>3. CASE timer = None
        BY <1>4, <3>2, <4>2, <4>3 DEF Tick, Running, CodeInv, CodeTypeOK, TimerInv
      <4>4. CASE timer # None
        BY <1>4, <3>2, <4>2, <4>4 DEF Tick, Running, CodeInv, CodeTypeOK, TimerInv
      <4>5. QED
        BY <4>3, <4>4
    <3>3. QED
      BY <3>1, <3>2
  <2>3. QED
    BY <2>1, <2>2 DEF CodeInv
<1>5. ASSUME HostSleeps PROVE CodeInv'
  BY <1>5 DEF HostSleeps, codeVars, CodeInv, CodeTypeOK, TimerInv
<1>6. Screen \/ (\E p \in Phones : Phone(p)) \/ UNCHANGED vars
        => UNCHANGED <<now, slept, code, timer, lag>>
  BY DEF Screen, get_connection_info, build_qr_payload, PollArrives, EventArrives, Phone, Scan,
         Offer, issue_connection_token, AcceptToken, Reject, codeVars, vars
<1>7. QED
  BY <1>1, <1>2, <1>3, <1>4, <1>5, <1>6, CodeFrame DEF Next, generate_pairing_code

LEMMA CodeInvariant == Spec => []CodeInv
<1>1. Init => CodeInv
  <2>1. ASSUME Init PROVE CodeTypeOK
    <3>1. slept \in BOOLEAN
      BY <2>1, Zenon DEF Init
    <3>2. now \in 0 .. MaxNow /\ timer \in Nat \cup {None} /\ lag \in Nat
      BY <2>1, CodesAssumption DEF Init
    <3>3. code \in [val : Codes, at : 0 .. now] \cup {None}
      BY <2>1, Zenon DEF Init
    <3>4. QED
      BY <3>1, <3>2, <3>3 DEF CodeTypeOK
  <2>2. Init => TimerInv
    BY DEF Init, TimerInv
  <2>3. QED
    BY <2>1, <2>2 DEF CodeInv
<1>2. CodeInv /\ [Next]_vars => CodeInv'
  BY CodeStep
<1>3. QED
  BY <1>1, <1>2, PTL DEF Spec

\* Unless the host sleeps, no code outlives its lifetime by more than the time
\* start_server took to spawn the timer.
THEOREM CodeAge == Spec => []ExpiredOnlyBriefly
<1>1. CodeInv => ExpiredOnlyBriefly
  <2>1. ASSUME CodeInv, code # None, ~slept PROVE now - code.at <= Interval + lag
    <3>1. code.at \in 0 .. now
      BY <2>1 DEF CodeInv, CodeTypeOK
    <3>2. QED
      BY <2>1, <3>1, IntervalNat, CodesAssumption DEF CodeInv, CodeTypeOK, TimerInv, Age
  <2>2. QED
    BY <2>1 DEF ExpiredOnlyBriefly
<1>2. QED
  BY <1>1, CodeInvariant, PTL
-----------------------------------------------------------------------------
(* The tokens.                                                             *)

TokenInv == TokenTypeOK /\ NewestInv

Token == [id : Nat, at : Nat]

\* One more token issued: the list with it is the newest of all with it.
LEMMA NewestAppended ==
    ASSUME NEW s \in Seq(Token), NEW i \in Seq(Nat), NEW t \in Nat, Newest(s, i),
           Len(s) <= Len(i)
    PROVE  LET m == Append(s, [id |-> Len(i) + 1, at |-> t])
               j == Append(i, t)
           IN
           /\ m \in Seq(Token) /\ Len(m) = Len(s) + 1
           /\ j \in Seq(Nat) /\ Len(j) = Len(i) + 1
           /\ Newest(m, j)
<1> DEFINE new == [id |-> Len(i) + 1, at |-> t]
           m == Append(s, new)
           j == Append(i, t)
<1>1. Len(s) \in Nat /\ Len(i) \in Nat
  BY LenProperties
<1>2. new \in Token
  BY <1>1 DEF Token
<1>3. /\ m \in Seq(Token) /\ Len(m) = Len(s) + 1
      /\ \A n \in 1 .. Len(s) : m[n] = s[n]
      /\ m[Len(s) + 1] = new
  <2> HIDE DEF new
  <2>1. QED
    BY <1>2, AppendProperties
<1>4. /\ j \in Seq(Nat) /\ Len(j) = Len(i) + 1
      /\ \A n \in 1 .. Len(i) : j[n] = i[n]
      /\ j[Len(i) + 1] = t
  BY AppendProperties
<1> HIDE DEF m, j
<1>5. ASSUME NEW n \in 1 .. Len(m)
      PROVE  m[n] = [id |-> Len(j) - Len(m) + n, at |-> j[Len(j) - Len(m) + n]]
  <2>1. Len(j) - Len(m) + n = Len(i) - Len(s) + n
    BY <1>1, <1>3, <1>4
  <2>2. CASE n = Len(s) + 1
    <3>1. Len(i) - Len(s) + n = Len(i) + 1
      BY <1>1, <2>2
    <3>2. m[n] = [id |-> Len(i) + 1, at |-> j[Len(i) + 1]]
      BY <1>3, <1>4, <2>2, Zenon
    <3>3. QED
      BY <2>1, <3>1, <3>2, Zenon
  <2>3. CASE n \in 1 .. Len(s)
    <3>1. Len(i) - Len(s) + n \in 1 .. Len(i)
      BY <1>1, <2>3
    <3>2. QED
      BY <1>3, <1>4, <2>1, <2>3, <3>1 DEF Newest
  <2>4. n = Len(s) + 1 \/ n \in 1 .. Len(s)
    <3>1. n \in 1 .. Len(s) + 1
      BY <1>3
    <3>2. QED
      BY <1>1, <3>1
  <2>5. QED
    BY <2>2, <2>3, <2>4, Zenon
<1>6. QED
  BY <1>3, <1>4, <1>5 DEF Newest, m, j

\* What Capped keeps is still the newest.
LEMMA NewestCapped ==
    ASSUME NEW m \in Seq(Token), NEW j \in Seq(Nat), Newest(m, j),
           Len(m) <= MaxTokens + 1, Len(m) <= Len(j)
    PROVE  /\ Capped(m) \in Seq(Token) /\ Newest(Capped(m), j)
           /\ Len(Capped(m)) = IF Len(m) > MaxTokens THEN MaxTokens ELSE Len(m)
<1>1. Len(m) \in Nat /\ Len(j) \in Nat /\ MaxTokens \in Nat \ {0}
  BY LenProperties, CodesAssumption
<1>2. CASE Len(m) > MaxTokens
  <2>1. Len(m) = MaxTokens + 1 /\ Len(m) - MaxTokens + 1 = 2
    BY <1>1, <1>2
  <2> Capped(m) = SubSeq(m, 2, Len(m))
    BY <1>2, <2>1, Zenon DEF Capped
  <2>2. \A n \in 2 .. Len(m) : m[n] \in Token
    <3>1. \A n \in 1 .. Len(m) : m[n] \in Token
      BY ElementOfSeq
    <3>2. QED
      BY <1>1, <3>1
  <2>3. 2 \in Int /\ Len(m) \in Int
    BY <1>1
  <2>4. /\ SubSeq(m, 2, Len(m)) \in Seq(Token)
        /\ Len(SubSeq(m, 2, Len(m))) = IF 2 <= Len(m) THEN Len(m) - 2 + 1 ELSE 0
        /\ \A n \in 1 .. Len(m) - 2 + 1 : SubSeq(m, 2, Len(m))[n] = m[2 + n - 1]
    BY <2>2, <2>3, SubSeqProperties
  <2>5. Len(Capped(m)) = MaxTokens
    BY <1>1, <2>1, <2>4
  <2>6. ASSUME NEW n \in 1 .. MaxTokens
        PROVE  Capped(m)[n] = [id |-> Len(j) - MaxTokens + n, at |-> j[Len(j) - MaxTokens + n]]
    <3>1. n + 1 \in 1 .. Len(m) /\ n \in 1 .. Len(m) - 2 + 1 /\ 2 + n - 1 = n + 1
      BY <1>1, <2>1, <2>6
    <3> Capped(m)[n] = m[n + 1]
      BY <2>4, <3>1, Zenon
    <3>2. Len(j) - Len(m) + (n + 1) = Len(j) - MaxTokens + n
      BY <1>1, <2>1
    <3>3. QED
      BY <3>1, <3>2, Zenon DEF Newest
  <2>7. QED
    BY <1>2, <2>4, <2>5, <2>6 DEF Newest
<1>3. CASE ~(Len(m) > MaxTokens)
  BY <1>3 DEF Capped
<1>4. QED
  BY <1>2, <1>3

LEMMA TokenStep == ASSUME CodeTypeOK, TokenInv, [Next]_vars PROVE TokenInv'
<1> USE CodesAssumption
<1>1. now \in Nat /\ now' \in Nat /\ now <= now'
  <2>1. now \in Nat
    BY DEF CodeTypeOK
  <2>2. now' = now \/ now' = now + 1
    BY Zenon DEF Next, vars, IssueFirst, TimerFires, spawn_pairing_code_rotation, Tick,
         HostSleeps, Screen, get_connection_info, build_qr_payload, PollArrives, EventArrives,
         Phone, Scan, Offer, issue_connection_token, AcceptToken, Reject
  <2>3. QED
    BY <2>1, <2>2
<1>2. ASSUME UNCHANGED <<tokens, issued>> PROVE TokenInv'
  BY <1>2 DEF TokenInv, TokenTypeOK, NewestInv
<1>3. ASSUME NEW p \in Phones, issue_connection_token(p) PROVE TokenInv'
  <2> DEFINE more == Append(tokens, [id |-> Len(issued) + 1, at |-> now])
  <2>1. /\ issued' = Append(issued, now) /\ tokens' = Capped(more)
    BY <1>3 DEF issue_connection_token, add_connection_token, generate_connection_token
  <2>2. /\ tokens \in Seq(Token) /\ issued \in Seq(Nat)
        /\ Len(tokens) \in Nat /\ Len(issued) \in Nat /\ Len(tokens) <= MaxTokens
        /\ Len(tokens) <= Len(issued) /\ Newest(tokens, issued)
        /\ Len(tokens) = IF Len(issued) < MaxTokens THEN Len(issued) ELSE MaxTokens
    BY DEF TokenInv, TokenTypeOK, NewestInv, Token
  <2> HIDE DEF more
  <2>3. /\ more \in Seq(Token) /\ Len(more) = Len(tokens) + 1
        /\ issued' \in Seq(Nat) /\ Len(issued') = Len(issued) + 1
        /\ Newest(more, issued')
    BY <1>1, <2>1, <2>2, NewestAppended DEF more
  <2>4. /\ tokens' \in Seq(Token) /\ Newest(tokens', issued')
        /\ Len(tokens') = IF Len(more) > MaxTokens THEN MaxTokens ELSE Len(more)
    <3>1. Len(more) <= MaxTokens + 1 /\ Len(more) <= Len(issued')
      BY <2>2, <2>3
    <3>2. QED
      BY <2>1, <2>3, <3>1, NewestCapped
  <2>5. QED
    BY <2>2, <2>3, <2>4 DEF TokenInv, TokenTypeOK, NewestInv, Token
<1>4. (\E c \in Codes : IssueFirst(c) \/ TimerFires(c)) \/ spawn_pairing_code_rotation
        \/ Tick \/ HostSleeps \/ Screen
        \/ (\E p \in Phones : Scan(p) \/ Offer(p) \/ AcceptToken(p) \/ Reject(p))
        \/ UNCHANGED vars
        => UNCHANGED <<tokens, issued>>
  BY DEF vars, IssueFirst, TimerFires, spawn_pairing_code_rotation, Tick,
         HostSleeps, Screen, get_connection_info, build_qr_payload, PollArrives, EventArrives,
         Scan, Offer, AcceptToken, Reject
<1>5. QED
  BY <1>2, <1>3, <1>4 DEF Next, Phone, generate_pairing_code

LEMMA TokenInvariant == Spec => []TokenInv
<1>1. Init => TokenInv
  <2>1. Init => tokens = <<>> /\ issued = <<>> /\ Len(tokens) = 0 /\ Len(issued) = 0
    BY DEF Init
  <2>2. QED
    BY <2>1, CodesAssumption DEF TokenInv, TokenTypeOK, NewestInv, Newest
<1>2. CodeTypeOK /\ TokenInv /\ [Next]_vars => TokenInv'
  BY TokenStep
<1>3. CodeInv => CodeTypeOK
  BY DEF CodeInv
<1>4. QED
  BY <1>1, <1>2, <1>3, CodeInvariant, PTL DEF Spec

\* A token is accepted exactly until it is too old or MaxTokens newer ones were
\* issued.
THEOREM TokenLifetime == Spec => []TokenLife
<1>1. CodeTypeOK /\ TokenInv => TokenLife
  <2>1. SUFFICES ASSUME CodeTypeOK, TokenInv, NEW k \in 1 .. Len(issued)
                 PROVE verify_connection_token(k) <=>
                         now - issued[k] <= TokenTTL /\ Len(issued) - k < MaxTokens
    BY DEF TokenLife
  <2>2. /\ now \in Nat /\ Len(issued) \in Nat /\ Len(tokens) \in Nat
        /\ Len(tokens) <= Len(issued)
    BY <2>1, CodesAssumption DEF CodeTypeOK, TokenInv, TokenTypeOK, NewestInv
  <2> DEFINE first == Len(issued) - Len(tokens)
  <2>3. \A n \in 1 .. Len(tokens) :
          tokens[n].id = first + n /\ tokens[n].at = issued[first + n]
    <3>1. ASSUME NEW n \in 1 .. Len(tokens)
          PROVE  tokens[n].id = first + n /\ tokens[n].at = issued[first + n]
      <4>1. tokens[n] = [id |-> first + n, at |-> issued[first + n]]
        BY <2>1, <3>1, Zenon DEF TokenInv, NewestInv, Newest
      <4> HIDE DEF first
      <4>2. QED
        BY <4>1
    <3>2. QED
      BY <3>1
  <2>4. Len(issued) - k < MaxTokens <=> k > first
    BY <2>1, <2>2, CodesAssumption DEF TokenInv, NewestInv
  <2>5. ASSUME verify_connection_token(k) PROVE now - issued[k] <= TokenTTL /\ k > first
    <3>1. PICK n \in 1 .. Len(tokens) : tokens[n].id = k /\ now - tokens[n].at <= TokenTTL
      BY <2>5 DEF verify_connection_token
    <3>2. k = first + n
      BY <2>3, <3>1
    <3>3. QED
      BY <2>2, <2>3, <3>1, <3>2
  <2>6. ASSUME now - issued[k] <= TokenTTL, k > first PROVE verify_connection_token(k)
    <3>1. k - first \in 1 .. Len(tokens) /\ first + (k - first) = k
      BY <2>2, <2>6
    <3>2. tokens[k - first].id = k /\ tokens[k - first].at = issued[k]
      BY <2>3, <3>1
    <3>3. QED
      BY <2>6, <3>1, <3>2 DEF verify_connection_token
  <2>7. QED
    BY <2>4, <2>5, <2>6
<1>2. CodeInv => CodeTypeOK
  BY DEF CodeInv
<1>3. QED
  BY <1>1, <1>2, CodeInvariant, TokenInvariant, PTL

-----------------------------------------------------------------------------
(* Types.                                                                  *)

ShownInv ==
    /\ ScreenTypeOK /\ PhoneTypeOK
    /\ poll # None => timer # None

LEMMA ShownStep == ASSUME CodeInv, TokenTypeOK, ShownInv, [Next]_vars PROVE ShownInv'
<1>1. CodeInv /\ timer # None => code.val \in Codes
  BY DEF CodeInv, CodeTypeOK, TimerInv
<1>2. ASSUME NEW c \in Codes, IssueFirst(c) PROVE ShownInv'
  BY <1>2 DEF IssueFirst, screenVars, ShownInv, ScreenTypeOK, PhoneTypeOK
<1>3. ASSUME NEW c \in Codes, TimerFires(c) PROVE ShownInv'
  <2>1. code'.val \in Codes /\ timer' # None
    BY <1>1, <1>3, IntervalNat, NoneAssumption
       DEF TimerFires, rotate_pairing_code_if_expired, issue_pairing_code
  <2>2. events' \in Seq(Codes)
    <3>1. events \in Seq(Codes)
      BY DEF ShownInv, ScreenTypeOK
    <3>2. Append(events, code'.val) \in Seq(Codes)
      BY <2>1, <3>1, AppendProperties
    <3>3. QED
      BY <1>3, <3>1, <3>2 DEF TimerFires
  <2>3. UNCHANGED <<poll, screen, phone>>
    BY <1>3 DEF TimerFires
  <2>4. QED
    BY <2>1, <2>2, <2>3 DEF ShownInv, ScreenTypeOK, PhoneTypeOK
<1>4. ASSUME Screen PROVE ShownInv'
  <2>1. UNCHANGED <<phone, timer>>
    BY <1>4 DEF Screen, get_connection_info, build_qr_payload, PollArrives, EventArrives, codeVars
  <2>2. CASE get_connection_info
    <3>1. [code |-> code.val, qr |-> None] \in Shown /\ timer # None
      BY <1>1, <2>2 DEF get_connection_info, Running, Shown
    <3>2. QED
      BY <2>1, <2>2, <3>1 DEF get_connection_info, ShownInv, ScreenTypeOK, PhoneTypeOK
  <2>3. CASE build_qr_payload
    <3>1. poll \in Shown /\ timer # None
      BY <2>3 DEF build_qr_payload, ShownInv, ScreenTypeOK
    <3>2. [poll EXCEPT !.qr = code.val] \in Shown
      BY <1>1, <3>1 DEF Shown
    <3>3. QED
      BY <2>1, <2>3, <3>1, <3>2 DEF build_qr_payload, ShownInv, ScreenTypeOK, PhoneTypeOK
  <2>4. CASE PollArrives
    BY <2>1, <2>4 DEF PollArrives, ShownInv, ScreenTypeOK, PhoneTypeOK, Shown
  <2>5. CASE EventArrives
    <3>1. Head(events) \in Codes /\ Tail(events) \in Seq(Codes)
      BY <2>5, HeadTailProperties DEF EventArrives, ShownInv, ScreenTypeOK
    <3>2. QED
      BY <2>1, <2>5, <3>1 DEF EventArrives, ShownInv, ScreenTypeOK, PhoneTypeOK
  <2>6. QED
    BY <1>4, <2>2, <2>3, <2>4, <2>5 DEF Screen
<1>5. ASSUME NEW p \in Phones, Phone(p) PROVE ShownInv'
  <2>1. UNCHANGED <<events, poll, timer>>
    BY <1>5 DEF Phone, Scan, Offer, issue_connection_token, AcceptToken, Reject, codeVars, screenVars
  <2>2. screen' = screen
    BY <1>5 DEF Phone, Scan, Offer, issue_connection_token, AcceptToken, Reject, screenVars
  <2>3. PhoneTypeOK'
    <3>1. phone[p].code \in Codes \cup {None} /\ phone[p].tok \in Nat
          /\ phone \in [Phones -> [code : Codes \cup {None}, tok : Nat,
                                   offer : {None, "code", "token"}]]
      BY DEF ShownInv, PhoneTypeOK
    <3>2. CASE Scan(p)
      <4>1. screen.qr \in Codes
        BY <3>2 DEF Scan, ShownInv, ScreenTypeOK
      <4>2. QED
        BY <3>1, <3>2, <4>1 DEF Scan, PhoneTypeOK
    <3>3. CASE Offer(p) \/ AcceptToken(p) \/ Reject(p)
      BY <3>1, <3>3 DEF Offer, AcceptToken, Reject, PhoneTypeOK
    <3>4. CASE issue_connection_token(p)
      <4>1. Len(issued) + 1 \in Nat
        BY LenProperties DEF TokenTypeOK
      <4>2. PICK k \in Nat : phone' = [phone EXCEPT ![p].offer = None, ![p].tok = k]
        <5>1. PICK received \in BOOLEAN :
                phone' = [phone EXCEPT ![p].offer = None,
                            ![p].tok = IF received THEN Len(issued) + 1 ELSE phone[p].tok]
          BY <3>4, Zenon DEF issue_connection_token, generate_connection_token
        <5>2. (IF received THEN Len(issued) + 1 ELSE phone[p].tok) \in Nat
          BY <3>1, <4>1
        <5>3. QED
          BY <5>1, <5>2, Zenon
      <4>3. QED
        BY <3>1, <4>2 DEF PhoneTypeOK
    <3>5. QED
      BY <1>5, <3>2, <3>3, <3>4 DEF Phone
  <2>4. QED
    BY <2>1, <2>2, <2>3 DEF ShownInv, ScreenTypeOK
<1>6. ASSUME spawn_pairing_code_rotation \/ HostSleeps \/ UNCHANGED vars PROVE ShownInv'
  BY <1>6, IntervalNat, NoneAssumption
     DEF spawn_pairing_code_rotation, HostSleeps, vars, codeVars, screenVars, ShownInv, ScreenTypeOK,
         PhoneTypeOK
<1>7. ASSUME Tick PROVE ShownInv'
  <2>1. UNCHANGED <<events, poll, screen, phone>> /\ (timer # None => timer' # None)
    BY <1>7, NoneAssumption DEF Tick, Running, screenVars, CodeInv, CodeTypeOK
  <2>2. QED
    BY <2>1 DEF ShownInv, ScreenTypeOK, PhoneTypeOK
<1>8. QED
  BY <1>2, <1>3, <1>4, <1>5, <1>6, <1>7 DEF Next, generate_pairing_code

\* Every variable keeps its type.
THEOREM TypeCorrect == Spec => []TypeOK
<1>1. Init => ShownInv
  BY DEF Init, ShownInv, ScreenTypeOK, PhoneTypeOK
<1>2. CodeInv /\ TokenInv /\ ShownInv /\ [Next]_vars => ShownInv'
  BY ShownStep DEF TokenInv
<1>3. CodeInv /\ TokenInv /\ ShownInv => TypeOK
  BY DEF CodeInv, TokenInv, ShownInv, CodeTypeOK, TokenTypeOK, ScreenTypeOK, PhoneTypeOK, TypeOK
<1>4. QED
  BY <1>1, <1>2, <1>3, CodeInvariant, TokenInvariant, PTL DEF Spec
=============================================================================
