--------------------------- MODULE PairingCodes ----------------------------
(***************************************************************************)
(* The two credentials of the desktop (connection.rs, server/auth.rs): the *)
(* pairing code on its screen and the connection tokens it issues to the   *)
(* phones that paired with a code, with the rotation timer and the         *)
(* reading of the connection information of commands/server.rs.            *)
(*                                                                         *)
(* Codes and tokens are dated by the wall clock, `now`; the rotation       *)
(* timer sleeps on the monotonic one, which stops while the host sleeps    *)
(* (Linux, macOS).  The screen is a cache that polls and events fill.      *)
(***************************************************************************)
EXTENDS Naturals, Sequences

CONSTANTS
    Codes,       \* pairing codes; rotation may draw the same one again
    Phones,
    Expiry,      \* pairing_code_expiry_minutes, 0 allowed
    TokenTTL,    \* CONNECTION_TOKEN_TTL
    MaxTokens,   \* MAX_CONNECTION_TOKENS
    MaxNow,      \* bound: wall-clock time
    MaxIssued,   \* bound: tokens issued
    None

ASSUME CodesAssumption ==
    /\ Expiry \in Nat /\ TokenTTL \in Nat /\ MaxTokens \in Nat \ {0}
    /\ MaxNow \in Nat /\ MaxIssued \in Nat
ASSUME NoneAssumption ==
    /\ None \notin Codes /\ None \notin Nat /\ None \notin {"code", "token"}
    /\ None \notin [val : Codes, at : Nat]

VARIABLES
    now,
    code,     \* pairing_code with its time of issue
    timer,    \* what the rotation task still sleeps, None before it is spawned
    lag,      \* time from the first code to the spawning of the timer
    slept,    \* the host slept
    tokens,   \* ConnectionState.tokens: number and time of issue, oldest first
    issued,   \* the time of issue of every token so far
    events,   \* pairing_code_rotated events on their way to the screen
    poll,     \* get_connection_info: nothing, the code, or the code and the QR code
    screen,   \* what the desktop shows: the code and the QR code
    phone     \* per phone: the scanned code, the stored token, what it offers

codeVars == <<code, timer, lag>>
screenVars == <<events, poll, screen>>
vars == <<now, slept, codeVars, tokens, issued, screenVars, phone>>

Shown == [code : Codes, qr : Codes \cup {None}]
TypeOK ==
    /\ now \in 0 .. MaxNow /\ slept \in BOOLEAN
    /\ code \in [val : Codes, at : 0 .. now] \cup {None}
    /\ timer \in Nat \cup {None} /\ lag \in Nat
    /\ tokens \in Seq([id : Nat, at : Nat]) /\ Len(tokens) <= MaxTokens
    /\ issued \in Seq(Nat)
    /\ events \in Seq(Codes)
    /\ poll \in Shown \cup {None}
    /\ screen \in [code : Codes, qr : Codes] \cup {None}
    /\ phone \in [Phones -> [code : Codes \cup {None}, tok : Nat,
                             offer : {None, "code", "token"}]]

Init ==
    /\ now = 0 /\ slept = FALSE /\ lag = 0
    /\ code = None /\ timer = None
    /\ tokens = <<>> /\ issued = <<>>
    /\ events = <<>> /\ poll = None /\ screen = None
    /\ phone = [p \in Phones |-> [code |-> None, tok |-> 0, offer |-> None]]

Interval == IF Expiry > 1 THEN Expiry ELSE 1
Running == timer # None

-----------------------------------------------------------------------------
(* start_server and the rotation task *)

(* Any code, the present one included.                                      *)
generate_pairing_code == Codes

issue_pairing_code(c) == code' = [val |-> c, at |-> now]

IssueFirst(c) ==
    /\ code = None
    /\ issue_pairing_code(c)
    /\ UNCHANGED <<now, slept, timer, lag, tokens, issued, screenVars, phone>>

(* The state is published and the task spawned, which sleeps first.         *)
spawn_pairing_code_rotation ==
    /\ code # None /\ timer = None
    /\ timer' = Interval
    /\ UNCHANGED <<now, slept, code, lag, tokens, issued, screenVars, phone>>

rotate_pairing_code_if_expired_Strictly(c) ==
    IF now - code.at > Expiry
    THEN issue_pairing_code(c) ELSE UNCHANGED code

rotate_pairing_code_if_expired(c) ==
    IF now - code.at >= Expiry
    THEN issue_pairing_code(c) ELSE UNCHANGED code

(* The state is locked throughout and no one else issues codes meanwhile.   *)
TimerFires(c) ==
    /\ timer = 0
    /\ rotate_pairing_code_if_expired(c)
    /\ events' = IF code'.val # code.val THEN Append(events, code'.val) ELSE events
    /\ timer' = Interval
    /\ UNCHANGED <<now, slept, lag, tokens, issued, poll, screen, phone>>

-----------------------------------------------------------------------------
(* Time: a timer that has run out fires before time goes on.                *)

Tick ==
    /\ now < MaxNow /\ timer # 0
    /\ now' = now + 1
    /\ timer' = IF Running THEN timer - 1 ELSE timer
    /\ lag' = IF code # None /\ ~Running THEN lag + 1 ELSE lag
    /\ UNCHANGED <<slept, code, tokens, issued, screenVars, phone>>

HostSleeps ==
    /\ now < MaxNow
    /\ now' = now + 1 /\ slept' = TRUE
    /\ UNCHANGED <<codeVars, tokens, issued, screenVars, phone>>

-----------------------------------------------------------------------------
(* The screen *)

(* get_connection_info reads the code under the state's lock, and builds    *)
(* the QR payload after it released it.                                     *)
get_connection_info ==
    /\ Running /\ poll = None
    /\ poll' = [code |-> code.val, qr |-> None]
    /\ UNCHANGED <<now, slept, codeVars, tokens, issued, events, screen, phone>>

build_qr_payload ==
    /\ poll # None /\ poll.qr = None
    /\ poll' = [poll EXCEPT !.qr = code.val]
    /\ UNCHANGED <<now, slept, codeVars, tokens, issued, events, screen, phone>>

PollArrives_First ==
    /\ poll # None /\ poll.qr # None
    /\ screen' = IF screen = None THEN poll ELSE screen
    /\ poll' = None
    /\ UNCHANGED <<now, slept, codeVars, tokens, issued, events, phone>>

PollArrives ==
    /\ poll # None /\ poll.qr # None
    /\ screen' = poll /\ poll' = None
    /\ UNCHANGED <<now, slept, codeVars, tokens, issued, events, phone>>

(* An event may be overtaken by a poll that read the code before it.        *)
EventArrives ==
    /\ events # <<>>
    /\ screen' = IF screen = None THEN None
                 ELSE [code |-> Head(events), qr |-> Head(events)]
    /\ events' = Tail(events)
    /\ UNCHANGED <<now, slept, codeVars, tokens, issued, poll, phone>>

-----------------------------------------------------------------------------
(* The phones *)

Scan(p) ==
    /\ screen # None /\ phone[p].offer = None
    /\ phone' = [phone EXCEPT ![p].code = screen.qr]
    /\ UNCHANGED <<now, slept, codeVars, tokens, issued, screenVars>>

(* The token first (useConnections), else the code.                         *)
Offer(p) ==
    /\ phone[p].offer = None /\ phone[p].code # None
    /\ phone' = [phone EXCEPT ![p].offer = IF phone[p].tok # 0 THEN "token" ELSE "code"]
    /\ UNCHANGED <<now, slept, codeVars, tokens, issued, screenVars>>

verify_pairing_code(c) == code.val = c /\ now - code.at <= Expiry
verify_connection_token(k) ==
    \E n \in 1 .. Len(tokens) : tokens[n].id = k /\ now - tokens[n].at <= TokenTTL

validate_credential(p) ==
    IF phone[p].offer = "code" THEN verify_pairing_code(phone[p].code)
    ELSE verify_connection_token(phone[p].tok)

Capped_Newest(s) == IF Len(s) > MaxTokens THEN SubSeq(s, 1, MaxTokens) ELSE s
Capped(s) == IF Len(s) > MaxTokens THEN SubSeq(s, Len(s) - MaxTokens + 1, Len(s)) ELSE s

(* Tokens are random and never drawn twice: each has a number.              *)
generate_connection_token == Len(issued) + 1

add_connection_token(k) ==
    /\ issued' = Append(issued, now)
    /\ tokens' = Capped(Append(tokens, [id |-> k, at |-> now]))

(* A code that is accepted earns a token when the channel opens; sending it *)
(* may fail, which is only logged.                                          *)
issue_connection_token(p) ==
    /\ Running /\ phone[p].offer = "code" /\ validate_credential(p)
    /\ Len(issued) < MaxIssued
    /\ add_connection_token(generate_connection_token)
    /\ \E received \in BOOLEAN :
         phone' = [phone EXCEPT ![p].offer = None,
                                ![p].tok = IF received THEN generate_connection_token ELSE @]
    /\ UNCHANGED <<now, slept, codeVars, screenVars>>

AcceptToken(p) ==
    /\ Running /\ phone[p].offer = "token" /\ validate_credential(p)
    /\ phone' = [phone EXCEPT ![p].offer = None]
    /\ UNCHANGED <<now, slept, codeVars, tokens, issued, screenVars>>

(* A refused token makes the phone try its code.                            *)
Reject(p) ==
    /\ Running /\ phone[p].offer # None /\ ~validate_credential(p)
    /\ phone' = [phone EXCEPT ![p].offer = IF @ = "token" THEN "code" ELSE None]
    /\ UNCHANGED <<now, slept, codeVars, tokens, issued, screenVars>>

Screen == get_connection_info \/ build_qr_payload \/ PollArrives \/ EventArrives
Phone(p) == Scan(p) \/ Offer(p) \/ issue_connection_token(p) \/ AcceptToken(p) \/ Reject(p)

Next ==
    \/ \E c \in generate_pairing_code : IssueFirst(c) \/ TimerFires(c)
    \/ spawn_pairing_code_rotation
    \/ Tick \/ HostSleeps
    \/ Screen
    \/ \E p \in Phones : Phone(p)

Spec == Init /\ [][Next]_vars

(* The window polls every second and its event loop runs.                   *)
FairSpec ==
    /\ Spec
    /\ WF_vars(get_connection_info) /\ WF_vars(build_qr_payload)
    /\ WF_vars(PollArrives) /\ WF_vars(EventArrives)

-----------------------------------------------------------------------------
(* Properties *)

(* Unless the host slept, a code outlives its lifetime by no more than the  *)
(* time start_server took to spawn the timer, which sleeps whole lifetimes  *)
(* from there; with a lifetime of 0 the timer's shortest sleep is added.    *)
ExpiredOnlyBriefly ==
    code # None /\ ~slept => now - code.at <= Interval + lag

(* connection.rs:294 "the code in the QR code is always a valid one":       *)
(* refuted when the host sleeps, though start_server took no time at all.   *)
CurrentCodeValid == Running /\ lag = 0 => now - code.at <= Interval

(* The screen comes to show the current code, although polls read it in two *)
(* steps, answers overtake events and events find an empty cache.           *)
ScreenCatchesUp ==
    \A c \in Codes :
        LET current == Running /\ code.val = c
        IN current ~> ~current \/ screen = [code |-> c, qr |-> c]

(* A token is accepted exactly until it is too old or MaxTokens newer ones  *)
(* were issued, whichever phones they went to and whether or not they       *)
(* arrived.                                                                 *)
TokenLife ==
    \A k \in 1 .. Len(issued) :
        verify_connection_token(k) <=>
            now - issued[k] <= TokenTTL /\ Len(issued) - k < MaxTokens
=============================================================================
