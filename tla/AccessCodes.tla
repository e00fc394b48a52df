------------------------------ MODULE AccessCodes ------------------------------
(***************************************************************************)
(* The six-digit codes of AuthService, for signing in by phone and for     *)
(* setting a new password.                                                 *)
(*                                                                         *)
(* A request deletes the challenges of its address, stores a new one and   *)
(* has it delivered; when that fails it deletes them all again.  Verifying *)
(* reads the newest challenge, compares the code and deletes them all      *)
(* before it signs a token.  Requests are split at their awaits.  A code   *)
(* is the number of its challenge: two codes are never equal.              *)
(***************************************************************************)
EXTENDS Integers, FiniteSets

CONSTANTS
    Addresses,   \* phones of login_sms_challenges, channels with a destination of
                 \* password_reset_challenges; each of an existing account
    MaxCodes,    \* bound: challenges that are stored
    MaxCalls,    \* bound: requests and verifications
    MaxStops,    \* bound: interruptions
    Slots,       \* requests that run at once
    None

Codes == 1..MaxCodes

Task == [step : {"idle", "clear", "store", "deliver", "withdraw", "read", "drop", "use"},
         at   : Addresses \cup {None},
         code : 0..MaxCodes]         \* stored by the request, or typed in; 0: a wrong one

Idle == [step |-> "idle", at |-> None, code |-> 0]

VARIABLES
    challenges,  \* the two tables of challenges: the codes of an address
    expired,     \* codes older than ten minutes
    issued,      \* addresses of the codes stored so far, in order of creation
    delivered,   \* codes that reached their address
    answered,    \* the last code a request for the address reported as sent, or 0
    tokens,      \* how often a code was exchanged for a token
    tasks, calls, stops, overlaps

codeVars == <<challenges, expired, issued, delivered, answered, tokens, tasks, calls, stops,
              overlaps>>

Init ==
    /\ challenges = [a \in Addresses |-> {}]
    /\ expired = {} /\ issued = [c \in {} |-> None] /\ delivered = {}
    /\ answered = [a \in Addresses |-> 0]
    /\ tokens = [c \in Codes |-> 0]
    /\ tasks = [w \in Slots |-> Idle]
    /\ calls = 0 /\ stops = 0 /\ overlaps = FALSE

Newest(S) == CHOOSE c \in S : \A d \in S : d <= c

Become(w, t) == tasks' = [tasks EXCEPT ![w] = t]
Advance(w, step) == Become(w, [tasks[w] EXCEPT !.step = step])

Start(w, task) ==
    /\ tasks[w] = Idle /\ calls < MaxCalls
    /\ Become(w, task)
    /\ calls' = calls + 1
    /\ overlaps' = (overlaps \/ \E v \in Slots \ {w} : tasks[v] # Idle)
    /\ UNCHANGED <<challenges, expired, issued, delivered, answered, tokens, stops>>

DeleteAll(w) == challenges' = [challenges EXCEPT ![tasks[w].at] = {}]

(***************************************************************************)
(* requestSmsLogin, requestPasswordReset.                                  *)
(***************************************************************************)

RequestCode(w, a) == Start(w, [Idle EXCEPT !.step = "clear", !.at = a])

Clear(w) ==
    /\ tasks[w].step = "clear"
    /\ DeleteAll(w)
    /\ Advance(w, "store")
    /\ UNCHANGED <<expired, issued, delivered, answered, tokens, calls, stops, overlaps>>

Store(w) ==
    LET c == Cardinality(DOMAIN issued) + 1
        a == tasks[w].at IN
    /\ tasks[w].step = "store" /\ c \in Codes
    /\ challenges' = [challenges EXCEPT ![a] = @ \cup {c}]
    /\ issued' = [d \in 1..c |-> IF d = c THEN a ELSE issued[d]]
    /\ Become(w, [tasks[w] EXCEPT !.step = "deliver", !.code = c])
    /\ UNCHANGED <<expired, delivered, answered, tokens, calls, stops, overlaps>>

\* WhatsApp, SMS or mail.  A gateway that fails may have sent the code all the same;
\* none at all counts as one that fails.
Deliver(w, arrives, fails) ==
    LET t == tasks[w] IN
    /\ t.step = "deliver"
    /\ arrives \/ fails
    /\ delivered' = IF arrives THEN delivered \cup {t.code} ELSE delivered
    /\ answered' = IF fails THEN answered ELSE [answered EXCEPT ![t.at] = t.code]
    /\ Become(w, IF fails THEN [t EXCEPT !.step = "withdraw"] ELSE Idle)
    /\ UNCHANGED <<challenges, expired, issued, tokens, calls, stops, overlaps>>

\* mutant: the request deletes its own challenge only
WithdrawOwn(w) ==
    LET t == tasks[w] IN
    /\ t.step = "withdraw"
    /\ challenges' = [challenges EXCEPT ![t.at] = @ \ {t.code}]
    /\ answered' = [answered EXCEPT ![t.at] = 0]
    /\ Become(w, Idle)
    /\ UNCHANGED <<expired, issued, delivered, tokens, calls, stops, overlaps>>

Withdraw(w) ==
    /\ tasks[w].step = "withdraw"
    /\ DeleteAll(w)
    /\ answered' = [answered EXCEPT ![tasks[w].at] = 0]
    /\ Become(w, Idle)
    /\ UNCHANGED <<expired, issued, delivered, tokens, calls, stops, overlaps>>

(***************************************************************************)
(* verifySmsLogin, verifyPasswordResetCode.                                *)
(***************************************************************************)

VerifyCode(w, a, c) ==
    /\ c \in delivered \cup {0}
    /\ Start(w, [step |-> "read", at |-> a, code |-> c])

Valid(a) == challenges[a] # {} /\ Newest(challenges[a]) \notin expired

ReadNewest(w) ==
    LET t == tasks[w] IN
    /\ t.step = "read"
    /\ Become(w, IF ~Valid(t.at) THEN [t EXCEPT !.step = "drop"]
                 ELSE IF Newest(challenges[t.at]) = t.code THEN [t EXCEPT !.step = "use"]
                 ELSE Idle)
    /\ UNCHANGED <<challenges, expired, issued, delivered, answered, tokens, calls, stops, overlaps>>

DropExpired(w) ==
    /\ tasks[w].step = "drop"
    /\ DeleteAll(w)
    /\ Become(w, Idle)
    /\ UNCHANGED <<expired, issued, delivered, answered, tokens, calls, stops, overlaps>>

UseCode(w) ==
    /\ tasks[w].step = "use"
    /\ DeleteAll(w)
    /\ tokens' = [tokens EXCEPT ![tasks[w].code] = @ + 1]
    /\ Become(w, Idle)
    /\ UNCHANGED <<expired, issued, delivered, answered, calls, stops, overlaps>>

(***************************************************************************)
(* Time and interruptions.                                                 *)
(***************************************************************************)

\* Ten minutes pass: older codes have expired with this one.
Expire(c) ==
    /\ c \in DOMAIN issued \ expired
    /\ expired' = expired \cup 1..c
    /\ UNCHANGED <<challenges, issued, delivered, answered, tokens, tasks, calls, stops, overlaps>>

Interrupt(w) ==
    /\ tasks[w] # Idle /\ stops < MaxStops
    /\ stops' = stops + 1
    /\ Become(w, Idle)
    /\ UNCHANGED <<challenges, expired, issued, delivered, answered, tokens, calls, overlaps>>

Next ==
    \/ \E w \in Slots :
        \/ \E a \in Addresses : RequestCode(w, a) \/ \E c \in 0..MaxCodes : VerifyCode(w, a, c)
        \/ Clear(w) \/ Store(w) \/ Withdraw(w)
        \/ \E arrives, fails \in BOOLEAN : Deliver(w, arrives, fails)
        \/ ReadNewest(w) \/ DropExpired(w) \/ UseCode(w)
        \/ Interrupt(w)
    \/ \E c \in Codes : Expire(c)

Spec == Init /\ [][Next]_codeVars

(***************************************************************************)
(* Properties.                                                             *)
(***************************************************************************)

CodeTypeOK ==
    /\ DOMAIN issued \in {1..n : n \in 0..MaxCodes}
    /\ \A a \in Addresses : \A c \in challenges[a] : c \in DOMAIN issued /\ issued[c] = a
    /\ expired \cup delivered \subseteq DOMAIN issued
    /\ answered \in [Addresses -> 0..MaxCodes]
    /\ tokens \in [Codes -> 0..MaxCalls]
    /\ tasks \in [Slots -> Task]
    /\ calls \in 0..MaxCalls /\ stops \in 0..MaxStops /\ overlaps \in BOOLEAN

\* A code that a later one of its address replaced is never accepted again, however
\* requests overlap and whether or not the later one could be delivered.
ReplacedIsDead ==
    \A a \in Addresses :
        challenges[a] # {} =>
            \A c \in DOMAIN issued : issued[c] = a => c <= Newest(challenges[a])

\* A code that was exchanged for a token can only be exchanged again by a verification
\* that overlapped the first one.
SpentIsDead ==
    /\ \A c \in Codes : tokens[c] > 0 => \A a \in Addresses : c \notin challenges[a]
    /\ ~overlaps => \A c \in Codes : tokens[c] <= 1

\* When requests do not overlap, a code reported as sent works until it expires, is
\* replaced or is exchanged.
SentCodeWorks ==
    (~overlaps /\ \A w \in Slots : tasks[w] = Idle) =>
        \A a \in Addresses :
            LET c == answered[a] IN
            \/ c = 0 \/ c \in expired \/ tokens[c] > 0
            \/ \E d \in DOMAIN issued : d > c /\ issued[d] = a
            \/ c \in challenges[a] /\ c \in delivered
            \/ stops > 0
=============================================================================
