---------------------------- MODULE Messages_proofs ----------------------------
(***************************************************************************)
(* Theorems about what is delivered by e-mail and SMS: the codes of        *)
(* AccessCodes, whose definitions this module extends, the communications, *)
(* instantiated as Messaging, and the people and their invitations,        *)
(* instantiated as Residents.  A parameter or variable that two of them    *)
(* name alike stands for that of the one a theorem is about.  The theorems *)
(* hold for any number of accounts, people, units, addresses, codes and    *)
(* requests that overlap, unless one names a hypothesis about them.        *)
(***************************************************************************)
EXTENDS AccessCodes, Sequences, SequenceTheorems, FiniteSetTheorems, TLAPS

CONSTANTS
    Users, Units, Linked, Contacts, Settings, Files, Managers, Readers,
    MaxRequests, MaxReadings,
    Emails, Phones, MaxAccounts, MaxPeople, MaxInvites, MaxCrashes

VARIABLES
    comm, recipients, links, handed, log, attached, stored, asked, read,
    accounts, people, units, invites, requests, crashed

(***************************************************************************)
(* The codes.                                                              *)
(***************************************************************************)

\* Challenges are those of issued codes, and the newest of an address is among them.
Listed == /\ \E n \in Nat : DOMAIN issued = 1..n
          /\ DOMAIN issued \subseteq Codes
          /\ challenges \in [Addresses -> SUBSET (DOMAIN issued)]
          /\ \A a \in Addresses : \A c \in challenges[a] : issued[c] = a

NewestListed(a) ==
    challenges[a] # {} =>
        \E d \in challenges[a] : \A c \in DOMAIN issued : issued[c] = a => c <= d

\* A verification about to exchange a code found it among those of its address.
Holding(t) ==
    /\ t # Idle => t.at \in Addresses
    /\ t.step = "use" => t.code \in DOMAIN issued /\ issued[t.code] = t.at

Spent == \A c \in Codes : tokens[c] > 0 => c \in DOMAIN issued /\ \A a \in Addresses : c \notin challenges[a]

\* While requests do not overlap there is one, and the code it holds is not used up.
Alone ==
    ~ overlaps =>
        /\ \A v, w \in Slots : tasks[v] # Idle /\ tasks[w] # Idle => v = w
        /\ \A w \in Slots : tasks[w].step = "use" => tasks[w].code \in challenges[tasks[w].at]
        /\ \A c \in Codes : tokens[c] <= 1

AInv == /\ Listed
        /\ \A a \in Addresses : NewestListed(a)
        /\ tasks \in [Slots -> Task] /\ (\A w \in Slots : Holding(tasks[w]))
        /\ tokens \in [Codes -> Nat] /\ overlaps \in BOOLEAN
        /\ Spent
        /\ Alone

LEMMA NewestIs ==
  ASSUME NEW S \in SUBSET Nat, NEW d \in S, \A c \in S : c <= d
  PROVE  Newest(S) = d
<1>1. \A e \in S : (\A c \in S : c <= e) => e = d
  OBVIOUS
<1>2. QED
  BY <1>1 DEF Newest

LEMMA IdleIsTask == Idle.step = "idle" /\ Idle.code = 0 /\ (MaxCodes \in Nat => Idle \in Task)
  BY DEF Idle, Task

LEMMA InitCodes == ASSUME MaxCodes \in Nat PROVE Init => AInv
<1> SUFFICES ASSUME Init PROVE AInv
  OBVIOUS
<1>1. DOMAIN issued = 1..0 /\ DOMAIN issued = {}
  BY DEF Init
<1>2. Listed /\ \A a \in Addresses : NewestListed(a)
  BY <1>1 DEF Init, Listed, NewestListed
<1>3. tasks \in [Slots -> Task] /\ \A w \in Slots : tasks[w] = Idle
  BY IdleIsTask DEF Init
<1>4. \A w \in Slots : Holding(tasks[w])
  BY <1>3, IdleIsTask DEF Holding
<1>5. tokens \in [Codes -> Nat] /\ overlaps \in BOOLEAN /\ \A c \in Codes : tokens[c] = 0
  BY DEF Init
<1>6. Spent /\ Alone
  BY <1>3, <1>5, IdleIsTask DEF Spent, Alone
<1>7. QED
  BY <1>2, <1>3, <1>4, <1>5, <1>6 DEF AInv


\* A step of one request that stores nothing and uses nothing, and may delete the
\* challenges of its address.
LEMMA Keeps ==
  ASSUME AInv, NEW w \in Slots, NEW t \in Task, Holding(t), tasks[w] # Idle,
         tasks' = [tasks EXCEPT ![w] = t],
         UNCHANGED <<issued, tokens, overlaps>>,
         challenges' = challenges \/ DeleteAll(w),
         t.step = "use" => challenges' = challenges /\ t.code \in challenges[t.at]
  PROVE  AInv'
<1>1. tasks[w].at \in Addresses /\ challenges \in [Addresses -> SUBSET (DOMAIN issued)]
  BY DEF AInv, Holding, Listed
<1>2. challenges' \in [Addresses -> SUBSET (DOMAIN issued)]
      /\ \A a \in Addresses : challenges'[a] = challenges[a] \/ challenges'[a] = {}
  BY <1>1 DEF DeleteAll
<1>3. Listed'
  BY <1>2 DEF AInv, Listed
<1>4. \A a \in Addresses : NewestListed(a)'
  BY <1>2 DEF AInv, NewestListed
<1>5. tasks' \in [Slots -> Task] /\ tasks'[w] = t /\ \A v \in Slots \ {w} : tasks'[v] = tasks[v]
  BY DEF AInv
<1>6. \A v \in Slots : Holding(tasks[v])'
  BY <1>5 DEF AInv, Holding
<1>7. Spent'
  BY <1>2 DEF AInv, Spent
<1>8. Alone'
  <2> SUFFICES ASSUME ~ overlaps
               PROVE  /\ \A v, u \in Slots : tasks'[v] # Idle /\ tasks'[u] # Idle => v = u
                      /\ \A u \in Slots : tasks'[u].step = "use" => tasks'[u].code \in challenges'[tasks'[u].at]
                      /\ \A c \in Codes : tokens[c] <= 1
    BY DEF Alone
  <2>1. \A v \in Slots : tasks[v] # Idle => v = w
    BY DEF AInv, Alone
  <2>2. \A v \in Slots \ {w} : tasks'[v] = Idle
    BY <2>1, <1>5
  <2>3. QED
    BY <2>2, <1>5, IdleIsTask DEF AInv, Alone
<1>9. QED
  BY <1>3, <1>4, <1>5, <1>6, <1>7, <1>8 DEF AInv

\* A request that begins: if another one is in progress they overlap.
LEMMA Starts ==
  ASSUME AInv, NEW w \in Slots, NEW t \in Task, t.at \in Addresses, t.step # "use", Start(w, t)
  PROVE  AInv'
<1>1. Listed' /\ (\A a \in Addresses : NewestListed(a)') /\ Spent'
  BY DEF AInv, Start, Listed, NewestListed, Spent
<1>2. tasks' \in [Slots -> Task] /\ tasks'[w] = t /\ \A v \in Slots \ {w} : tasks'[v] = tasks[v]
  BY DEF AInv, Start, Become
<1>3. \A v \in Slots : Holding(tasks[v])'
  BY <1>2 DEF AInv, Holding, Start
<1>4. overlaps' \in BOOLEAN
      /\ (~ overlaps' => ~ overlaps /\ \A v \in Slots \ {w} : tasks[v] = Idle)
  BY DEF AInv, Start
<1>5. Alone'
  BY <1>2, <1>4, IdleIsTask DEF AInv, Alone, Start
<1>6. QED
  BY <1>1, <1>2, <1>3, <1>4, <1>5 DEF AInv, Start

\* The new code is the newest of all.
LEMMA Stores ==
  ASSUME MaxCodes \in Nat, AInv, NEW w \in Slots, Store(w)
  PROVE  AInv'
<1> DEFINE at == tasks[w].at
           c == Cardinality(DOMAIN issued) + 1
           t == [tasks[w] EXCEPT !.step = "deliver", !.code = c]
<1>1. PICK n \in Nat : DOMAIN issued = 1..n
  BY DEF AInv, Listed
<1>2. c = n + 1
  <2>1. Cardinality(1..n) = IF 1 > n THEN 0 ELSE n - 1 + 1
    BY FS_Interval
  <2>2. QED
    BY <2>1, <1>1
<1>3. c \in Codes /\ tasks[w].step = "store"
  BY DEF Store
<1>4. issued' = [d \in 1..c |-> IF d = c THEN at ELSE issued[d]]
      /\ challenges' = [challenges EXCEPT ![at] = @ \cup {c}]
      /\ tasks' = [tasks EXCEPT ![w] = t] /\ UNCHANGED <<tokens, overlaps>>
  BY DEF Store, Become
<1>5. tasks[w] # Idle /\ at \in Addresses /\ tasks[w] \in Task
  BY <1>3, IdleIsTask DEF AInv, Holding
<1>6. t \in Task /\ t.at = at /\ t.step = "deliver" /\ t.code = c
  <2>1. c \in 0..MaxCodes
    BY <1>3 DEF Codes
  <2> HIDE DEF c
  <2>2. QED
    BY <2>1, <1>5 DEF Task
<1> HIDE DEF t, c, at
<1>7. DOMAIN issued' = 1..(n + 1) /\ issued'[c] = at /\ \A d \in DOMAIN issued : issued'[d] = issued[d]
  BY <1>1, <1>2, <1>4
<1>8. DOMAIN issued \subseteq DOMAIN issued' /\ c \in DOMAIN issued' /\ c \notin DOMAIN issued
      /\ DOMAIN issued' = DOMAIN issued \cup {c}
  BY <1>1, <1>2, <1>7
<1>9. challenges' \in [Addresses -> SUBSET (DOMAIN issued')]
      /\ challenges'[at] = challenges[at] \cup {c}
      /\ \A a \in Addresses \ {at} : challenges'[a] = challenges[a]
  BY <1>4, <1>5, <1>8 DEF AInv, Listed
<1>10. Listed'
  <2>1. \A a \in Addresses : \A d \in challenges'[a] : issued'[d] = a
    BY <1>5, <1>7, <1>9 DEF AInv, Listed
  <2>2. DOMAIN issued' \subseteq Codes
    BY <1>3, <1>8 DEF AInv, Listed
  <2>3. QED
    BY <2>1, <2>2, <1>7, <1>9 DEF Listed
<1>11. \A a \in Addresses : NewestListed(a)'
  <2> SUFFICES ASSUME NEW a \in Addresses PROVE NewestListed(a)'
    OBVIOUS
  <2>1. CASE a = at
    BY <2>1, <1>2, <1>7, <1>9 DEF NewestListed
  <2>2. CASE a # at
    <3>1. \A d \in DOMAIN issued' : issued'[d] = a => d \in DOMAIN issued /\ issued[d] = a
      BY <2>2, <1>7, <1>8
    <3>2. QED
      BY <3>1, <2>2, <1>9 DEF AInv, NewestListed
  <2>3. QED
    BY <2>1, <2>2
<1>12. tasks' \in [Slots -> Task] /\ tasks'[w] = t /\ \A v \in Slots \ {w} : tasks'[v] = tasks[v]
  BY <1>4, <1>6 DEF AInv
<1>13. \A v \in Slots : Holding(tasks[v])'
  BY <1>5, <1>6, <1>7, <1>8, <1>12 DEF AInv, Holding
<1>14. Spent'
  BY <1>4, <1>8, <1>9 DEF AInv, Spent
<1>15. Alone'
  <2> SUFFICES ASSUME ~ overlaps
               PROVE  /\ \A v, u \in Slots : tasks'[v] # Idle /\ tasks'[u] # Idle => v = u
                      /\ \A u \in Slots : tasks'[u].step = "use" => tasks'[u].code \in challenges'[tasks'[u].at]
                      /\ \A d \in Codes : tokens'[d] <= 1
    BY <1>4 DEF Alone
  <2>1. \A v \in Slots \ {w} : tasks'[v] = Idle
    BY <1>5, <1>12 DEF AInv, Alone
  <2>2. QED
    BY <2>1, <1>4, <1>6, <1>12, IdleIsTask DEF AInv, Alone
<1>16. QED
  BY <1>4, <1>10, <1>11, <1>12, <1>13, <1>14, <1>15 DEF AInv

\* The code that is exchanged goes with the challenges of its address.
LEMMA Uses ==
  ASSUME MaxCodes \in Nat, AInv, NEW w \in Slots, UseCode(w)
  PROVE  AInv'
<1> DEFINE at == tasks[w].at
           c == tasks[w].code
<1>1. tasks[w].step = "use" /\ tasks[w] # Idle
  BY IdleIsTask DEF UseCode
<1>2. at \in Addresses /\ c \in DOMAIN issued /\ issued[c] = at /\ c \in Codes
  BY <1>1 DEF AInv, Holding, Listed
<1>3. challenges' = [challenges EXCEPT ![at] = {}] /\ tokens' = [tokens EXCEPT ![c] = @ + 1]
      /\ tasks' = [tasks EXCEPT ![w] = Idle] /\ UNCHANGED <<issued, overlaps>>
  BY DEF UseCode, DeleteAll, Become
<1>4. ~ overlaps => c \in challenges[at]
  BY <1>1 DEF AInv, Alone
<1> HIDE DEF at, c
<1>5. challenges' \in [Addresses -> SUBSET (DOMAIN issued)] /\ challenges'[at] = {}
      /\ \A a \in Addresses \ {at} : challenges'[a] = challenges[a]
  BY <1>2, <1>3 DEF AInv, Listed
<1>6. Listed'
  BY <1>3, <1>5 DEF AInv, Listed
<1>7. \A a \in Addresses : NewestListed(a)'
  BY <1>3, <1>5 DEF AInv, NewestListed
<1>8. tasks' \in [Slots -> Task] /\ tasks'[w] = Idle /\ \A v \in Slots \ {w} : tasks'[v] = tasks[v]
  BY <1>3, IdleIsTask DEF AInv
<1>9. \A v \in Slots : Holding(tasks[v])'
  BY <1>3, <1>8, IdleIsTask DEF AInv, Holding
<1>10. tokens' \in [Codes -> Nat] /\ tokens'[c] = tokens[c] + 1
       /\ \A d \in Codes \ {c} : tokens'[d] = tokens[d]
  BY <1>2, <1>3 DEF AInv
<1>11. Spent'
  <2>1. \A a \in Addresses : c \notin challenges'[a]
    BY <1>2, <1>5 DEF AInv, Listed
  <2>2. ASSUME NEW d \in Codes, d # c, tokens'[d] > 0
        PROVE  d \in DOMAIN issued /\ \A a \in Addresses : d \notin challenges'[a]
    BY <2>2, <1>5, <1>10 DEF AInv, Spent
  <2>3. QED
    BY <2>1, <2>2, <1>2, <1>3 DEF Spent
<1>12. Alone'
  <2> SUFFICES ASSUME ~ overlaps
               PROVE  /\ \A v, u \in Slots : tasks'[v] # Idle /\ tasks'[u] # Idle => v = u
                      /\ \A u \in Slots : tasks'[u].step = "use" => tasks'[u].code \in challenges'[tasks'[u].at]
                      /\ \A d \in Codes : tokens'[d] <= 1
    BY <1>3 DEF Alone
  <2>1. \A v \in Slots : tasks'[v] = Idle
    BY <1>1, <1>8 DEF AInv, Alone
  <2>2. tokens[c] = 0
    BY <1>2, <1>4 DEF AInv, Spent
  <2>3. \A d \in Codes : tokens'[d] <= 1
    BY <2>2, <1>10 DEF AInv, Alone
  <2>4. QED
    BY <2>1, <2>3, IdleIsTask
<1>13. QED
  BY <1>3, <1>6, <1>7, <1>8, <1>9, <1>10, <1>11, <1>12 DEF AInv

LEMMA NextCodes == ASSUME MaxCodes \in Nat, AInv, [Next]_codeVars PROVE AInv'
<1>1. ASSUME NEW w \in Slots, NEW a \in Addresses, RequestCode(w, a) PROVE AInv'
  <2> DEFINE t == [Idle EXCEPT !.step = "clear", !.at = a]
  <2>1. Idle \in Task
    BY IdleIsTask
  <2>2. t \in Task /\ t.at = a /\ t.step = "clear"
    BY <2>1 DEF Task
  <2>3. Start(w, t)
    BY <1>1 DEF RequestCode
  <2> HIDE DEF t
  <2>4. QED
    BY <2>2, <2>3, Starts
<1>2. ASSUME NEW w \in Slots, NEW a \in Addresses, NEW c \in 0..MaxCodes, VerifyCode(w, a, c)
      PROVE  AInv'
  <2> DEFINE t == [step |-> "read", at |-> a, code |-> c]
  <2>1. t \in Task /\ t.at = a /\ t.step = "read"
    BY DEF Task
  <2>2. Start(w, t)
    BY <1>2 DEF VerifyCode
  <2> HIDE DEF t
  <2>3. QED
    BY <2>1, <2>2, Starts
<1>3. ASSUME NEW w \in Slots, Clear(w) PROVE AInv'
  <2> DEFINE t == [tasks[w] EXCEPT !.step = "store"]
  <2>1. tasks[w] \in Task /\ tasks[w] # Idle /\ tasks[w].at \in Addresses
    BY <1>3, IdleIsTask DEF Clear, AInv, Holding
  <2>2. t \in Task /\ t.at = tasks[w].at /\ t.step = "store"
    BY <2>1 DEF Task
  <2>3. tasks' = [tasks EXCEPT ![w] = t] /\ DeleteAll(w) /\ UNCHANGED <<issued, tokens, overlaps>>
    BY <1>3 DEF Clear, Advance, Become
  <2> HIDE DEF t
  <2>4. Holding(t)
    BY <2>1, <2>2 DEF Holding
  <2>5. QED
    BY <2>1, <2>2, <2>3, <2>4, Keeps
<1>4. ASSUME NEW w \in Slots, Store(w) PROVE AInv'
  BY <1>4, Stores
<1>5. \A w \in Slots : Holding(Idle)
  BY IdleIsTask DEF Holding
<1>6. ASSUME NEW w \in Slots, Withdraw(w) PROVE AInv'
  <2>1. tasks[w] # Idle /\ tasks' = [tasks EXCEPT ![w] = Idle] /\ DeleteAll(w)
        /\ UNCHANGED <<issued, tokens, overlaps>>
    BY <1>6, IdleIsTask DEF Withdraw, Become
  <2>2. QED
    BY <2>1, <1>5, IdleIsTask, Keeps
<1>7. ASSUME NEW w \in Slots, NEW arrives \in BOOLEAN, NEW fails \in BOOLEAN, Deliver(w, arrives, fails)
      PROVE  AInv'
  <2> DEFINE t == [tasks[w] EXCEPT !.step = "withdraw"]
  <2>1. tasks[w] \in Task /\ tasks[w] # Idle /\ tasks[w].at \in Addresses
    BY <1>7, IdleIsTask DEF Deliver, AInv, Holding
  <2>2. t \in Task /\ t.at = tasks[w].at /\ t.step = "withdraw"
    BY <2>1 DEF Task
  <2>3. tasks' = [tasks EXCEPT ![w] = t] \/ tasks' = [tasks EXCEPT ![w] = Idle]
    BY <1>7 DEF Deliver, Become
  <2>4. UNCHANGED <<challenges, issued, tokens, overlaps>>
    BY <1>7 DEF Deliver
  <2> HIDE DEF t
  <2>5. Holding(t)
    BY <2>1, <2>2 DEF Holding
  <2>6. QED
    BY <2>1, <2>2, <2>3, <2>4, <2>5, <1>5, IdleIsTask, Keeps
<1>8. ASSUME NEW w \in Slots, ReadNewest(w) PROVE AInv'
  <2> DEFINE at == tasks[w].at
             d == [tasks[w] EXCEPT !.step = "drop"]
             u == [tasks[w] EXCEPT !.step = "use"]
  <2>1. tasks[w] \in Task /\ tasks[w] # Idle /\ at \in Addresses
    BY <1>8, IdleIsTask DEF ReadNewest, AInv, Holding
  <2>2. /\ d \in Task /\ d.at = at /\ d.step = "drop"
        /\ u \in Task /\ u.at = at /\ u.step = "use" /\ u.code = tasks[w].code
    BY <2>1 DEF Task
  <2>3. UNCHANGED <<challenges, issued, tokens, overlaps>>
    BY <1>8 DEF ReadNewest
  <2>4. \/ tasks' = [tasks EXCEPT ![w] = d]
        \/ tasks' = [tasks EXCEPT ![w] = Idle]
        \/ /\ tasks' = [tasks EXCEPT ![w] = u]
           /\ Valid(at) /\ Newest(challenges[at]) = tasks[w].code
    BY <1>8 DEF ReadNewest, Become
  <2> HIDE DEF d, u
  <2>5. CASE tasks' = [tasks EXCEPT ![w] = d]
    <3>1. Holding(d)
      BY <2>1, <2>2 DEF Holding
    <3>2. QED
      BY <2>1, <2>2, <2>3, <2>5, <3>1, Keeps
  <2>6. CASE tasks' = [tasks EXCEPT ![w] = Idle]
    BY <2>1, <2>3, <2>6, <1>5, IdleIsTask, Keeps
  <2>7. CASE /\ tasks' = [tasks EXCEPT ![w] = u]
             /\ Valid(at) /\ Newest(challenges[at]) = tasks[w].code
    <3>1. u.code \in challenges[at]
      <4>1. challenges[at] # {} /\ challenges[at] \in SUBSET Nat
        BY <2>1, <2>7 DEF Valid, AInv, Listed, Codes
      <4>2. PICK e \in challenges[at] : \A c \in DOMAIN issued : issued[c] = at => c <= e
        BY <4>1, <2>1 DEF AInv, NewestListed
      <4>3. \A c \in challenges[at] : c <= e
        BY <4>2, <2>1 DEF AInv, Listed
      <4>4. Newest(challenges[at]) = e
        BY <4>1, <4>3, NewestIs
      <4>5. QED
        BY <4>2, <4>4, <2>2, <2>7
    <3>2. Holding(u)
      BY <3>1, <2>1, <2>2 DEF AInv, Listed, Holding
    <3>3. QED
      BY <2>1, <2>2, <2>3, <2>7, <3>1, <3>2, Keeps
  <2>8. QED
    BY <2>4, <2>5, <2>6, <2>7
<1>9. ASSUME NEW w \in Slots, DropExpired(w) PROVE AInv'
  <2>1. tasks[w] # Idle /\ tasks' = [tasks EXCEPT ![w] = Idle] /\ DeleteAll(w)
        /\ UNCHANGED <<issued, tokens, overlaps>>
    BY <1>9, IdleIsTask DEF DropExpired, Become
  <2>2. QED
    BY <2>1, <1>5, IdleIsTask, Keeps
<1>10. ASSUME NEW w \in Slots, UseCode(w) PROVE AInv'
  BY <1>10, Uses
<1>11. ASSUME NEW w \in Slots, Interrupt(w) PROVE AInv'
  <2>1. tasks[w] # Idle /\ tasks' = [tasks EXCEPT ![w] = Idle]
        /\ UNCHANGED <<challenges, issued, tokens, overlaps>>
    BY <1>11 DEF Interrupt, Become
  <2>2. QED
    BY <2>1, <1>5, IdleIsTask, Keeps
<1>12. ASSUME UNCHANGED <<challenges, issued, tokens, tasks, overlaps>> PROVE AInv'
  BY <1>12 DEF AInv, Listed, NewestListed, Holding, Spent, Alone
<1>13. ASSUME NEW c \in Codes, Expire(c) PROVE AInv'
  BY <1>12, <1>13 DEF Expire
<1>14. CASE UNCHANGED codeVars
  BY <1>12, <1>14 DEF codeVars
<1>15. QED
  BY <1>1, <1>2, <1>3, <1>4, <1>6, <1>7, <1>8, <1>9, <1>10, <1>11, <1>13, <1>14 DEF Next

LEMMA CodesInvariant == ASSUME MaxCodes \in Nat PROVE Spec => []AInv
<1>1. Init => AInv
  BY InitCodes
<1>2. AInv /\ [Next]_codeVars => AInv'
  BY NextCodes
<1>3. QED
  BY <1>1, <1>2, PTL DEF Spec

\* ReplacedIsDead: the challenge the next verification reads is the last code issued to
\* its address, although the requests that delete and store challenges overlap at every
\* await and a failed delivery deletes what another request stored.
THEOREM ReplacedCodesDie == ASSUME MaxCodes \in Nat PROVE Spec => []ReplacedIsDead
<1>1. ASSUME AInv PROVE ReplacedIsDead
  <2> SUFFICES ASSUME NEW a \in Addresses, challenges[a] # {}, NEW c \in DOMAIN issued, issued[c] = a
               PROVE  c <= Newest(challenges[a])
    BY DEF ReplacedIsDead
  <2>1. challenges[a] \in SUBSET Nat
    BY <1>1 DEF AInv, Listed, Codes
  <2>2. PICK d \in challenges[a] : \A e \in DOMAIN issued : issued[e] = a => e <= d
    BY <1>1 DEF AInv, NewestListed
  <2>3. \A e \in challenges[a] : e <= d
    BY <1>1, <2>2 DEF AInv, Listed
  <2>4. Newest(challenges[a]) = d
    BY <2>1, <2>3, NewestIs
  <2>5. QED
    BY <2>2, <2>4
<1>2. QED
  BY <1>1, CodesInvariant, PTL

\* SpentIsDead: exchanging a code deletes every challenge of its address before the token
\* is signed, so no later verification finds it; only one that had read it can use it again.
THEOREM SpentCodesDie == ASSUME MaxCodes \in Nat PROVE Spec => []SpentIsDead
<1>1. AInv => SpentIsDead
  BY DEF AInv, Spent, Alone, SpentIsDead
<1>2. QED
  BY <1>1, CodesInvariant, PTL

(***************************************************************************)
(* A code reported as sent works, while requests do not overlap.           *)
(***************************************************************************)

\* Codes expire in the order they were issued.
Older == /\ expired \subseteq DOMAIN issued
         /\ \A c \in expired : \A d \in DOMAIN issued : d <= c => d \in expired

Answered == /\ answered \in [Addresses -> Nat]
            /\ \A a \in Addresses : answered[a] = 0 \/ answered[a] \in DOMAIN issued

Latest(c, a) == /\ c \in DOMAIN issued /\ issued[c] = a
                /\ \A d \in DOMAIN issued : issued[d] = a => d <= c

\* What the request between two of its awaits relies on: the code it delivers is the last
\* one of its address, later than the one reported before; it drops expired ones only.
Ready(t) ==
    /\ t.step \in {"deliver", "withdraw"} => t.code \in DOMAIN issued
    /\ ~ overlaps =>
          /\ t.step \in {"deliver", "withdraw", "use"} => Latest(t.code, t.at)
          /\ t.step \in {"deliver", "withdraw"} => answered[t.at] < t.code
          /\ t.step = "deliver" => t.code \in challenges[t.at]
          /\ t.step = "drop" => challenges[t.at] \subseteq expired

Works(a) ==
    \/ answered[a] = 0 \/ answered[a] \in expired \/ tokens[answered[a]] > 0
    \/ \E d \in DOMAIN issued : d > answered[a] /\ issued[d] = a
    \/ answered[a] \in challenges[a] /\ answered[a] \in delivered

\* Between deleting the challenges and storing the new one there is none.
Storing(a) == \E w \in Slots : tasks[w].step = "store" /\ tasks[w].at = a

Working == ~ overlaps /\ stops = 0 => \A a \in Addresses : Works(a) \/ Storing(a)

WInv == AInv /\ Older /\ Answered /\ stops \in Nat /\ (\A w \in Slots : Ready(tasks[w])) /\ Working

LEMMA IdleReady == \A w \in Slots : tasks[w] = Idle => Ready(tasks[w])
  BY IdleIsTask DEF Ready

LEMMA IdleReadyNext == \A w \in Slots : tasks'[w] = Idle => Ready(tasks[w])'
  BY IdleIsTask DEF Ready

LEMMA InitWorks == ASSUME MaxCodes \in Nat PROVE Init => WInv
<1> SUFFICES ASSUME Init PROVE WInv
  OBVIOUS
<1>1. AInv
  BY InitCodes
<1>2. Older /\ Answered /\ stops \in Nat /\ \A a \in Addresses : answered[a] = 0
  BY DEF Init, Older, Answered
<1>3. \A w \in Slots : Ready(tasks[w])
  BY IdleReady DEF Init
<1>4. QED
  BY <1>1, <1>2, <1>3 DEF WInv, Working, Works

\* While requests do not overlap the others are idle.
LEMMA TheOthers ==
  ASSUME WInv, NEW w \in Slots, tasks[w] # Idle,
         \A v \in Slots \ {w} : tasks'[v] = tasks[v],
         overlaps' = overlaps, DOMAIN issued \subseteq DOMAIN issued',
         Ready(tasks[w])'
  PROVE  \A v \in Slots : Ready(tasks[v])'
<1>1. CASE overlaps
  BY <1>1 DEF WInv, Ready
<1>2. CASE ~ overlaps
  <2>1. \A v \in Slots \ {w} : tasks'[v] = Idle
    BY <1>2 DEF WInv, AInv, Alone
  <2>2. QED
    BY <2>1, IdleReadyNext
<1>3. QED
  BY <1>1, <1>2 DEF WInv, AInv

LEMMA NoneStoring ==
  ASSUME WInv, ~ overlaps, NEW w \in Slots, tasks[w] # Idle, tasks[w].step # "store"
  PROVE  \A a \in Addresses : ~ Storing(a)
<1>1. \A v \in Slots \ {w} : tasks[v] = Idle
  BY DEF WInv, AInv, Alone
<1>2. QED
  BY <1>1, IdleIsTask DEF Storing

LEMMA WorksStill ==
  ASSUME NEW a \in Addresses, Works(a), answered'[a] = answered[a],
         expired \subseteq expired', delivered \subseteq delivered',
         tokens' = tokens, issued' = issued, challenges[a] \subseteq challenges'[a]
  PROVE  Works(a)'
<1>1. CASE answered[a] = 0 \/ answered[a] \in expired \/ tokens[answered[a]] > 0
  BY <1>1 DEF Works
<1>2. CASE \E d \in DOMAIN issued : d > answered[a] /\ issued[d] = a
  BY <1>2 DEF Works
<1>3. CASE answered[a] \in challenges[a] /\ answered[a] \in delivered
  BY <1>3 DEF Works
<1>4. QED
  BY <1>1, <1>2, <1>3 DEF Works

\* The challenge that is read is the last code of its address.
LEMMA ReadsLatest ==
  ASSUME AInv, NEW a \in Addresses, challenges[a] # {}
  PROVE  Latest(Newest(challenges[a]), a) /\ \A c \in challenges[a] : c <= Newest(challenges[a])
<1>1. challenges[a] \in SUBSET Nat /\ challenges[a] \subseteq DOMAIN issued
  BY DEF AInv, Listed, Codes
<1>2. PICK d \in challenges[a] : \A e \in DOMAIN issued : issued[e] = a => e <= d
  BY DEF AInv, NewestListed
<1>3. \A e \in challenges[a] : e <= d
  BY <1>1, <1>2 DEF AInv, Listed
<1>4. Newest(challenges[a]) = d
  BY <1>1, <1>3, NewestIs
<1>5. QED
  BY <1>1, <1>2, <1>3, <1>4 DEF AInv, Listed, Latest

LEMMA WorksStart ==
  ASSUME MaxCodes \in Nat, WInv, AInv', NEW w \in Slots, NEW t \in Task,
         t.step \in {"clear", "read"}, Start(w, t)
  PROVE  WInv'
<1>1. UNCHANGED <<challenges, expired, issued, delivered, answered, tokens, stops>>
  BY DEF Start
<1>2. tasks'[w] = t /\ \A v \in Slots \ {w} : tasks'[v] = tasks[v]
  BY DEF Start, Become, WInv, AInv
<1>3. Older' /\ Answered' /\ stops' \in Nat
  BY <1>1 DEF WInv, Older, Answered
<1>4. Ready(tasks[w])'
  BY <1>2 DEF Ready
<1>5. ~ overlaps' => ~ overlaps /\ \A v \in Slots \ {w} : tasks[v] = Idle
  BY DEF Start, WInv, AInv
<1>6. \A v \in Slots : Ready(tasks[v])'
  <2>1. CASE overlaps'
    BY <2>1, <1>1, <1>2, <1>4 DEF WInv, Ready
  <2>2. CASE ~ overlaps'
    BY <2>2, <1>2, <1>4, <1>5, IdleReadyNext
  <2>3. QED
    BY <2>1, <2>2
<1>7. Working'
  <2> SUFFICES ASSUME ~ overlaps', stops' = 0, NEW a \in Addresses PROVE Works(a)'
    BY DEF Working
  <2>1. \A v \in Slots : tasks[v] = Idle
    BY <1>5 DEF Start
  <2>2. Works(a)
    BY <2>1, <1>1, <1>5, IdleIsTask DEF WInv, Working, Storing
  <2>3. QED
    BY <2>2, <1>1, WorksStill
<1>8. QED
  BY <1>3, <1>6, <1>7 DEF WInv

LEMMA WorksClear == ASSUME WInv, AInv', NEW w \in Slots, Clear(w) PROVE WInv'
<1>1. tasks[w].step = "clear" /\ tasks[w] # Idle /\ tasks[w] \in Task /\ tasks[w].at \in Addresses
  BY IdleIsTask DEF Clear, WInv, AInv, Holding
<1>2. PICK at \in Addresses : at = tasks[w].at
  BY <1>1
<1>3. tasks'[w].step = "store" /\ tasks'[w].at = at /\ \A v \in Slots \ {w} : tasks'[v] = tasks[v]
  BY <1>1, <1>2 DEF Clear, Advance, Become, WInv, AInv, Task
<1>4. UNCHANGED <<expired, issued, delivered, answered, tokens, stops, overlaps>>
      /\ \A a \in Addresses \ {at} : challenges'[a] = challenges[a]
  BY <1>2 DEF Clear, DeleteAll, WInv, AInv, Listed
<1>5. Older' /\ Answered' /\ stops' \in Nat
  BY <1>4 DEF WInv, Older, Answered
<1>6. Ready(tasks[w])'
  BY <1>3 DEF Ready
<1>7. \A v \in Slots : Ready(tasks[v])'
  BY <1>1, <1>3, <1>4, <1>6, TheOthers
<1>8. Working'
  <2> SUFFICES ASSUME ~ overlaps', stops' = 0, NEW a \in Addresses, a # at PROVE Works(a)'
    BY <1>3 DEF Working, Storing
  <2>1. Works(a)
    BY <1>1, <1>4, NoneStoring DEF WInv, Working
  <2>2. QED
    BY <2>1, <1>4, WorksStill
<1>9. QED
  BY <1>5, <1>7, <1>8 DEF WInv

LEMMA WorksStore == ASSUME MaxCodes \in Nat, WInv, AInv', NEW w \in Slots, Store(w) PROVE WInv'
<1>1. PICK n \in Nat : DOMAIN issued = 1..n
  BY DEF WInv, AInv, Listed
<1>2. PICK c \in Nat : c = n + 1
  OBVIOUS
<1>3. Cardinality(DOMAIN issued) + 1 = c
  <2>1. Cardinality(1..n) = IF 1 > n THEN 0 ELSE n - 1 + 1
    BY FS_Interval
  <2>2. QED
    BY <2>1, <1>1, <1>2
<1>4. tasks[w].step = "store" /\ tasks[w] # Idle /\ tasks[w] \in Task /\ tasks[w].at \in Addresses
  BY IdleIsTask DEF Store, WInv, AInv, Holding
<1>5. PICK at \in Addresses : at = tasks[w].at
  BY <1>4
<1>6. /\ challenges' = [challenges EXCEPT ![at] = @ \cup {c}]
      /\ issued' = [d \in 1..c |-> IF d = c THEN at ELSE issued[d]]
      /\ tasks' = [tasks EXCEPT ![w] = [tasks[w] EXCEPT !.step = "deliver", !.code = c]]
      /\ UNCHANGED <<expired, delivered, answered, tokens, stops, overlaps>>
  BY <1>3, <1>5 DEF Store, Become
<1>7. tasks'[w].step = "deliver" /\ tasks'[w].at = at /\ tasks'[w].code = c
      /\ \A v \in Slots \ {w} : tasks'[v] = tasks[v]
  BY <1>4, <1>5, <1>6 DEF WInv, AInv, Task
<1>8. /\ DOMAIN issued' = DOMAIN issued \cup {c} /\ issued'[c] = at
      /\ \A d \in DOMAIN issued : d < c /\ issued'[d] = issued[d]
  BY <1>1, <1>2, <1>6
<1>9. c \in challenges'[at] /\ \A a \in Addresses \ {at} : challenges'[a] = challenges[a]
  BY <1>6 DEF WInv, AInv, Listed
<1>10. answered'[at] < c
  <2>1. answered[at] = 0 \/ answered[at] \in DOMAIN issued
    BY DEF WInv, Answered
  <2>2. answered[at] < c
    BY <2>1, <1>2, <1>8
  <2>3. QED
    BY <2>2, <1>6
<1>11. Older' /\ Answered' /\ stops' \in Nat
  <2>1. Older'
    <3>1. c \in Nat /\ \A d \in DOMAIN issued : d \in Nat /\ d < c
      BY <1>1, <1>8
    <3>2. QED
      BY <3>1, <1>6, <1>8 DEF WInv, Older
  <2>2. Answered' /\ stops' \in Nat
    BY <1>6, <1>8 DEF WInv, Answered
  <2>3. QED
    BY <2>1, <2>2
<1>12. Ready(tasks[w])'
  <2>1. Latest(c, at)'
    BY <1>1, <1>2, <1>8 DEF Latest
  <2>2. QED
    BY <2>1, <1>7, <1>8, <1>9, <1>10 DEF Ready
<1>13. \A v \in Slots : Ready(tasks[v])'
  BY <1>4, <1>6, <1>7, <1>8, <1>12, TheOthers
<1>14. Working'
  <2> SUFFICES ASSUME ~ overlaps', stops' = 0, NEW a \in Addresses PROVE Works(a)'
    BY DEF Working
  <2>1. CASE a = at
    BY <2>1, <1>8, <1>10 DEF Works
  <2>2. CASE a # at
    <3>1. ~ Storing(a)
      <4>1. \A v \in Slots \ {w} : tasks[v] = Idle
        BY <1>4, <1>6 DEF WInv, AInv, Alone
      <4>2. QED
        BY <4>1, <2>2, <1>5, IdleIsTask DEF Storing
    <3>2. Works(a)
      BY <3>1, <1>6 DEF WInv, Working
    <3>3. CASE \E d \in DOMAIN issued : d > answered[a] /\ issued[d] = a
      BY <3>3, <1>6, <1>8 DEF Works
    <3>4. CASE ~ \E d \in DOMAIN issued : d > answered[a] /\ issued[d] = a
      BY <3>2, <3>4, <2>2, <1>6, <1>9 DEF Works
    <3>5. QED
      BY <3>3, <3>4
  <2>3. QED
    BY <2>1, <2>2
<1>15. QED
  BY <1>11, <1>13, <1>14 DEF WInv

LEMMA WorksDeliver ==
  ASSUME WInv, AInv', NEW w \in Slots, NEW arrives \in BOOLEAN, NEW fails \in BOOLEAN,
         Deliver(w, arrives, fails)
  PROVE  WInv'
<1>1. tasks[w].step = "deliver" /\ tasks[w] # Idle /\ tasks[w] \in Task /\ tasks[w].at \in Addresses
  BY IdleIsTask DEF Deliver, WInv, AInv, Holding
<1>2. PICK at \in Addresses, c \in DOMAIN issued : at = tasks[w].at /\ c = tasks[w].code
  BY <1>1 DEF WInv, Ready
<1>3. /\ UNCHANGED <<challenges, expired, issued, tokens, stops, overlaps>>
      /\ arrives \/ fails
      /\ delivered' = IF arrives THEN delivered \cup {c} ELSE delivered
      /\ answered' = IF fails THEN answered ELSE [answered EXCEPT ![at] = c]
      /\ tasks' = [tasks EXCEPT ![w] = IF fails THEN [tasks[w] EXCEPT !.step = "withdraw"] ELSE Idle]
  BY <1>2 DEF Deliver, Become
<1>4. /\ \A v \in Slots \ {w} : tasks'[v] = tasks[v]
      /\ fails => tasks'[w].step = "withdraw" /\ tasks'[w].at = at /\ tasks'[w].code = c
      /\ ~ fails => tasks'[w] = Idle
  BY <1>1, <1>2, <1>3 DEF WInv, AInv, Task
<1>5. c \in Nat
  BY <1>2 DEF WInv, AInv, Listed, Codes
<1>6. Older' /\ stops' \in Nat
  BY <1>3 DEF WInv, Older
<1>7. Answered'
  BY <1>2, <1>3, <1>5 DEF WInv, Answered
<1>8. Ready(tasks[w])'
  <2>1. CASE fails
    BY <2>1, <1>1, <1>2, <1>3, <1>4 DEF WInv, Ready, Latest
  <2>2. CASE ~ fails
    BY <2>2, <1>4, IdleReadyNext
  <2>3. QED
    BY <2>1, <2>2
<1>9. \A v \in Slots : Ready(tasks[v])'
  BY <1>1, <1>3, <1>4, <1>8, TheOthers
<1>10. Working'
  <2> SUFFICES ASSUME ~ overlaps', stops' = 0, NEW a \in Addresses PROVE Works(a)'
    BY DEF Working
  <2>1. Works(a)
    BY <1>1, <1>3, NoneStoring DEF WInv, Working
  <2>2. CASE a = at /\ ~ fails
    <3>1. answered'[a] = c /\ c \in delivered'
      BY <2>2, <1>3 DEF WInv, Answered
    <3>2. c \in challenges'[a]
      BY <2>2, <1>1, <1>2, <1>3 DEF WInv, Ready
    <3>3. QED
      BY <3>1, <3>2 DEF Works
  <2>3. CASE ~ (a = at /\ ~ fails)
    <3>1. answered'[a] = answered[a] /\ delivered \subseteq delivered'
      BY <2>3, <1>3 DEF WInv, Answered
    <3>2. QED
      BY <2>1, <3>1, <1>3, WorksStill
  <2>4. QED
    BY <2>2, <2>3
<1>11. QED
  BY <1>6, <1>7, <1>9, <1>10 DEF WInv

LEMMA WorksWithdraw == ASSUME WInv, AInv', NEW w \in Slots, Withdraw(w) PROVE WInv'
<1>1. tasks[w].step = "withdraw" /\ tasks[w] # Idle /\ tasks[w].at \in Addresses
  BY IdleIsTask DEF Withdraw, WInv, AInv, Holding
<1>2. PICK at \in Addresses : at = tasks[w].at
  BY <1>1
<1>3. /\ UNCHANGED <<expired, issued, delivered, tokens, stops, overlaps>>
      /\ challenges' = [challenges EXCEPT ![at] = {}]
      /\ answered' = [answered EXCEPT ![at] = 0]
      /\ tasks' = [tasks EXCEPT ![w] = Idle]
  BY <1>2 DEF Withdraw, DeleteAll, Become
<1>4. tasks'[w] = Idle /\ \A v \in Slots \ {w} : tasks'[v] = tasks[v]
  BY <1>3 DEF WInv, AInv
<1>5. Older' /\ Answered' /\ stops' \in Nat
  BY <1>3 DEF WInv, Older, Answered
<1>6. \A v \in Slots : Ready(tasks[v])'
  BY <1>1, <1>3, <1>4, IdleReadyNext, TheOthers
<1>7. Working'
  <2> SUFFICES ASSUME ~ overlaps', stops' = 0, NEW a \in Addresses PROVE Works(a)'
    BY DEF Working
  <2>1. CASE a = at
    BY <2>1, <1>3 DEF Works, WInv, Answered
  <2>2. CASE a # at
    <3>1. Works(a)
      BY <1>1, <1>3, NoneStoring DEF WInv, Working
    <3>2. answered'[a] = answered[a] /\ challenges[a] \subseteq challenges'[a]
      BY <2>2, <1>3 DEF WInv, Answered, AInv, Listed
    <3>3. QED
      BY <3>1, <3>2, <1>3, WorksStill
  <2>3. QED
    BY <2>1, <2>2
<1>8. QED
  BY <1>5, <1>6, <1>7 DEF WInv

LEMMA WorksRead == ASSUME WInv, AInv', NEW w \in Slots, ReadNewest(w) PROVE WInv'
<1>1. tasks[w].step = "read" /\ tasks[w] # Idle /\ tasks[w] \in Task /\ tasks[w].at \in Addresses
  BY IdleIsTask DEF ReadNewest, WInv, AInv, Holding
<1>2. PICK at \in Addresses : at = tasks[w].at
  BY <1>1
<1>3. UNCHANGED <<challenges, expired, issued, delivered, answered, tokens, stops, overlaps>>
  BY DEF ReadNewest
<1>4. /\ \A v \in Slots \ {w} : tasks'[v] = tasks[v]
      /\ \/ tasks'[w] = Idle
         \/ ~ Valid(at) /\ tasks'[w] = [tasks[w] EXCEPT !.step = "drop"]
         \/ /\ Valid(at) /\ Newest(challenges[at]) = tasks[w].code
            /\ tasks'[w] = [tasks[w] EXCEPT !.step = "use"]
  BY <1>2 DEF ReadNewest, Become, WInv, AInv
<1>5. Older' /\ Answered' /\ stops' \in Nat
  BY <1>3 DEF WInv, Older, Answered
<1>6. Ready(tasks[w])'
  <2>1. CASE tasks'[w] = Idle
    BY <2>1, IdleReadyNext
  <2>2. CASE ~ Valid(at) /\ tasks'[w] = [tasks[w] EXCEPT !.step = "drop"]
    <3>1. tasks'[w].step = "drop" /\ tasks'[w].at = at
      BY <2>2, <1>1, <1>2 DEF Task
    <3>2. challenges[at] \subseteq expired
      <4> SUFFICES ASSUME NEW d \in challenges[at] PROVE d \in expired
        OBVIOUS
      <4>1. Newest(challenges[at]) \in expired /\ d <= Newest(challenges[at])
        BY <2>2, ReadsLatest DEF Valid, WInv
      <4>2. d \in DOMAIN issued
        BY DEF WInv, AInv, Listed
      <4>3. QED
        BY <4>1, <4>2 DEF WInv, Older
    <3>3. QED
      BY <3>1, <3>2, <1>3 DEF Ready
  <2>3. CASE /\ Valid(at) /\ Newest(challenges[at]) = tasks[w].code
             /\ tasks'[w] = [tasks[w] EXCEPT !.step = "use"]
    <3>1. tasks'[w].step = "use" /\ tasks'[w].at = at /\ tasks'[w].code = Newest(challenges[at])
      BY <2>3, <1>1, <1>2 DEF Task
    <3>2. Latest(Newest(challenges[at]), at)
      BY <2>3, ReadsLatest DEF Valid, WInv
    <3>3. PICK c : c = Newest(challenges[at])
      OBVIOUS
    <3>4. Latest(c, at)'
      BY <3>2, <3>3, <1>3 DEF Latest
    <3>5. tasks'[w].code = c
      BY <3>1, <3>3
    <3>6. QED
      BY <3>1, <3>4, <3>5 DEF Ready
  <2>4. QED
    BY <1>4, <2>1, <2>2, <2>3
<1>7. \A v \in Slots : Ready(tasks[v])'
  BY <1>1, <1>3, <1>4, <1>6, TheOthers
<1>8. Working'
  <2> SUFFICES ASSUME ~ overlaps', stops' = 0, NEW a \in Addresses PROVE Works(a)'
    BY DEF Working
  <2>1. Works(a)
    BY <1>1, <1>3, NoneStoring DEF WInv, Working
  <2>2. QED
    BY <2>1, <1>3, WorksStill
<1>9. QED
  BY <1>5, <1>7, <1>8 DEF WInv

\* What is dropped has expired.
LEMMA WorksDrop == ASSUME WInv, AInv', NEW w \in Slots, DropExpired(w) PROVE WInv'
<1>1. tasks[w].step = "drop" /\ tasks[w] # Idle /\ tasks[w].at \in Addresses
  BY IdleIsTask DEF DropExpired, WInv, AInv, Holding
<1>2. PICK at \in Addresses : at = tasks[w].at
  BY <1>1
<1>3. /\ UNCHANGED <<expired, issued, delivered, answered, tokens, stops, overlaps>>
      /\ challenges' = [challenges EXCEPT ![at] = {}]
      /\ tasks' = [tasks EXCEPT ![w] = Idle]
  BY <1>2 DEF DropExpired, DeleteAll, Become
<1>4. tasks'[w] = Idle /\ \A v \in Slots \ {w} : tasks'[v] = tasks[v]
  BY <1>3 DEF WInv, AInv
<1>5. Older' /\ Answered' /\ stops' \in Nat
  BY <1>3 DEF WInv, Older, Answered
<1>6. \A v \in Slots : Ready(tasks[v])'
  BY <1>1, <1>3, <1>4, IdleReadyNext, TheOthers
<1>7. Working'
  <2> SUFFICES ASSUME ~ overlaps', stops' = 0, NEW a \in Addresses PROVE Works(a)'
    BY DEF Working
  <2>1. Works(a)
    BY <1>1, <1>3, NoneStoring DEF WInv, Working
  <2>2. CASE a = at
    <3>1. challenges[a] \subseteq expired
      BY <2>2, <1>1, <1>2, <1>3 DEF WInv, Ready
    <3>2. QED
      BY <2>1, <3>1, <1>3 DEF Works
  <2>3. CASE a # at
    <3>1. challenges[a] \subseteq challenges'[a]
      BY <2>3, <1>3 DEF WInv, AInv, Listed
    <3>2. QED
      BY <2>1, <3>1, <1>3, WorksStill
  <2>4. QED
    BY <2>2, <2>3
<1>8. QED
  BY <1>5, <1>6, <1>7 DEF WInv

\* The code that is exchanged is the last of its address: one reported before it was
\* replaced.
LEMMA WorksUse == ASSUME WInv, AInv', NEW w \in Slots, UseCode(w) PROVE WInv'
<1>1. tasks[w].step = "use" /\ tasks[w] # Idle /\ tasks[w].at \in Addresses
      /\ tasks[w].code \in DOMAIN issued
  BY IdleIsTask DEF UseCode, WInv, AInv, Holding
<1>2. PICK at \in Addresses, c \in DOMAIN issued : at = tasks[w].at /\ c = tasks[w].code
  BY <1>1
<1>3. /\ UNCHANGED <<expired, issued, delivered, answered, stops, overlaps>>
      /\ challenges' = [challenges EXCEPT ![at] = {}]
      /\ tokens' = [tokens EXCEPT ![c] = @ + 1]
      /\ tasks' = [tasks EXCEPT ![w] = Idle]
  BY <1>2 DEF UseCode, DeleteAll, Become
<1>4. tasks'[w] = Idle /\ \A v \in Slots \ {w} : tasks'[v] = tasks[v]
  BY <1>3 DEF WInv, AInv
<1>5. Older' /\ Answered' /\ stops' \in Nat
  BY <1>3 DEF WInv, Older, Answered
<1>6. \A v \in Slots : Ready(tasks[v])'
  BY <1>1, <1>3, <1>4, IdleReadyNext, TheOthers
<1>7. c \in Codes /\ DOMAIN issued \subseteq Nat /\ DOMAIN issued \subseteq Codes
  BY DEF WInv, AInv, Listed, Codes
<1>8. tokens'[c] > 0 /\ \A d \in Codes : tokens[d] > 0 => tokens'[d] > 0
  BY <1>3, <1>7 DEF WInv, AInv
<1>9. Working'
  <2> SUFFICES ASSUME ~ overlaps', stops' = 0, NEW a \in Addresses PROVE Works(a)'
    BY DEF Working
  <2>1. Works(a)
    BY <1>1, <1>3, NoneStoring DEF WInv, Working
  <2>2. answered[a] = 0 \/ answered[a] \in Codes
    BY <1>7 DEF WInv, Answered
  <2>3. CASE answered[a] \in challenges[a] /\ a = at
    <3>1. answered[a] \in DOMAIN issued /\ issued[answered[a]] = a /\ answered[a] \in Nat
      BY <2>3, <1>7 DEF WInv, AInv, Listed
    <3>2. issued[c] = at /\ answered[a] <= c
      BY <2>3, <3>1, <1>1, <1>2, <1>3 DEF WInv, Ready, Latest
    <3>3. answered[a] = c \/ c > answered[a]
      BY <3>1, <3>2, <1>7
    <3>4. QED
      BY <3>2, <3>3, <2>3, <1>3, <1>8 DEF Works
  <2>4. CASE ~ (answered[a] \in challenges[a] /\ a = at)
    <3>1. answered[a] \in challenges[a] => answered[a] \in challenges'[a]
      BY <2>4, <1>3 DEF WInv, AInv, Listed
    <3>2. QED
      BY <3>1, <2>1, <2>2, <1>3, <1>8 DEF Works
  <2>5. QED
    BY <2>3, <2>4
<1>10. QED
  BY <1>5, <1>6, <1>9 DEF WInv

LEMMA WorksInterrupt == ASSUME WInv, AInv', NEW w \in Slots, Interrupt(w) PROVE WInv'
<1>1. /\ UNCHANGED <<challenges, expired, issued, delivered, answered, tokens, overlaps>>
      /\ tasks[w] # Idle /\ tasks' = [tasks EXCEPT ![w] = Idle] /\ stops' = stops + 1
  BY DEF Interrupt, Become
<1>2. tasks'[w] = Idle /\ \A v \in Slots \ {w} : tasks'[v] = tasks[v]
  BY <1>1 DEF WInv, AInv
<1>3. Older' /\ Answered' /\ stops' \in Nat /\ stops' > 0
  BY <1>1 DEF WInv, Older, Answered
<1>4. \A v \in Slots : Ready(tasks[v])'
  BY <1>1, <1>2, IdleReadyNext, TheOthers
<1>5. QED
  BY <1>3, <1>4 DEF WInv, Working

LEMMA WorksExpire == ASSUME WInv, AInv', NEW c \in Codes, Expire(c) PROVE WInv'
<1>1. /\ UNCHANGED <<challenges, issued, delivered, answered, tokens, tasks, stops, overlaps>>
      /\ expired' = expired \cup 1..c /\ c \in DOMAIN issued
  BY DEF Expire
<1>2. PICK n \in Nat : DOMAIN issued = 1..n
  BY DEF WInv, AInv, Listed
<1>3. Older'
  <2>1. 1..c \subseteq DOMAIN issued
    BY <1>1, <1>2
  <2>2. ASSUME NEW e \in expired', NEW d \in DOMAIN issued, d <= e PROVE d \in expired'
    <3>1. CASE e \in expired
      BY <3>1, <2>2, <1>1 DEF WInv, Older
    <3>2. CASE e \in 1..c
      BY <3>2, <2>2, <1>1, <1>2
    <3>3. QED
      BY <3>1, <3>2, <1>1
  <2>3. QED
    BY <2>1, <2>2, <1>1 DEF WInv, Older
<1>4. Answered' /\ stops' \in Nat
  BY <1>1 DEF WInv, Answered
<1>5. \A v \in Slots : Ready(tasks[v])'
  BY <1>1 DEF WInv, Ready, Latest
<1>6. Working'
  <2> SUFFICES ASSUME ~ overlaps', stops' = 0, NEW a \in Addresses PROVE Works(a)' \/ Storing(a)'
    BY DEF Working
  <2>1. Works(a) \/ Storing(a)
    BY <1>1 DEF WInv, Working
  <2>2. CASE Works(a)
    BY <2>2, <1>1, WorksStill
  <2>3. CASE Storing(a)
    BY <2>3, <1>1 DEF Storing
  <2>4. QED
    BY <2>1, <2>2, <2>3
<1>7. QED
  BY <1>3, <1>4, <1>5, <1>6 DEF WInv

LEMMA NextWorks == ASSUME MaxCodes \in Nat, WInv, [Next]_codeVars PROVE WInv'
<1>1. AInv'
  BY NextCodes DEF WInv
<1>2. ASSUME NEW w \in Slots, NEW a \in Addresses, RequestCode(w, a) PROVE WInv'
  <2>1. Idle \in Task
    BY IdleIsTask
  <2>2. PICK t : t = [Idle EXCEPT !.step = "clear", !.at = a]
    OBVIOUS
  <2>3. t \in Task /\ t.step = "clear"
    BY <2>1, <2>2 DEF Task
  <2>4. Start(w, t)
    BY <1>2, <2>2 DEF RequestCode
  <2>5. QED
    BY <1>1, <2>3, <2>4, WorksStart
<1>3. ASSUME NEW w \in Slots, NEW a \in Addresses, NEW c \in 0..MaxCodes, VerifyCode(w, a, c)
      PROVE  WInv'
  <2>1. PICK t : t = [step |-> "read", at |-> a, code |-> c]
    OBVIOUS
  <2>2. t \in Task /\ t.step = "read"
    BY <2>1 DEF Task
  <2>3. Start(w, t)
    BY <1>3, <2>1 DEF VerifyCode
  <2>4. QED
    BY <1>1, <2>2, <2>3, WorksStart
<1>4. CASE UNCHANGED codeVars
  BY <1>1, <1>4 DEF codeVars, WInv, Older, Answered, Ready, Latest, Working, Works, Storing
<1>5. QED
  BY <1>1, <1>2, <1>3, <1>4, WorksClear, WorksStore, WorksDeliver, WorksWithdraw, WorksRead, WorksDrop,
     WorksUse, WorksInterrupt, WorksExpire DEF Next

\* SentCodeWorks: what a request tells its caller is true.  A code it reported as sent is in
\* the table and at its address until it expires, is replaced or is exchanged, as long as
\* requests do not overlap and none is interrupted.
THEOREM SentCodesWork == ASSUME MaxCodes \in Nat PROVE Spec => []SentCodeWorks
<1>1. Init => WInv
  BY InitWorks
<1>2. WInv /\ [Next]_codeVars => WInv'
  BY NextWorks
<1>3. ASSUME WInv PROVE SentCodeWorks
  <2> SUFFICES ASSUME ~ overlaps, \A w \in Slots : tasks[w] = Idle, stops = 0
               PROVE  \A a \in Addresses : Works(a)
    BY <1>3 DEF SentCodeWorks, Works, WInv
  <2>1. QED
    BY <1>3, IdleIsTask DEF WInv, Working, Storing
<1>4. QED
  BY <1>1, <1>2, <1>3, PTL DEF Spec

\* The bounds of the requests and of their interruptions.
CodeBounds == MaxCalls \in Nat /\ MaxStops \in Nat

\* Every token was signed by a call that has ended.
Busy == {w \in Slots : tasks[w] # Idle}
TokensPaid ==
    /\ calls \in 0..MaxCalls
    /\ IsFiniteSet(Busy)
    /\ \A c \in Codes : tokens[c] + Cardinality(Busy) <= calls

\* What is delivered, expired or reported was stored.
CodesKnown ==
    /\ expired \cup delivered \subseteq DOMAIN issued
    /\ answered \in [Addresses -> 0..MaxCodes]
    /\ stops \in 0..MaxStops
    /\ \A w \in Slots : tasks[w].step = "deliver" => tasks[w].code \in DOMAIN issued

LEMMA PaidStarts ==
  ASSUME CodeBounds, AInv, TokensPaid, NEW w \in Slots, NEW t, t # Idle, Start(w, t)
  PROVE  TokensPaid'
<1>1. tasks[w] = Idle /\ calls < MaxCalls /\ calls' = calls + 1 /\ tokens' = tokens
      /\ tasks' = [tasks EXCEPT ![w] = t]
  BY DEF Start, Become
<1>2. Busy' = Busy \cup {w} /\ w \notin Busy
  BY <1>1 DEF Busy, AInv
<1>3. IsFiniteSet(Busy') /\ Cardinality(Busy') = Cardinality(Busy) + 1 /\ Cardinality(Busy) \in Nat
  BY <1>2, FS_AddElement, FS_CardinalityType DEF TokensPaid
<1>4. QED
  BY <1>1, <1>3 DEF TokensPaid, CodeBounds, AInv

LEMMA PaidGoesOn ==
  ASSUME CodeBounds, AInv, TokensPaid, NEW w \in Slots, NEW t, tasks[w] # Idle,
         tasks' = [tasks EXCEPT ![w] = t], calls' = calls, tokens' = tokens
  PROVE  TokensPaid'
<1>1. Busy' = Busy \/ Busy' = Busy \ {w}
  BY DEF Busy, AInv
<1>2. CASE Busy' = Busy
  BY <1>2 DEF TokensPaid
<1>3. CASE Busy' = Busy \ {w}
  <2>1. IsFiniteSet(Busy') /\ Cardinality(Busy') <= Cardinality(Busy)
        /\ Cardinality(Busy') \in Nat /\ Cardinality(Busy) \in Nat
    BY <1>3, FS_Subset, FS_CardinalityType DEF TokensPaid
  <2>2. QED
    BY <2>1 DEF TokensPaid, CodeBounds, AInv
<1>4. QED
  BY <1>1, <1>2, <1>3

LEMMA PaidUses ==
  ASSUME MaxCodes \in Nat, CodeBounds, AInv, TokensPaid, NEW w \in Slots, UseCode(w)
  PROVE  TokensPaid'
<1>1. tasks[w] # Idle /\ tasks' = [tasks EXCEPT ![w] = Idle] /\ calls' = calls
      /\ tokens' = [tokens EXCEPT ![tasks[w].code] = @ + 1]
  BY IdleIsTask DEF UseCode, Become
<1>2. Busy' = Busy \ {w} /\ w \in Busy
  BY <1>1 DEF Busy, AInv
<1>3. IsFiniteSet(Busy') /\ Cardinality(Busy') = Cardinality(Busy) - 1
      /\ Cardinality(Busy') \in Nat /\ Cardinality(Busy) \in Nat
  BY <1>2, FS_RemoveElement, FS_CardinalityType DEF TokensPaid
<1>4. \A c \in Codes : tokens[c] \in Nat /\ tokens'[c] <= tokens[c] + 1
  BY <1>1 DEF AInv
<1>5. \A c \in Codes : tokens'[c] \in Nat
  BY <1>1 DEF AInv
<1>6. QED
  BY <1>1, <1>3, <1>4, <1>5 DEF TokensPaid, CodeBounds

LEMMA NextPaid ==
  ASSUME MaxCodes \in Nat, CodeBounds, AInv, TokensPaid, [Next]_codeVars PROVE TokensPaid'
<1>1. ASSUME NEW w \in Slots, NEW a \in Addresses, RequestCode(w, a) PROVE TokensPaid'
  <2>1. [Idle EXCEPT !.step = "clear", !.at = a] # Idle
    BY DEF Idle
  <2>2. QED
    BY <1>1, <2>1, PaidStarts DEF RequestCode
<1>2. ASSUME NEW w \in Slots, NEW a \in Addresses, NEW c, VerifyCode(w, a, c) PROVE TokensPaid'
  <2>1. [step |-> "read", at |-> a, code |-> c] # Idle
    BY DEF Idle
  <2>2. QED
    BY <1>2, <2>1, PaidStarts DEF VerifyCode
<1>3. ASSUME NEW w \in Slots,
             \/ Clear(w) \/ Store(w) \/ Withdraw(w) \/ ReadNewest(w) \/ DropExpired(w) \/ Interrupt(w)
      PROVE  TokensPaid'
  <2>1. tasks[w] # Idle /\ calls' = calls /\ tokens' = tokens
    BY <1>3, IdleIsTask DEF Clear, Store, Withdraw, ReadNewest, DropExpired, Interrupt
  <2>2. PICK t : tasks' = [tasks EXCEPT ![w] = t]
    BY <1>3 DEF Clear, Store, Withdraw, ReadNewest, DropExpired, Interrupt, Advance, Become
  <2>3. QED
    BY <2>1, <2>2, PaidGoesOn
<1>4. ASSUME NEW w \in Slots, NEW arrives, NEW fails, Deliver(w, arrives, fails) PROVE TokensPaid'
  <2>1. tasks[w] # Idle /\ calls' = calls /\ tokens' = tokens
    BY <1>4, IdleIsTask DEF Deliver
  <2>2. PICK t : tasks' = [tasks EXCEPT ![w] = t]
    BY <1>4 DEF Deliver, Become
  <2>3. QED
    BY <2>1, <2>2, PaidGoesOn
<1>5. ASSUME NEW w \in Slots, UseCode(w) PROVE TokensPaid'
  BY <1>5, PaidUses
<1>6. ASSUME NEW c \in Codes, Expire(c) PROVE TokensPaid'
  BY <1>6 DEF Expire, TokensPaid, Busy
<1>7. CASE UNCHANGED codeVars
  BY <1>7 DEF codeVars, TokensPaid, Busy
<1>8. QED
  BY <1>1, <1>2, <1>3, <1>4, <1>5, <1>6, <1>7 DEF Next

LEMMA NextKnown ==
  ASSUME MaxCodes \in Nat, CodeBounds, AInv, CodesKnown, [Next]_codeVars PROVE CodesKnown'
<1>1. ASSUME UNCHANGED <<issued, expired, delivered>>,
             NEW w \in Slots, NEW t, tasks' = [tasks EXCEPT ![w] = t], t.step # "deliver",
             \/ answered' = answered
             \/ \E a \in Addresses : answered' = [answered EXCEPT ![a] = 0],
             stops' = stops \/ (stops < MaxStops /\ stops' = stops + 1)
      PROVE  CodesKnown'
  <2>1. answered' \in [Addresses -> 0..MaxCodes]
    BY <1>1 DEF CodesKnown
  <2>2. stops' \in 0..MaxStops
    BY <1>1 DEF CodesKnown, CodeBounds
  <2>3. QED
    BY <1>1, <2>1, <2>2 DEF CodesKnown, AInv
<1>2. ASSUME NEW w \in Slots, NEW a \in Addresses,
             RequestCode(w, a) \/ \E c \in 0..MaxCodes : VerifyCode(w, a, c)
      PROVE  CodesKnown'
  <2>1. PICK t : t.step # "deliver" /\ Start(w, t)
    BY <1>2 DEF RequestCode, VerifyCode, Idle
  <2>2. QED
    BY <2>1, <1>1 DEF Start, Become
<1>3. ASSUME NEW w \in Slots,
             Clear(w) \/ Withdraw(w) \/ ReadNewest(w) \/ DropExpired(w) \/ UseCode(w) \/ Interrupt(w)
      PROVE  CodesKnown'
  <2>1. tasks[w] \in Task /\ tasks[w] # Idle => tasks[w].at \in Addresses
    BY DEF AInv, Holding
  <2>2. CASE Clear(w)
    <3>1. tasks' = [tasks EXCEPT ![w] = [tasks[w] EXCEPT !.step = "store"]]
      BY <2>2 DEF Clear, Advance, Become
    <3>2. [tasks[w] EXCEPT !.step = "store"].step # "deliver"
      BY DEF AInv, Task
    <3>3. QED
      BY <3>1, <3>2, <2>2, <1>1 DEF Clear
  <2>3. CASE Withdraw(w)
    <3>1. tasks[w].at \in Addresses
      BY <2>3, IdleIsTask DEF Withdraw, AInv, Holding
    <3>2. QED
      BY <3>1, <2>3, <1>1, IdleIsTask DEF Withdraw, Become
  <2>4. CASE ReadNewest(w)
    <3>1. PICK t : tasks' = [tasks EXCEPT ![w] = t] /\ t.step # "deliver"
      <4>1. tasks[w] \in Task
        BY DEF AInv
      <4>2. [tasks[w] EXCEPT !.step = "drop"].step = "drop" /\ [tasks[w] EXCEPT !.step = "use"].step = "use"
        BY <4>1 DEF Task
      <4>3. QED
        BY <4>2, <2>4, IdleIsTask DEF ReadNewest, Become
    <3>2. QED
      BY <3>1, <2>4, <1>1 DEF ReadNewest
  <2>5. CASE DropExpired(w) \/ UseCode(w) \/ Interrupt(w)
    BY <2>5, <1>1, IdleIsTask DEF DropExpired, UseCode, Interrupt, Become
  <2>6. QED
    BY <1>3, <2>2, <2>3, <2>4, <2>5
<1>4. ASSUME NEW w \in Slots, Store(w) PROVE CodesKnown'
  <2> DEFINE c == Cardinality(DOMAIN issued) + 1
  <2>1. PICK n \in Nat : DOMAIN issued = 1..n
    BY DEF AInv, Listed
  <2>2. c = n + 1
    <3>1. Cardinality(1..n) = IF 1 > n THEN 0 ELSE n - 1 + 1
      BY FS_Interval
    <3>2. QED
      BY <3>1, <2>1
  <2>3. DOMAIN issued' = 1..c /\ tasks' = [tasks EXCEPT ![w] = [tasks[w] EXCEPT !.step = "deliver", !.code = c]]
        /\ UNCHANGED <<expired, delivered, answered, stops>>
    BY <1>4 DEF Store, Become
  <2> HIDE DEF c
  <2>4. DOMAIN issued \subseteq DOMAIN issued' /\ c \in DOMAIN issued'
    BY <2>1, <2>2, <2>3
  <2>5. [tasks[w] EXCEPT !.step = "deliver", !.code = c].code = c
    BY DEF AInv, Task
  <2>6. \A v \in Slots : tasks'[v].step = "deliver" => tasks'[v].code \in DOMAIN issued'
    BY <2>3, <2>4, <2>5 DEF AInv, CodesKnown
  <2>7. QED
    BY <2>3, <2>4, <2>6 DEF CodesKnown
<1>5. ASSUME NEW w \in Slots, NEW arrives \in BOOLEAN, NEW fails \in BOOLEAN, Deliver(w, arrives, fails)
      PROVE  CodesKnown'
  <2>1. tasks[w].step = "deliver" /\ tasks[w].code \in DOMAIN issued /\ tasks[w].code \in 0..MaxCodes
        /\ tasks[w].at \in Addresses
    BY <1>5, IdleIsTask DEF Deliver, AInv, Task, CodesKnown, Holding
  <2>2. UNCHANGED <<issued, expired, stops>>
        /\ (delivered' = delivered \/ delivered' = delivered \cup {tasks[w].code})
        /\ (answered' = answered \/ answered' = [answered EXCEPT ![tasks[w].at] = tasks[w].code])
    BY <1>5 DEF Deliver
  <2>3. PICK t : tasks' = [tasks EXCEPT ![w] = t] /\ t.step # "deliver"
    <3>1. [tasks[w] EXCEPT !.step = "withdraw"].step = "withdraw"
      BY DEF AInv, Task
    <3>2. QED
      BY <1>5, <3>1, IdleIsTask DEF Deliver, Become
  <2>4. answered' \in [Addresses -> 0..MaxCodes]
    BY <2>1, <2>2 DEF CodesKnown
  <2>5. \A v \in Slots : tasks'[v].step = "deliver" => tasks'[v].code \in DOMAIN issued'
    BY <2>2, <2>3 DEF AInv, CodesKnown
  <2>6. QED
    BY <2>1, <2>2, <2>4, <2>5 DEF CodesKnown
<1>6. ASSUME NEW c \in Codes, Expire(c) PROVE CodesKnown'
  <2>1. 1..c \subseteq DOMAIN issued
    BY <1>6 DEF Expire, AInv, Listed
  <2>2. QED
    BY <1>6, <2>1 DEF Expire, CodesKnown
<1>7. CASE UNCHANGED codeVars
  BY <1>7 DEF codeVars, CodesKnown
<1>8. QED
  BY <1>2, <1>3, <1>4, <1>5, <1>6, <1>7 DEF Next

\* CodeTypeOK: however requests and verifications overlap and are interrupted, challenges,
\* expired and delivered codes are among those that were stored, and no code is exchanged
\* more often than verifications were begun.
THEOREM CodesTyped == ASSUME MaxCodes \in Nat, CodeBounds PROVE Spec => []CodeTypeOK
<1>1. Init => AInv /\ TokensPaid /\ CodesKnown
  <2> SUFFICES ASSUME Init PROVE TokensPaid /\ CodesKnown
    BY InitCodes
  <2>1. Busy = {}
    BY DEF Busy, Init
  <2>2. TokensPaid
    BY <2>1, FS_EmptySet DEF TokensPaid, Init, CodeBounds
  <2>3. CodesKnown
    BY IdleIsTask DEF CodesKnown, Init, CodeBounds
  <2>4. QED
    BY <2>2, <2>3
<1>2. AInv /\ TokensPaid /\ CodesKnown /\ [Next]_codeVars => AInv' /\ TokensPaid' /\ CodesKnown'
  BY NextCodes, NextPaid, NextKnown
<1>3. AInv /\ TokensPaid /\ CodesKnown => CodeTypeOK
  <2> SUFFICES ASSUME AInv, TokensPaid, CodesKnown PROVE CodeTypeOK
    OBVIOUS
  <2>1. DOMAIN issued \in {1..n : n \in 0..MaxCodes}
    <3>1. PICK n \in Nat : DOMAIN issued = 1..n
      BY DEF AInv, Listed
    <3>2. CASE n = 0
      BY <3>1, <3>2
    <3>3. CASE n # 0
      <4>1. n \in DOMAIN issued
        BY <3>1, <3>3
      <4>2. n \in 0..MaxCodes
        BY <4>1 DEF AInv, Listed, Codes
      <4>3. QED
        BY <3>1, <4>2
    <3>4. QED
      BY <3>2, <3>3
  <2>2. tokens \in [Codes -> 0..MaxCalls]
    <3>1. \A c \in Codes : tokens[c] \in 0..MaxCalls
      BY FS_CardinalityType DEF AInv, TokensPaid, CodeBounds
    <3>2. QED
      BY <3>1 DEF AInv
  <2>3. \A a \in Addresses : \A c \in challenges[a] : c \in DOMAIN issued /\ issued[c] = a
    BY DEF AInv, Listed
  <2>4. QED
    BY <2>1, <2>2, <2>3 DEF CodeTypeOK, AInv, TokensPaid, CodesKnown
<1>4. QED
  BY <1>1, <1>2, <1>3, PTL DEF Spec

(***************************************************************************)
(* Communications.                                                         *)
(***************************************************************************)

Messaging == INSTANCE Communications

\* Units and channels are asked for as the API declares them, and the absent value is no row.
MessageParameters ==
    /\ MaxRequests \in Nat /\ Linked \in [Users -> SUBSET Units]
    /\ Settings \subseteq [units : SUBSET Units, channels : SUBSET (Users \X Messaging!Channels)]
    /\ None \notin Messaging!Recipient

Dropping == {"drop_links", "drop_recipients", "make"}
Delivering == {"next", "mail", "text", "save_recipient"}
Addressing == Delivering \cup {"insert_recipients", "insert_links"}
Editing == {"save", "attach", "detach"}
Reading == {"log", "find_recipient", "touch"}
Managing == Dropping \cup Addressing \cup Editing

RecipientRows == {<< >>} \cup UNION {[S -> Messaging!Recipient] : S \in SUBSET Users}

Errand ==
    [pc : Managing \cup Reading \cup {"idle"}, comm : Messaging!Communication \cup {None},
     made : RecipientRows, left : SUBSET Users, token : Messaging!Token \cup {None},
     reader : Users \cup {None}, sending : 0..MaxRequests,
     row : Users \cup Files \cup Messaging!Recipient \cup {None}]

\* What a request holds for its next statement.
Carries(q) ==
    /\ q.pc \in Dropping \cup Addressing \cup {"save"} => q.comm \in Messaging!Communication
    /\ q.pc \in Dropping \cup Addressing => q.sending \in 1..MaxRequests
    /\ q.pc \in Addressing =>
          q.made \in [Messaging!Addressed(q.comm) -> Messaging!Recipient] /\ q.left \subseteq Messaging!Addressed(q.comm)
    /\ q.pc \in {"mail", "text", "save_recipient"} => q.row \in Messaging!Addressed(q.comm)
    /\ q.pc \in {"attach", "detach"} => q.row \in Files
    /\ q.pc \in Reading => q.reader \in Users
    /\ q.pc = "log" => q.token \in handed \cup {None}
    /\ q.pc = "touch" => q.row \in Messaging!Recipient

MessageInv ==
    /\ Messaging!MessageTypeOK
    /\ tasks \in [Messaging!Slots -> Errand] /\ asked \in 0..MaxRequests
    /\ \A s \in Messaging!Slots : Carries(tasks[s])

LEMMA MessageBlank ==
  ASSUME MessageParameters
  PROVE  Messaging!Blank \in Errand /\ Messaging!Blank.pc = "idle" /\ Carries(Messaging!Blank)
<1>1. PICK q : q = Messaging!Blank
  OBVIOUS
<1>2. q.pc = "idle" /\ q \in Errand
  <2>1. << >> \in RecipientRows /\ 0 \in 0..MaxRequests
    BY DEF RecipientRows, MessageParameters
  <2>2. QED
    BY <1>1, <2>1 DEF Messaging!Blank, Errand
<1>3. Carries(q)
  BY <1>2 DEF Carries, Dropping, Addressing, Delivering, Editing, Reading, Managing
<1>4. QED
  BY <1>1, <1>2, <1>3

LEMMA InitMessages == ASSUME MessageParameters, Messaging!Init PROVE MessageInv
<1>1. comm \in Messaging!Communication
  <2>1. PICK new \in Settings \cup {Messaging!Created} :
           comm = [status |-> "draft", since |-> 0, units |-> new.units, channels |-> new.channels]
    BY DEF Messaging!Init
  <2>2. new.units \in SUBSET Units /\ new.channels \in SUBSET (Users \X Messaging!Channels)
    BY DEF MessageParameters, Messaging!Created
  <2>3. QED
    BY <2>1, <2>2 DEF Messaging!Communication, MessageParameters
<1>2. Messaging!MessageTypeOK
  BY <1>1 DEF Messaging!Init, Messaging!MessageTypeOK
<1>3. tasks \in [Messaging!Slots -> Errand] /\ \A s \in Messaging!Slots : tasks[s] = Messaging!Blank
  BY MessageBlank DEF Messaging!Init
<1>4. asked \in 0..MaxRequests
  BY DEF Messaging!Init, MessageParameters
<1>5. QED
  BY <1>2, <1>3, <1>4, MessageBlank DEF MessageInv

\* The request of a slot moves on; what was delivered stays delivered.
LEMMA MessageMoves ==
  ASSUME MessageInv, NEW s \in Messaging!Slots, NEW t \in Errand, tasks' = [tasks EXCEPT ![s] = t],
         Messaging!MessageTypeOK', handed \subseteq handed', asked' \in 0..MaxRequests, Carries(t)'
  PROVE  MessageInv'
<1>1. tasks' \in [Messaging!Slots -> Errand] /\ tasks'[s] = t /\ \A v \in Messaging!Slots \ {s} : tasks'[v] = tasks[v]
  BY DEF MessageInv
<1>2. ASSUME NEW v \in Messaging!Slots PROVE Carries(tasks[v])'
  <2>1. CASE v = s
    <3>1. tasks'[v] = t
      BY <2>1, <1>1
    <3>2. QED
      BY <3>1 DEF Carries
  <2>2. CASE v # s
    <3>1. PICK q : q = tasks[v]
      OBVIOUS
    <3>2. Carries(q) /\ tasks'[v] = q
      BY <3>1, <2>2, <1>1 DEF MessageInv
    <3>3. QED
      BY <3>2 DEF Carries
  <2>3. QED
    BY <2>1, <2>2
<1>3. QED
  BY <1>1, <1>2 DEF MessageInv

\* A request that does not deliver.
LEMMA MessageGoes ==
  ASSUME MessageInv, NEW s \in Messaging!Slots, NEW t \in Errand, tasks' = [tasks EXCEPT ![s] = t],
         Messaging!MessageTypeOK', handed' = handed, asked' \in 0..MaxRequests, Carries(t)
  PROVE  MessageInv'
<1>1. Carries(t)'
  BY DEF Carries
<1>2. QED
  BY <1>1, MessageMoves

LEMMA MessageEnds ==
  ASSUME MessageParameters, MessageInv, NEW s \in Messaging!Slots, Messaging!Ends(s),
         Messaging!MessageTypeOK', handed' = handed, asked' = asked
  PROVE  MessageInv'
<1>1. tasks' = [tasks EXCEPT ![s] = Messaging!Blank] /\ asked' \in 0..MaxRequests
  BY DEF Messaging!Ends, Messaging!Goes, MessageInv
<1>2. QED
  BY <1>1, MessageBlank, MessageGoes

LEMMA MessageAsks ==
  ASSUME MessageParameters, MessageInv, NEW s \in Messaging!Slots,
         \/ \E new \in Settings : Messaging!Update(s, new)
         \/ \E f \in Files : Messaging!AddAttachment(s, f) \/ Messaging!RemoveAttachment(s, f)
         \/ Messaging!Send(s)
  PROVE  MessageInv'
<1>1. comm \in Messaging!Communication /\ asked \in 0..MaxRequests
  BY DEF MessageInv, Messaging!MessageTypeOK
<1>2. ASSUME NEW t \in Errand, Messaging!Asks(s, t), Carries(t), handed' = handed, Messaging!MessageTypeOK'
      PROVE  MessageInv'
  <2>1. tasks' = [tasks EXCEPT ![s] = t] /\ asked' \in 0..MaxRequests
    BY <1>1, <1>2 DEF Messaging!Asks, Messaging!Goes, MessageParameters
  <2>2. QED
    BY <2>1, <1>2, MessageGoes
<1>3. ASSUME NEW new \in Settings, Messaging!Update(s, new) PROVE MessageInv'
  <2>1. PICK c : c = [comm EXCEPT !.units = new.units, !.channels = new.channels]
    OBVIOUS
  <2>2. c \in Messaging!Communication
    BY <2>1, <1>1 DEF MessageParameters, Messaging!Communication
  <2>3. PICK t : t = [Messaging!Blank EXCEPT !.pc = "save", !.comm = c]
    OBVIOUS
  <2>4. t \in Errand /\ t.pc = "save" /\ t.comm = c
    BY <2>2, <2>3, MessageBlank DEF Errand, Managing, Editing
  <2>5. Carries(t)
    BY <2>2, <2>4 DEF Carries, Dropping, Addressing, Delivering, Reading
  <2>6. Messaging!Asks(s, t) /\ Messaging!MessageTypeOK' /\ handed' = handed
    BY <2>1, <2>3, <1>3 DEF Messaging!Update, MessageInv, Messaging!MessageTypeOK
  <2>7. QED
    BY <2>4, <2>5, <2>6, <1>2
<1>4. ASSUME NEW f \in Files, NEW p \in {"attach", "detach"}, NEW t, t = [Messaging!Blank EXCEPT !.pc = p, !.row = f]
      PROVE  t \in Errand /\ Carries(t)
  <2>1. t \in Errand /\ t.pc = p /\ t.row = f
    BY <1>4, MessageBlank DEF Errand, Managing, Editing
  <2>2. QED
    BY <2>1 DEF Carries, Dropping, Addressing, Delivering, Reading
<1>5. ASSUME NEW f \in Files, Messaging!AddAttachment(s, f) PROVE MessageInv'
  <2>1. PICK t : t = [Messaging!Blank EXCEPT !.pc = "attach", !.row = f]
    OBVIOUS
  <2>2. t \in Errand /\ Carries(t)
    BY <2>1, <1>4
  <2>3. Messaging!Asks(s, t) /\ Messaging!MessageTypeOK' /\ handed' = handed
    BY <2>1, <1>5 DEF Messaging!AddAttachment, MessageInv, Messaging!MessageTypeOK
  <2>4. QED
    BY <2>2, <2>3, <1>2
<1>6. ASSUME NEW f \in Files, Messaging!RemoveAttachment(s, f) PROVE MessageInv'
  <2>1. PICK t : t = [Messaging!Blank EXCEPT !.pc = "detach", !.row = f]
    OBVIOUS
  <2>2. t \in Errand /\ Carries(t)
    BY <2>1, <1>4
  <2>3. Messaging!Asks(s, t) /\ Messaging!MessageTypeOK' /\ handed' = handed
    BY <2>1, <1>6 DEF Messaging!RemoveAttachment, MessageInv, Messaging!MessageTypeOK
  <2>4. QED
    BY <2>2, <2>3, <1>2
<1>7. CASE Messaging!Send(s)
  <2>1. PICK p \in {"drop_links", "drop_recipients"} : p = Messaging!FirstStep(comm)
    BY DEF Messaging!FirstStep
  <2>2. PICK n : n = asked + 1 /\ n \in 1..MaxRequests /\ n \in 0..MaxRequests
    BY <1>1, <1>7 DEF Messaging!Send, Messaging!Asks, MessageParameters
  <2>3. PICK t : t = [Messaging!Blank EXCEPT !.pc = p, !.comm = comm, !.sending = n]
    OBVIOUS
  <2>4. t \in Errand /\ t.pc = p /\ t.comm = comm /\ t.sending = n
    <3>1. PICK b \in Errand : b = Messaging!Blank
      BY MessageBlank
    <3>2. t = [b EXCEPT !.pc = p, !.comm = comm, !.sending = n]
      BY <3>1, <2>3
    <3>3. p \in Managing \cup Reading \cup {"idle"} /\ n \in 0..MaxRequests
          /\ comm \in Messaging!Communication \cup {None}
      BY <2>2, <1>1 DEF Managing, Dropping
    <3>4. QED
      BY <3>2, <3>3 DEF Errand
  <2>5. Carries(t)
    BY <2>2, <2>4, <1>1 DEF Carries, Addressing, Delivering, Reading
  <2>6. Messaging!Asks(s, t) /\ Messaging!MessageTypeOK' /\ handed' = handed
    BY <2>1, <2>2, <2>3, <1>7 DEF Messaging!Send, MessageInv, Messaging!MessageTypeOK
  <2>7. QED
    BY <2>4, <2>5, <2>6, <1>2
<1>8. QED
  BY <1>3, <1>5, <1>6, <1>7

LEMMA MessageEdits ==
  ASSUME MessageParameters, MessageInv, NEW s \in Messaging!Slots,
         Messaging!Save(s) \/ Messaging!Attach(s) \/ Messaging!Detach(s) \/ Messaging!Finish(s) \/ Messaging!Stop(s)
  PROVE  MessageInv'
<1>1. PICK q \in Errand : q = tasks[s] /\ Carries(q)
  BY DEF MessageInv
<1>2. handed' = handed /\ asked' = asked /\ Messaging!Ends(s)
  BY DEF Messaging!Save, Messaging!Attach, Messaging!Detach, Messaging!Finish, Messaging!Stop
<1>3. Messaging!MessageTypeOK
  BY DEF MessageInv
<1>4. CASE Messaging!Save(s)
  <2>1. comm' \in Messaging!Communication
    BY <1>1, <1>4 DEF Messaging!Save, Messaging!At, Carries
  <2>2. Messaging!MessageTypeOK'
    BY <2>1, <1>3, <1>4 DEF Messaging!Save, Messaging!MessageTypeOK
  <2>3. QED
    BY <2>2, <1>2, MessageEnds
<1>5. CASE Messaging!Attach(s) \/ Messaging!Detach(s)
  <2>1. attached' \subseteq Files
    BY <1>1, <1>3, <1>5 DEF Messaging!Attach, Messaging!Detach, Messaging!At, Carries, Messaging!MessageTypeOK
  <2>2. Messaging!MessageTypeOK'
    BY <2>1, <1>3, <1>5 DEF Messaging!Attach, Messaging!Detach, Messaging!MessageTypeOK
  <2>3. QED
    BY <2>2, <1>2, MessageEnds
<1>6. CASE Messaging!Finish(s)
  <2>1. q.sending \in 0..MaxRequests
    BY DEF Errand
  <2>2. comm' \in Messaging!Communication
    BY <2>1, <1>1, <1>3, <1>6 DEF Messaging!Finish, Messaging!Communication, Messaging!MessageTypeOK
  <2>3. Messaging!MessageTypeOK'
    BY <2>2, <1>3, <1>6 DEF Messaging!Finish, Messaging!MessageTypeOK
  <2>4. QED
    BY <2>3, <1>2, MessageEnds
<1>7. CASE Messaging!Stop(s)
  <2>1. Messaging!MessageTypeOK'
    BY <1>3, <1>7 DEF Messaging!Stop, Messaging!MessageTypeOK
  <2>2. QED
    BY <2>1, <1>2, MessageEnds
<1>8. QED
  BY <1>4, <1>5, <1>6, <1>7

\* The tokens of a sending for the units of an account.
LEMMA TokensTyped ==
  ASSUME MessageParameters, NEW q, q.sending \in 1..MaxRequests, NEW u \in Users, NEW channel \in Messaging!Channels
  PROVE  /\ Messaging!Tokens(q, u, channel) \subseteq Messaging!Token
         /\ \A token \in Messaging!Tokens(q, u, channel) : token.sending = q.sending
<1>1. Messaging!UnitsOf(q.comm, u) \subseteq Units
  BY DEF Messaging!UnitsOf, MessageParameters
<1>2. QED
  BY <1>1 DEF Messaging!Tokens, Messaging!Token

LEMMA RowsMade ==
  ASSUME MessageParameters, NEW q, q.sending \in 1..MaxRequests, NEW u \in Users, NEW rec \in Messaging!Made(q, u)
  PROVE  /\ rec \in Messaging!Recipient /\ rec.sending = q.sending
         /\ rec.email = Messaging!Waiting(q.comm, u, "email") /\ rec.sms = Messaging!Waiting(q.comm, u, "sms")
<1>1. PICK token \in IF Messaging!Tokens(q, u, "email") = {} THEN {None} ELSE Messaging!Tokens(q, u, "email") :
        rec = [sending |-> q.sending, email |-> Messaging!Waiting(q.comm, u, "email"),
               sms |-> Messaging!Waiting(q.comm, u, "sms"), token |-> token, readAt |-> FALSE]
  BY DEF Messaging!Made
<1>2. token \in Messaging!Token \cup {None}
  <2>1. "email" \in Messaging!Channels
    BY DEF Messaging!Channels
  <2>2. QED
    BY <1>1, <2>1, TokensTyped
<1>3. \A channel : Messaging!Waiting(q.comm, u, channel) \in Messaging!Delivery
  BY DEF Messaging!Waiting, Messaging!Delivery
<1>4. QED
  BY <1>1, <1>2, <1>3 DEF Messaging!Recipient

LEMMA RowsAreRows ==
  ASSUME NEW c, NEW rs \in [Messaging!Addressed(c) -> Messaging!Recipient] PROVE rs \in RecipientRows
<1>1. Messaging!Addressed(c) \in SUBSET Users
  BY DEF Messaging!Addressed
<1>2. QED
  BY <1>1 DEF RecipientRows

LEMMA MessagePrepares ==
  ASSUME MessageParameters, MessageInv, NEW s \in Messaging!Slots,
         \/ Messaging!DropLinks(s) \/ Messaging!DropRecipients(s) \/ Messaging!Make(s)
         \/ Messaging!InsertRecipients(s) \/ Messaging!InsertLinks(s) \/ Messaging!NextRecipient(s)
  PROVE  MessageInv'
<1>1. PICK q \in Errand : q = tasks[s] /\ Carries(q)
  BY DEF MessageInv
<1>2. Messaging!MessageTypeOK /\ asked \in 0..MaxRequests
  BY DEF MessageInv
<1>3. handed' = handed /\ asked' = asked /\ asked' \in 0..MaxRequests
  <2>1. CASE Messaging!DropLinks(s)
    BY <2>1, <1>2 DEF Messaging!DropLinks
  <2>2. CASE Messaging!DropRecipients(s)
    BY <2>2, <1>2 DEF Messaging!DropRecipients
  <2>3. CASE Messaging!Make(s)
    BY <2>3, <1>2 DEF Messaging!Make
  <2>4. CASE Messaging!InsertRecipients(s)
    BY <2>4, <1>2 DEF Messaging!InsertRecipients
  <2>5. CASE Messaging!InsertLinks(s)
    BY <2>5, <1>2 DEF Messaging!InsertLinks
  <2>6. CASE Messaging!NextRecipient(s)
    BY <2>6, <1>2 DEF Messaging!NextRecipient
  <2>7. QED
    BY <2>1, <2>2, <2>3, <2>4, <2>5, <2>6
<1>4. ASSUME NEW p, NEW t, t = [q EXCEPT !.pc = p], p \in Dropping \cup Delivering \cup {"insert_links"}
      PROVE  t \in Errand /\ t.pc = p /\ t.comm = q.comm /\ t.sending = q.sending /\ t.made = q.made /\ t.left = q.left
             /\ t.row = q.row
  BY <1>4 DEF Errand, Managing, Addressing
<1>5. CASE Messaging!DropLinks(s)
  <2>1. PICK t : t = [q EXCEPT !.pc = "drop_recipients"]
    OBVIOUS
  <2>2. t \in Errand /\ t.pc = "drop_recipients" /\ t.comm = q.comm /\ t.sending = q.sending
    BY <2>1, <1>4 DEF Dropping
  <2>3. q.pc = "drop_links" /\ tasks' = [tasks EXCEPT ![s] = t]
    BY <2>1, <1>1, <1>5 DEF Messaging!DropLinks, Messaging!At, Messaging!To, Messaging!Goes
  <2>4. Carries(t)
    BY <2>2, <2>3, <1>1 DEF Carries, Dropping, Addressing, Delivering, Reading
  <2>5. Messaging!MessageTypeOK'
    BY <1>2, <1>5 DEF Messaging!DropLinks, Messaging!MessageTypeOK
  <2>6. QED
    BY <2>2, <2>3, <2>4, <2>5, <1>3, MessageGoes
<1>6. CASE Messaging!DropRecipients(s)
  <2>1. PICK t : t = [q EXCEPT !.pc = "make"]
    OBVIOUS
  <2>2. t \in Errand /\ t.pc = "make" /\ t.comm = q.comm /\ t.sending = q.sending
    BY <2>1, <1>4 DEF Dropping
  <2>3. q.pc = "drop_recipients" /\ tasks' = [tasks EXCEPT ![s] = t]
    BY <2>1, <1>1, <1>6 DEF Messaging!DropRecipients, Messaging!At, Messaging!To, Messaging!Goes
  <2>4. Carries(t)
    BY <2>2, <2>3, <1>1 DEF Carries, Dropping, Addressing, Delivering, Reading
  <2>5. Messaging!MessageTypeOK'
    BY <1>2, <1>6 DEF Messaging!DropRecipients, Messaging!MessageTypeOK
  <2>6. QED
    BY <2>2, <2>3, <2>4, <2>5, <1>3, MessageGoes
<1>7. CASE Messaging!Make(s)
  <2>1. q.pc = "make" /\ Messaging!MessageTypeOK'
    BY <1>1, <1>2, <1>7 DEF Messaging!Make, Messaging!At, Messaging!MessageTypeOK
  <2>2. q.comm \in Messaging!Communication /\ q.sending \in 1..MaxRequests
    BY <2>1, <1>1 DEF Carries, Dropping
  <2>3. CASE Messaging!Ends(s)
    BY <2>1, <2>3, <1>3, MessageEnds
  <2>4. CASE ~ Messaging!Ends(s)
    <3>1. PICK rs \in [Messaging!Addressed(q.comm) -> UNION {Messaging!Made(q, u) : u \in Users}] :
             /\ \A u \in DOMAIN rs : rs[u] \in Messaging!Made(q, u)
             /\ Messaging!Goes(s, [q EXCEPT !.pc = "insert_recipients", !.made = rs, !.left = DOMAIN rs])
      BY <2>4, <1>1, <1>7 DEF Messaging!Make
    <3>2. Messaging!Addressed(q.comm) \subseteq Users
      BY DEF Messaging!Addressed
    <3>3. rs \in [Messaging!Addressed(q.comm) -> Messaging!Recipient]
      BY <3>1, <3>2, <2>2, RowsMade
    <3>4. PICK t : t = [q EXCEPT !.pc = "insert_recipients", !.made = rs, !.left = DOMAIN rs]
      OBVIOUS
    <3>5. rs \in RecipientRows /\ DOMAIN rs = Messaging!Addressed(q.comm)
      BY <3>3, RowsAreRows
    <3>6. t \in Errand /\ t.pc = "insert_recipients" /\ t.made = rs /\ t.left = DOMAIN rs /\ t.comm = q.comm
          /\ t.sending = q.sending
      BY <3>2, <3>4, <3>5 DEF Errand, Managing, Addressing
    <3>7. Carries(t)
      BY <3>3, <3>5, <3>6, <2>2 DEF Carries, Dropping, Addressing, Delivering, Reading
    <3>8. tasks' = [tasks EXCEPT ![s] = t]
      BY <3>1, <3>4 DEF Messaging!Goes
    <3>9. QED
      BY <3>6, <3>7, <3>8, <2>1, <1>3, MessageGoes
  <2>5. QED
    BY <2>3, <2>4
<1>8. CASE Messaging!InsertRecipients(s)
  <2>1. q.pc = "insert_recipients"
    BY <1>1, <1>8 DEF Messaging!InsertRecipients, Messaging!At
  <2>2. q.made \in [Messaging!Addressed(q.comm) -> Messaging!Recipient]
    BY <2>1, <1>1 DEF Carries, Addressing
  <2>3. recipients' \in [Users -> Messaging!Recipient \cup {None}]
    BY <2>2, <1>1, <1>2, <1>8 DEF Messaging!InsertRecipients, Messaging!MessageTypeOK
  <2>4. Messaging!MessageTypeOK'
    BY <2>3, <1>2, <1>8 DEF Messaging!InsertRecipients, Messaging!MessageTypeOK
  <2>5. CASE Messaging!Ends(s)
    BY <2>4, <2>5, <1>3, MessageEnds
  <2>6. CASE Messaging!To(s, "insert_links")
    <3>1. PICK t : t = [q EXCEPT !.pc = "insert_links"]
      OBVIOUS
    <3>2. t \in Errand /\ t.pc = "insert_links" /\ t.comm = q.comm /\ t.sending = q.sending /\ t.made = q.made
          /\ t.left = q.left
      BY <3>1, <1>4
    <3>3. Carries(t)
      BY <3>2, <2>1, <1>1 DEF Carries, Dropping, Addressing, Delivering, Reading
    <3>4. tasks' = [tasks EXCEPT ![s] = t]
      BY <3>1, <2>6, <1>1 DEF Messaging!To, Messaging!Goes
    <3>5. QED
      BY <3>2, <3>3, <3>4, <2>4, <1>3, MessageGoes
  <2>7. QED
    BY <2>5, <2>6, <1>8 DEF Messaging!InsertRecipients
<1>9. CASE Messaging!InsertLinks(s)
  <2>1. q.pc = "insert_links"
    BY <1>1, <1>9 DEF Messaging!InsertLinks, Messaging!At
  <2>2. q.sending \in 1..MaxRequests /\ q.left \subseteq Users
    BY <2>1, <1>1 DEF Carries, Addressing, Errand
  <2>3. \A u \in q.left, channel \in Messaging!Channels : Messaging!Tokens(q, u, channel) \subseteq Messaging!Token
    BY <2>2, TokensTyped
  <2>4. links' = links \cup UNION {Messaging!Tokens(q, u, channel) : u \in q.left, channel \in Messaging!Channels}
    BY <1>1, <1>9 DEF Messaging!InsertLinks
  <2>5. links' \subseteq Messaging!Token
    BY <2>3, <2>4, <1>2 DEF Messaging!MessageTypeOK
  <2>6. Messaging!MessageTypeOK'
    BY <2>5, <1>2, <1>9 DEF Messaging!InsertLinks, Messaging!MessageTypeOK
  <2>7. PICK t : t = [q EXCEPT !.pc = "next"]
    OBVIOUS
  <2>8. t \in Errand /\ t.pc = "next" /\ t.comm = q.comm /\ t.sending = q.sending /\ t.made = q.made /\ t.left = q.left
    BY <2>7, <1>4 DEF Delivering
  <2>9. Carries(t)
    BY <2>1, <2>8, <1>1 DEF Carries, Dropping, Addressing, Delivering, Reading
  <2>10. tasks' = [tasks EXCEPT ![s] = t]
    BY <2>7, <1>1, <1>9 DEF Messaging!InsertLinks, Messaging!To, Messaging!Goes
  <2>11. QED
    BY <2>6, <2>8, <2>9, <2>10, <1>3, MessageGoes
<1>10. CASE Messaging!NextRecipient(s)
  <2>1. PICK u \in q.left : Messaging!Goes(s, [q EXCEPT !.pc = "mail", !.row = u, !.left = q.left \ {u}])
    BY <1>1, <1>10 DEF Messaging!NextRecipient
  <2>2. PICK t : t = [q EXCEPT !.pc = "mail", !.row = u, !.left = q.left \ {u}]
    OBVIOUS
  <2>3. q.pc = "next" /\ q.left \subseteq Users
    BY <1>1, <1>10 DEF Messaging!NextRecipient, Messaging!At, Errand
  <2>4. t \in Errand /\ t.pc = "mail" /\ t.comm = q.comm /\ t.sending = q.sending /\ t.made = q.made
        /\ t.left = q.left \ {u} /\ t.row = u
    BY <2>2, <2>3 DEF Errand, Managing, Addressing, Delivering
  <2>5. Carries(t)
    BY <2>3, <2>4, <1>1 DEF Carries, Dropping, Addressing, Delivering, Reading
  <2>6. tasks' = [tasks EXCEPT ![s] = t] /\ Messaging!MessageTypeOK'
    BY <2>1, <2>2, <1>2, <1>10 DEF Messaging!Goes, Messaging!NextRecipient, Messaging!MessageTypeOK
  <2>7. QED
    BY <2>4, <2>5, <2>6, <1>3, MessageGoes
<1>11. QED
  BY <1>5, <1>6, <1>7, <1>8, <1>9, <1>10

\* The outcome of a delivery is written into the row as it was made.
Noted(rec, channel, outcome, new) ==
    /\ new \in Messaging!Recipient /\ new[channel] = outcome /\ new.sending = rec.sending
    /\ \A other \in Messaging!Channels \ {channel} : new[other] = rec[other]

LEMMA OutcomeWritten ==
  ASSUME NEW rec \in Messaging!Recipient, NEW channel \in Messaging!Channels, NEW outcome \in Messaging!Delivery
  PROVE  Noted(rec, channel, outcome, [rec EXCEPT ![channel] = outcome])
<1>1. CASE channel = "email"
  BY <1>1 DEF Noted, Messaging!Recipient, Messaging!Channels
<1>2. CASE channel = "sms"
  BY <1>2 DEF Noted, Messaging!Recipient, Messaging!Channels
<1>3. QED
  BY <1>1, <1>2 DEF Messaging!Channels

\* Of the links of a message that failed some may have gone out.
SomeArrived(q, u, channel) ==
    handed \subseteq handed' /\ handed' \subseteq handed \cup Messaging!Tokens(q, u, channel)

\* What a delivery does to the rows in memory.
Delivered(q, t, channel, then) ==
    /\ t.pc = then /\ t.comm = q.comm /\ t.sending = q.sending /\ t.left = q.left /\ t.row = q.row
    /\ t.made \in [Messaging!Addressed(q.comm) -> Messaging!Recipient]
    /\ \A u \in Messaging!Addressed(q.comm) \ {q.row} : t.made[u] = q.made[u]
    /\ t.made[q.row].sending = q.made[q.row].sending
    /\ \A other \in Messaging!Channels \ {channel} : t.made[q.row][other] = q.made[q.row][other]
    /\ \/ q.made[q.row][channel] # "pending" /\ t.made[q.row][channel] = q.made[q.row][channel] /\ handed' = handed
       \/ q.made[q.row][channel] = "pending" /\ t.made[q.row][channel] = "failed"
          /\ SomeArrived(q, q.row, channel)
       \/ /\ q.made[q.row][channel] = "pending" /\ t.made[q.row][channel] = "sent"
          /\ handed' = handed \cup Messaging!Tokens(q, q.row, channel)

LEMMA Deliveries ==
  ASSUME MessageParameters, MessageInv, NEW s \in Messaging!Slots, NEW q \in Errand, q = tasks[s],
         q.pc \in {"mail", "text"}, NEW channel \in Messaging!Channels,
         NEW then \in Delivering, Messaging!Deliver(s, channel, then)
  PROVE  \E t \in Errand : Delivered(q, t, channel, then) /\ tasks' = [tasks EXCEPT ![s] = t]
<1>1. PICK u : u = q.row
  OBVIOUS
<1>2. /\ q.made \in [Messaging!Addressed(q.comm) -> Messaging!Recipient] /\ u \in Messaging!Addressed(q.comm)
      /\ q.made[u] \in Messaging!Recipient
  BY <1>1 DEF MessageInv, Carries, Addressing, Delivering
<1>3. ASSUME NEW outcome \in {"sent", "failed"}, q.made[u][channel] = "pending",
             Messaging!Goes(s, [q EXCEPT !.pc = then, !.made[u][channel] = outcome]),
             \/ outcome = "failed" /\ SomeArrived(q, u, channel)
             \/ outcome = "sent" /\ handed' = handed \cup Messaging!Tokens(q, u, channel)
      PROVE  \E t \in Errand : Delivered(q, t, channel, then) /\ tasks' = [tasks EXCEPT ![s] = t]
  <2>1. PICK new : new = [q.made[u] EXCEPT ![channel] = outcome]
    OBVIOUS
  <2>2. /\ new \in Messaging!Recipient /\ new[channel] = outcome /\ new.sending = q.made[u].sending
        /\ \A other \in Messaging!Channels \ {channel} : new[other] = q.made[u][other]
    <3>1. PICK rec \in Messaging!Recipient : rec = q.made[u]
      BY <1>2
    <3>2. outcome \in Messaging!Delivery
      BY DEF Messaging!Delivery
    <3>3. Noted(rec, channel, outcome, [rec EXCEPT ![channel] = outcome])
      BY <3>2, OutcomeWritten
    <3>4. new = [rec EXCEPT ![channel] = outcome]
      BY <3>1, <2>1
    <3>5. Noted(rec, channel, outcome, new)
      BY <3>3, <3>4
    <3>6. QED
      BY <3>1, <3>5 DEF Noted
  <2>3. PICK rs : rs = [q.made EXCEPT ![u] = new]
    OBVIOUS
  <2>4. rs \in [Messaging!Addressed(q.comm) -> Messaging!Recipient] /\ rs[u] = new
        /\ \A v \in Messaging!Addressed(q.comm) \ {u} : rs[v] = q.made[v]
    BY <2>2, <2>3, <1>2
  <2>5. rs \in RecipientRows
    BY <2>4, RowsAreRows
  <2>6. PICK t : t = [q EXCEPT !.pc = then, !.made = rs]
    OBVIOUS
  <2>7. t \in Errand /\ t.pc = then /\ t.made = rs /\ t.comm = q.comm /\ t.sending = q.sending /\ t.left = q.left
        /\ t.row = q.row
    BY <2>5, <2>6 DEF Errand, Managing, Addressing
  <2>8. t = [q EXCEPT !.pc = then, !.made[u][channel] = outcome]
    BY <2>1, <2>3, <2>6
  <2>9. tasks' = [tasks EXCEPT ![s] = t]
    BY <2>8, <1>3 DEF Messaging!Goes
  <2>10. Delivered(q, t, channel, then)
    BY <2>2, <2>4, <2>7, <1>1, <1>3 DEF Delivered, SomeArrived
  <2>11. QED
    BY <2>7, <2>9, <2>10
<1>4. CASE q.made[u][channel] # "pending" /\ handed' = handed /\ Messaging!To(s, then)
  <2>1. PICK t : t = [q EXCEPT !.pc = then]
    OBVIOUS
  <2>2. t \in Errand /\ t.pc = then /\ t.made = q.made /\ t.comm = q.comm /\ t.sending = q.sending /\ t.left = q.left
        /\ t.row = q.row
    BY <2>1 DEF Errand, Managing, Addressing
  <2>3. tasks' = [tasks EXCEPT ![s] = t]
    BY <2>1, <1>4 DEF Messaging!To, Messaging!Goes
  <2>4. Delivered(q, t, channel, then)
    BY <2>2, <1>1, <1>2, <1>4 DEF Delivered, SomeArrived
  <2>5. QED
    BY <2>2, <2>3, <2>4
<1>5. ASSUME NEW some \in Messaging!Arrived(Messaging!Tokens(q, u, channel), channel), handed' = handed \cup some
      PROVE  SomeArrived(q, u, channel)
  BY <1>5 DEF SomeArrived, Messaging!Arrived
<1>6. QED
  BY <1>1, <1>3, <1>4, <1>5 DEF Messaging!Deliver

LEMMA MessageDelivers ==
  ASSUME MessageParameters, MessageInv, NEW s \in Messaging!Slots,
         Messaging!Mail(s) \/ Messaging!Text(s) \/ Messaging!SaveRecipient(s)
  PROVE  MessageInv'
<1>1. PICK q \in Errand : q = tasks[s] /\ Carries(q)
  BY DEF MessageInv
<1>2. Messaging!MessageTypeOK /\ asked \in 0..MaxRequests
  BY DEF MessageInv
<1>3. q.pc \in {"mail", "text", "save_recipient"}
  BY <1>1 DEF Messaging!Mail, Messaging!Text, Messaging!SaveRecipient, Messaging!At
<1>4. /\ q.comm \in Messaging!Communication /\ q.sending \in 1..MaxRequests
      /\ q.made \in [Messaging!Addressed(q.comm) -> Messaging!Recipient] /\ q.left \subseteq Messaging!Addressed(q.comm)
      /\ q.row \in Messaging!Addressed(q.comm) /\ q.row \in Users
  BY <1>1, <1>3 DEF Carries, Addressing, Delivering, Messaging!Addressed
<1>5. ASSUME NEW channel \in Messaging!Channels, NEW then \in {"text", "save_recipient"},
             q.pc \in {"mail", "text"}, Messaging!Deliver(s, channel, then),
             UNCHANGED <<comm, recipients, links, log, attached, stored, asked, read, stops>>
      PROVE  MessageInv'
  <2>1. then \in Delivering
    BY DEF Delivering
  <2>2. PICK t \in Errand : Delivered(q, t, channel, then) /\ tasks' = [tasks EXCEPT ![s] = t]
    BY <2>1, <1>1, <1>5, Deliveries
  <2>3. Messaging!Tokens(q, q.row, channel) \subseteq Messaging!Token
    BY <1>4, TokensTyped
  <2>4. handed \subseteq handed' /\ handed' \subseteq Messaging!Token
    BY <2>2, <2>3, <1>2 DEF Delivered, Messaging!MessageTypeOK, SomeArrived
  <2>5. Messaging!MessageTypeOK'
    BY <2>4, <1>2, <1>5 DEF Messaging!MessageTypeOK
  <2>6. Carries(t)'
    BY <2>2, <1>4 DEF Delivered, Carries, Dropping, Addressing, Delivering, Reading, SomeArrived
  <2>7. asked' \in 0..MaxRequests
    BY <1>2, <1>5
  <2>8. QED
    BY <2>2, <2>4, <2>5, <2>6, <2>7, MessageMoves
<1>6. CASE Messaging!Mail(s)
  <2>1. q.pc = "mail" /\ "email" \in Messaging!Channels
    BY <1>1, <1>6 DEF Messaging!Mail, Messaging!At, Messaging!Channels
  <2>2. QED
    BY <2>1, <1>5, <1>6 DEF Messaging!Mail
<1>7. CASE Messaging!Text(s)
  <2>1. q.pc = "text" /\ "sms" \in Messaging!Channels
    BY <1>1, <1>7 DEF Messaging!Text, Messaging!At, Messaging!Channels
  <2>2. QED
    BY <2>1, <1>5, <1>7 DEF Messaging!Text
<1>8. CASE Messaging!SaveRecipient(s)
  <2>1. /\ Messaging!Put(s, q.row, q.made[q.row], [q EXCEPT !.pc = "next"])
        /\ UNCHANGED <<comm, links, handed, log, attached, stored, asked, read, stops>>
    BY <1>1, <1>8 DEF Messaging!SaveRecipient
  <2>2. recipients' \in [Users -> Messaging!Recipient \cup {None}]
    BY <2>1, <1>2, <1>4 DEF Messaging!Put, Messaging!MessageTypeOK
  <2>3. Messaging!MessageTypeOK'
    BY <2>1, <2>2, <1>2 DEF Messaging!MessageTypeOK
  <2>4. CASE Messaging!Ends(s)
    BY <2>1, <2>3, <2>4, MessageEnds
  <2>5. CASE Messaging!Goes(s, [q EXCEPT !.pc = "next"])
    <3>1. PICK t : t = [q EXCEPT !.pc = "next"]
      OBVIOUS
    <3>2. t \in Errand /\ t.pc = "next" /\ t.comm = q.comm /\ t.sending = q.sending /\ t.made = q.made
          /\ t.left = q.left
      BY <3>1 DEF Errand, Managing, Addressing, Delivering
    <3>3. Carries(t)
      BY <3>2, <1>4 DEF Carries, Dropping, Addressing, Delivering, Reading
    <3>4. tasks' = [tasks EXCEPT ![s] = t] /\ asked' \in 0..MaxRequests
      BY <3>1, <2>1, <2>5, <1>2 DEF Messaging!Goes
    <3>5. QED
      BY <3>2, <3>3, <3>4, <2>1, <2>3, MessageGoes
  <2>6. QED
    BY <2>1, <2>4, <2>5 DEF Messaging!Put
<1>9. QED
  BY <1>6, <1>7, <1>8

LEMMA MessageReads ==
  ASSUME MessageParameters, MessageInv, NEW s \in Messaging!Slots,
         \/ \E token \in handed : Messaging!OpenLink(s, token)
         \/ \E u \in Users : Messaging!MarkReadApp(s, u)
         \/ Messaging!LogReading(s) \/ Messaging!FindRecipient(s) \/ Messaging!TouchRecipient(s)
  PROVE  MessageInv'
<1>1. PICK q \in Errand : q = tasks[s] /\ Carries(q)
  BY DEF MessageInv
<1>2. Messaging!MessageTypeOK /\ asked \in 0..MaxRequests
  BY DEF MessageInv
<1>3. ASSUME NEW t \in Errand, t.pc = "log", t.reader \in Users, t.token \in handed \cup {None} PROVE Carries(t)
  BY <1>3 DEF Carries, Dropping, Addressing, Delivering, Editing
<1>4. ASSUME NEW token \in handed, Messaging!OpenLink(s, token) PROVE MessageInv'
  <2>1. Messaging!MessageTypeOK' /\ handed' = handed /\ asked' \in 0..MaxRequests
    BY <1>2, <1>4 DEF Messaging!OpenLink, Messaging!MessageTypeOK
  <2>2. token.user \in Users
    BY <1>2 DEF Messaging!MessageTypeOK, Messaging!Token
  <2>3. CASE Messaging!Opens(token)
    <3>1. PICK t : t = [Messaging!Blank EXCEPT !.pc = "log", !.reader = token.user, !.token = token]
      OBVIOUS
    <3>2. token \in Messaging!Token
      BY <1>2 DEF Messaging!MessageTypeOK
    <3>3. t \in Errand /\ t.pc = "log" /\ t.reader = token.user /\ t.token = token
      BY <3>1, <3>2, <2>2, MessageBlank DEF Errand, Reading
    <3>4. Carries(t)
      BY <3>3, <2>2, <1>3
    <3>5. tasks' = [tasks EXCEPT ![s] = t]
      BY <3>1, <2>3, <1>4 DEF Messaging!OpenLink, Messaging!Goes
    <3>6. QED
      BY <3>3, <3>4, <3>5, <2>1, MessageGoes
  <2>4. CASE ~ Messaging!Opens(token)
    <3>1. tasks' = tasks
      BY <2>4, <1>4 DEF Messaging!OpenLink
    <3>2. \A v \in Messaging!Slots : Carries(tasks[v])'
      BY <3>1, <2>1 DEF MessageInv, Carries
    <3>3. QED
      BY <3>1, <3>2, <2>1 DEF MessageInv
  <2>5. QED
    BY <2>3, <2>4
<1>5. ASSUME NEW u \in Users, Messaging!MarkReadApp(s, u) PROVE MessageInv'
  <2>1. Messaging!MessageTypeOK' /\ handed' = handed /\ asked' \in 0..MaxRequests
    BY <1>2, <1>5 DEF Messaging!MarkReadApp, Messaging!MessageTypeOK
  <2>2. PICK t : t = [Messaging!Blank EXCEPT !.pc = "log", !.reader = u]
    OBVIOUS
  <2>3. t \in Errand /\ t.pc = "log" /\ t.reader = u /\ t.token = None
    <3>1. Messaging!Blank.token = None
      BY DEF Messaging!Blank
    <3>2. QED
      BY <3>1, <2>2, MessageBlank DEF Errand, Reading
  <2>4. Carries(t)
    BY <2>3, <1>3
  <2>5. tasks' = [tasks EXCEPT ![s] = t]
    BY <2>2, <1>5 DEF Messaging!MarkReadApp, Messaging!Goes
  <2>6. QED
    BY <2>1, <2>3, <2>4, <2>5, MessageGoes
<1>6. CASE Messaging!LogReading(s)
  <2>1. q.pc = "log" /\ q.reader \in Users /\ q.token \in handed \cup {None}
    BY <1>1, <1>6 DEF Messaging!LogReading, Messaging!At, Carries, Reading
  <2>2. log' = log \cup {<<q.reader, q.token>>} /\ tasks' = [tasks EXCEPT ![s] = [q EXCEPT !.pc = "find_recipient"]]
    BY <1>1, <1>6 DEF Messaging!LogReading, Messaging!To, Messaging!Goes
  <2>3. Messaging!MessageTypeOK' /\ handed' = handed /\ asked' \in 0..MaxRequests
    BY <2>1, <2>2, <1>2, <1>6 DEF Messaging!LogReading, Messaging!MessageTypeOK
  <2>4. PICK t : t = [q EXCEPT !.pc = "find_recipient"]
    OBVIOUS
  <2>5. t \in Errand /\ t.pc = "find_recipient" /\ t.reader = q.reader
    BY <2>4 DEF Errand, Reading
  <2>6. Carries(t)
    BY <2>1, <2>5 DEF Carries, Dropping, Addressing, Delivering
  <2>7. QED
    BY <2>2, <2>3, <2>4, <2>5, <2>6, MessageGoes
<1>7. CASE Messaging!FindRecipient(s)
  <2>1. q.pc = "find_recipient" /\ q.reader \in Users
    BY <1>1, <1>7 DEF Messaging!FindRecipient, Messaging!At, Carries, Reading
  <2>2. Messaging!MessageTypeOK' /\ handed' = handed /\ asked' = asked
    BY <1>2, <1>7 DEF Messaging!FindRecipient, Messaging!MessageTypeOK
  <2>3. CASE recipients[q.reader] = None
    <3>1. Messaging!Ends(s)
      BY <2>3, <1>1, <1>7 DEF Messaging!FindRecipient
    <3>2. QED
      BY <3>1, <2>2, MessageEnds
  <2>4. CASE recipients[q.reader] # None
    <3>1. PICK rec \in Messaging!Recipient : rec = recipients[q.reader]
      BY <2>1, <2>4, <1>2 DEF Messaging!MessageTypeOK
    <3>2. PICK new : new = [rec EXCEPT !.readAt = TRUE]
      OBVIOUS
    <3>3. new \in Messaging!Recipient
      BY <3>2 DEF Messaging!Recipient
    <3>4. PICK t : t = [q EXCEPT !.pc = "touch", !.row = new]
      OBVIOUS
    <3>5. t \in Errand /\ t.pc = "touch" /\ t.row = new /\ t.reader = q.reader
      BY <3>3, <3>4 DEF Errand, Reading
    <3>6. Carries(t)
      BY <3>3, <3>5, <2>1 DEF Carries, Dropping, Addressing, Delivering
    <3>7. tasks' = [tasks EXCEPT ![s] = t]
      BY <3>1, <3>2, <3>4, <2>4, <1>1, <1>7 DEF Messaging!FindRecipient, Messaging!Goes
    <3>8. QED
      BY <3>5, <3>6, <3>7, <2>2, <1>2, MessageGoes
  <2>5. QED
    BY <2>3, <2>4
<1>8. CASE Messaging!TouchRecipient(s)
  <2>1. q.reader \in Users /\ q.row \in Messaging!Recipient
    BY <1>1, <1>8 DEF Messaging!TouchRecipient, Messaging!At, Carries, Reading
  <2>2. Messaging!Put(s, q.reader, q.row, Messaging!Blank)
    BY <1>1, <1>8 DEF Messaging!TouchRecipient
  <2>3. recipients' \in [Users -> Messaging!Recipient \cup {None}]
    BY <2>1, <2>2, <1>2 DEF Messaging!Put, Messaging!MessageTypeOK
  <2>4. Messaging!MessageTypeOK' /\ handed' = handed /\ asked' = asked
    BY <2>3, <1>2, <1>8 DEF Messaging!TouchRecipient, Messaging!MessageTypeOK
  <2>5. Messaging!Ends(s)
    BY <2>2 DEF Messaging!Put, Messaging!Ends
  <2>6. QED
    BY <2>4, <2>5, MessageEnds
<1>9. QED
  BY <1>4, <1>5, <1>6, <1>7, <1>8

LEMMA NextMessages ==
  ASSUME MessageParameters, MessageInv, [Messaging!Next]_Messaging!messageVars PROVE MessageInv'
<1>1. CASE UNCHANGED Messaging!messageVars
  <2>1. Messaging!MessageTypeOK'
    BY <1>1 DEF Messaging!messageVars, MessageInv, Messaging!MessageTypeOK
  <2>2. \A s \in Messaging!Slots : Carries(tasks[s])'
    BY <1>1 DEF Messaging!messageVars, MessageInv, Carries
  <2>3. QED
    BY <2>1, <2>2, <1>1 DEF Messaging!messageVars, MessageInv
<1>2. ASSUME NEW s \in Messaging!Slots, Messaging!Requests(s) PROVE MessageInv'
  <2>1. CASE \/ \E new \in Settings : Messaging!Update(s, new)
             \/ \E f \in Files : Messaging!AddAttachment(s, f) \/ Messaging!RemoveAttachment(s, f)
             \/ Messaging!Send(s)
    BY <2>1, MessageAsks
  <2>2. CASE (\E token \in handed : Messaging!OpenLink(s, token)) \/ (\E u \in Users : Messaging!MarkReadApp(s, u))
    BY <2>2, MessageReads
  <2>3. QED
    BY <2>1, <2>2, <1>2 DEF Messaging!Requests
<1>3. ASSUME NEW s \in Messaging!Slots, Messaging!Steps(s) PROVE MessageInv'
  <2>1. CASE Messaging!Save(s) \/ Messaging!Attach(s) \/ Messaging!Detach(s) \/ Messaging!Finish(s)
    BY <2>1, MessageEdits
  <2>2. CASE \/ Messaging!DropLinks(s) \/ Messaging!DropRecipients(s) \/ Messaging!Make(s)
             \/ Messaging!InsertRecipients(s) \/ Messaging!InsertLinks(s) \/ Messaging!NextRecipient(s)
    BY <2>2, MessagePrepares
  <2>3. CASE Messaging!Mail(s) \/ Messaging!Text(s) \/ Messaging!SaveRecipient(s)
    BY <2>3, MessageDelivers
  <2>4. CASE Messaging!LogReading(s) \/ Messaging!FindRecipient(s) \/ Messaging!TouchRecipient(s)
    BY <2>4, MessageReads
  <2>5. QED
    BY <2>1, <2>2, <2>3, <2>4, <1>3 DEF Messaging!Steps
<1>4. ASSUME NEW s \in Messaging!Slots, Messaging!Stop(s) PROVE MessageInv'
  BY <1>4, MessageEdits
<1>5. QED
  BY <1>1, <1>2, <1>3, <1>4 DEF Messaging!Next

LEMMA MessageInvariant == ASSUME MessageParameters PROVE Messaging!Spec => []MessageInv
<1>1. Messaging!Init => MessageInv
  BY InitMessages
<1>2. MessageInv /\ [Messaging!Next]_Messaging!messageVars => MessageInv'
  BY NextMessages
<1>3. QED
  BY <1>1, <1>2, PTL DEF Messaging!Spec

\* MessageTypeOK: rows have their types, and a reading is logged of a link that was delivered,
\* or of none, however requests of the management and of readers overlap and are cut short.
THEOREM MessagesTyped == ASSUME MessageParameters PROVE Messaging!Spec => []Messaging!MessageTypeOK
<1>1. MessageInv => Messaging!MessageTypeOK
  BY DEF MessageInv
<1>2. QED
  BY <1>1, MessageInvariant, PTL

(***************************************************************************)
(* Communications, with one request of the management at a time.           *)
(***************************************************************************)

\* Readers may overlap with the request of the management, and with each other.
OneManager == \A r, s \in Managers : r = s

\* The links of an account open.
Opening(q, u) == \A channel \in Messaging!Channels : Messaging!Tokens(q, u, channel) \subseteq links

Tried(q, u, channel) == q.made[u][channel] # "pending"

\* A sending goes on with the communication it loaded.  Its own links are not handed over
\* before they are stored, and links are dropped only while nothing counts as sent.
Linking(q) ==
    /\ q.pc \in Dropping \cup Addressing => q.comm = comm /\ q.sending = asked
    /\ q.pc = "save" => q.comm.status = comm.status /\ q.comm.since = comm.since
    /\ q.pc = "drop_links" => comm.status = "draft"
    /\ q.pc \in Dropping \cup {"insert_recipients", "insert_links"} =>
          \A token \in handed : token.sending < q.sending
    /\ q.pc \in {"insert_recipients", "insert_links"} => q.left = Messaging!Addressed(q.comm)
    /\ q.pc \in Delivering =>
          /\ \A u \in Messaging!Addressed(q.comm) : Opening(q, u)
          /\ \A token \in handed : token.sending = q.sending => token \in links

\* The rows in memory are of this sending and skip the channels that do not reach; what counts
\* as sent was handed over.
RowsOf(q) ==
    q.pc \in Addressing =>
        \A u \in Messaging!Addressed(q.comm) :
            /\ q.made[u].sending = q.sending
            /\ \A channel \in Messaging!Channels :
                  /\ q.made[u][channel] # "skipped" => Messaging!Reaches(q.comm, u, channel)
                  /\ q.made[u][channel] = "sent" => Messaging!Tokens(q, u, channel) \subseteq handed

\* The rows stored by the sending of a draft, which nobody reads yet: those of the recipients
\* that were dealt with have the outcome.
Outgoing(q) ==
    comm.status = "draft" =>
        /\ q.pc \in {"make", "insert_recipients"} => \A u \in Users : recipients[u] = None
        /\ q.pc \in Delivering \cup {"insert_links"} =>
              /\ \A u \in Users \ Messaging!Addressed(q.comm) : recipients[u] = None
              /\ \A u \in Messaging!Addressed(q.comm) : recipients[u] # None /\ recipients[u].sending = q.sending
        /\ q.pc \in Delivering =>
              \A u \in Messaging!Addressed(q.comm) \ q.left : q.pc = "next" \/ u # q.row =>
                  recipients[u] = q.made[u] /\ \A channel \in Messaging!Channels : Tried(q, u, channel)
        /\ q.pc \in {"text", "save_recipient"} => Tried(q, q.row, "email")
        /\ q.pc = "save_recipient" => Tried(q, q.row, "sms")

Sending(q) == Linking(q) /\ RowsOf(q) /\ Outgoing(q)

SendingInv ==
    /\ Messaging!LinksLast
    /\ \A token \in handed : token.sending <= asked
    /\ \A s \in Messaging!Slots :
          /\ tasks[s].pc \in Managing => s \in Managers
          /\ comm.status = "draft" => tasks[s].pc \notin Reading
          /\ Sending(tasks[s])

LEMMA SendingIdle == ASSUME NEW q, q.pc \notin Managing PROVE Sending(q) /\ Sending(q)'
<1>1. /\ q.pc \notin Dropping \cup Addressing /\ q.pc \notin Delivering /\ q.pc \notin Dropping /\ q.pc \notin Addressing
      /\ q.pc \notin {"save", "drop_links", "make", "insert_recipients", "insert_links", "text", "save_recipient"}
  BY DEF Managing, Dropping, Addressing, Delivering, Editing
<1>2. Linking(q) /\ Linking(q)'
  BY <1>1 DEF Linking
<1>3. RowsOf(q) /\ RowsOf(q)'
  BY <1>1 DEF RowsOf
<1>4. Outgoing(q) /\ Outgoing(q)'
  BY <1>1 DEF Outgoing
<1>5. QED
  BY <1>2, <1>3, <1>4 DEF Sending

LEMMA InitSending == ASSUME MessageParameters, Messaging!Init PROVE SendingInv
<1>1. comm.status = "draft" /\ handed = {} /\ \A s \in Messaging!Slots : tasks[s] = Messaging!Blank
  BY DEF Messaging!Init
<1>2. Messaging!Blank.pc \notin Managing /\ Messaging!Blank.pc \notin Reading
  BY MessageBlank DEF Managing, Dropping, Addressing, Delivering, Editing, Reading
<1>3. Sending(Messaging!Blank)
  BY <1>2, SendingIdle
<1>4. QED
  BY <1>1, <1>2, <1>3 DEF SendingInv, Messaging!LinksLast

\* A step of the request of the management.
LEMMA ManagerMoves ==
  ASSUME OneManager, MessageInv, SendingInv, NEW s \in Messaging!Slots, s \in Managers,
         NEW t, tasks' = [tasks EXCEPT ![s] = t], t.pc \notin Reading, Sending(t)',
         Messaging!LinksLast', \A token \in handed' : token.sending <= asked',
         comm'.status = "draft" => comm.status = "draft"
  PROVE  SendingInv'
<1>1. tasks'[s] = t /\ \A v \in Messaging!Slots \ {s} : tasks'[v] = tasks[v]
  BY DEF MessageInv
<1>2. ASSUME NEW v \in Messaging!Slots
      PROVE  /\ tasks'[v].pc \in Managing => v \in Managers
             /\ comm'.status = "draft" => tasks'[v].pc \notin Reading
             /\ Sending(tasks[v])'
  <2>1. CASE v = s
    <3>1. tasks'[v] = t
      BY <2>1, <1>1
    <3>2. QED
      BY <3>1, <2>1 DEF Sending, Linking, RowsOf, Outgoing, Opening, Tried
  <2>2. CASE v # s
    <3>1. PICK q : q = tasks[v]
      OBVIOUS
    <3>2. tasks'[v] = q /\ q.pc \notin Managing
      BY <3>1, <2>2, <1>1 DEF SendingInv, OneManager
    <3>3. Sending(q)'
      BY <3>2, SendingIdle
    <3>4. comm.status = "draft" => q.pc \notin Reading
      BY <3>1 DEF SendingInv
    <3>5. QED
      BY <3>2, <3>3, <3>4 DEF Sending, Linking, RowsOf, Outgoing, Opening, Tried
  <2>3. QED
    BY <2>1, <2>2
<1>3. QED
  BY <1>2 DEF SendingInv

LEMMA ManagerEnds ==
  ASSUME MessageParameters, OneManager, MessageInv, SendingInv, NEW s \in Messaging!Slots, s \in Managers,
         Messaging!Ends(s), Messaging!LinksLast', \A token \in handed' : token.sending <= asked',
         comm'.status = "draft" => comm.status = "draft"
  PROVE  SendingInv'
<1>1. PICK t : t = Messaging!Blank
  OBVIOUS
<1>2. t.pc \notin Managing /\ t.pc \notin Reading
  BY <1>1, MessageBlank DEF Managing, Dropping, Addressing, Delivering, Editing, Reading
<1>3. Sending(t)' /\ tasks' = [tasks EXCEPT ![s] = t]
  BY <1>1, <1>2, SendingIdle DEF Messaging!Ends, Messaging!Goes
<1>4. QED
  BY <1>2, <1>3, ManagerMoves

\* A step of a reader.
LEMMA ReaderMoves ==
  ASSUME MessageInv, SendingInv, NEW s \in Messaging!Slots, tasks[s].pc \notin Managing,
         NEW t, tasks' = [tasks EXCEPT ![s] = t], t.pc \notin Managing, comm.status = "draft" => t.pc \notin Reading,
         UNCHANGED <<comm, links, handed, asked>>, comm.status = "draft" => recipients' = recipients
  PROVE  SendingInv'
<1>1. tasks'[s] = t /\ \A v \in Messaging!Slots \ {s} : tasks'[v] = tasks[v]
  BY DEF MessageInv
<1>2. ASSUME NEW v \in Messaging!Slots
      PROVE  /\ tasks'[v].pc \in Managing => v \in Managers
             /\ comm'.status = "draft" => tasks'[v].pc \notin Reading
             /\ Sending(tasks[v])'
  <2>1. CASE v = s
    <3>1. Sending(t)' /\ tasks'[v] = t
      BY <2>1, <1>1, SendingIdle
    <3>2. QED
      BY <3>1, <2>1 DEF Sending, Linking, RowsOf, Outgoing, Opening, Tried
  <2>2. CASE v # s
    <3>1. PICK q : q = tasks[v]
      OBVIOUS
    <3>2. tasks'[v] = q /\ Sending(q)
      BY <3>1, <2>2, <1>1 DEF SendingInv
    <3>3. Linking(q)' /\ RowsOf(q)'
      BY <3>2 DEF Sending, Linking, RowsOf, Opening
    <3>4. Outgoing(q)'
      BY <3>2 DEF Sending, Outgoing, Tried
    <3>5. Sending(tasks[v])'
      BY <3>2, <3>3, <3>4 DEF Sending, Linking, RowsOf, Outgoing, Opening, Tried
    <3>6. QED
      BY <3>1, <3>2, <3>5 DEF SendingInv
  <2>3. QED
    BY <2>1, <2>2
<1>3. Messaging!LinksLast' /\ \A token \in handed' : token.sending <= asked'
  BY DEF SendingInv, Messaging!LinksLast
<1>4. QED
  BY <1>2, <1>3 DEF SendingInv

\* The tokens handed over so far are typed, so their sendings can be compared.
LEMMA HandedBefore ==
  ASSUME MessageInv, SendingInv
  PROVE  asked \in Nat /\ \A token \in handed : token.sending \in Nat /\ token.sending <= asked /\ token.sending < asked + 1
<1>1. asked \in Nat /\ \A token \in handed : token.sending \in Nat
  BY DEF MessageInv, Messaging!MessageTypeOK, Messaging!Token
<1>2. QED
  BY <1>1 DEF SendingInv

LEMMA SendingAsks ==
  ASSUME MessageParameters, OneManager, MessageInv, SendingInv, NEW s \in Messaging!Slots,
         \/ \E new \in Settings : Messaging!Update(s, new)
         \/ \E f \in Files : Messaging!AddAttachment(s, f) \/ Messaging!RemoveAttachment(s, f)
         \/ Messaging!Send(s)
  PROVE  SendingInv'
<1>1. /\ UNCHANGED <<comm, recipients, links, handed>>
  BY DEF Messaging!Update, Messaging!AddAttachment, Messaging!RemoveAttachment, Messaging!Send
<1>2. Messaging!LinksLast'
  BY <1>1 DEF SendingInv, Messaging!LinksLast
<1>3. ASSUME NEW t, Messaging!Asks(s, t), t.pc \notin Reading, Sending(t)' PROVE SendingInv'
  <2>1. s \in Managers /\ tasks' = [tasks EXCEPT ![s] = t] /\ asked' = asked + 1
    BY <1>3 DEF Messaging!Asks, Messaging!Goes
  <2>2. \A token \in handed' : token.sending <= asked'
    BY <2>1, <1>1, HandedBefore
  <2>3. comm'.status = "draft" => comm.status = "draft"
    BY <1>1
  <2>4. QED
    BY <2>1, <2>2, <2>3, <1>2, <1>3, ManagerMoves
<1>4. ASSUME NEW new \in Settings, Messaging!Update(s, new) PROVE SendingInv'
  <2>1. PICK c : c = [comm EXCEPT !.units = new.units, !.channels = new.channels]
    OBVIOUS
  <2>2. c.status = comm'.status /\ c.since = comm'.since
    BY <2>1, <1>1 DEF MessageInv, Messaging!MessageTypeOK, Messaging!Communication
  <2>3. PICK t : t = [Messaging!Blank EXCEPT !.pc = "save", !.comm = c]
    OBVIOUS
  <2>4. t.pc = "save" /\ t.comm = c
    BY <2>3 DEF Messaging!Blank
  <2>5. Sending(t)'
    BY <2>2, <2>4 DEF Sending, Linking, RowsOf, Outgoing, Dropping, Addressing, Delivering
  <2>6. Messaging!Asks(s, t) /\ t.pc \notin Reading
    BY <2>1, <2>3, <2>4, <1>4 DEF Messaging!Update, Reading
  <2>7. QED
    BY <2>5, <2>6, <1>3
<1>5. ASSUME NEW f \in Files, Messaging!AddAttachment(s, f) \/ Messaging!RemoveAttachment(s, f) PROVE SendingInv'
  <2>1. PICK p \in {"attach", "detach"} : Messaging!Asks(s, [Messaging!Blank EXCEPT !.pc = p, !.row = f])
    BY <1>5 DEF Messaging!AddAttachment, Messaging!RemoveAttachment
  <2>2. PICK t : t = [Messaging!Blank EXCEPT !.pc = p, !.row = f]
    OBVIOUS
  <2>3. t.pc \in {"attach", "detach"}
    BY <2>2 DEF Messaging!Blank
  <2>4. Sending(t)'
    BY <2>3 DEF Sending, Linking, RowsOf, Outgoing, Dropping, Addressing, Delivering
  <2>5. QED
    BY <2>1, <2>2, <2>3, <2>4, <1>3 DEF Reading
<1>6. CASE Messaging!Send(s)
  <2>1. PICK p : p = Messaging!FirstStep(comm) /\ p \in {"drop_links", "drop_recipients"}
                 /\ (p = "drop_links" => comm.status = "draft")
    BY DEF Messaging!FirstStep, MessageInv, Messaging!MessageTypeOK, Messaging!Communication
  <2>2. PICK t : t = [Messaging!Blank EXCEPT !.pc = p, !.comm = comm, !.sending = asked + 1]
    OBVIOUS
  <2>3. t.pc = p /\ t.comm = comm /\ t.sending = asked + 1
    BY <2>2 DEF Messaging!Blank
  <2>4. Messaging!Asks(s, t) /\ asked' = asked + 1
    BY <2>1, <2>2, <1>6 DEF Messaging!Send, Messaging!Asks
  <2>5. Linking(t)'
    BY <2>1, <2>3, <2>4, <1>1, HandedBefore DEF Linking, Delivering
  <2>6. RowsOf(t)' /\ Outgoing(t)'
    BY <2>1, <2>3 DEF RowsOf, Outgoing, Addressing, Delivering
  <2>7. QED
    BY <2>1, <2>3, <2>4, <2>5, <2>6, <1>3 DEF Sending, Reading
<1>7. QED
  BY <1>4, <1>5, <1>6

LEMMA SendingEdits ==
  ASSUME MessageParameters, OneManager, MessageInv, SendingInv, NEW s \in Messaging!Slots,
         Messaging!Save(s) \/ Messaging!Attach(s) \/ Messaging!Detach(s) \/ Messaging!Finish(s)
  PROVE  SendingInv'
<1>1. PICK q \in Errand : q = tasks[s] /\ Sending(q)
  BY DEF MessageInv, SendingInv
<1>2. /\ q.pc \in {"save", "attach", "detach", "next"} /\ Messaging!Ends(s)
      /\ UNCHANGED <<links, handed, asked>>
  BY <1>1 DEF Messaging!Save, Messaging!Attach, Messaging!Detach, Messaging!Finish, Messaging!At
<1>3. s \in Managers
  BY <1>1, <1>2 DEF SendingInv, Managing, Editing, Addressing, Delivering
<1>4. \A token \in handed' : token.sending <= asked'
  BY <1>2 DEF SendingInv
<1>5. CASE Messaging!Save(s)
  <2>1. q.pc = "save" /\ comm' = q.comm
    BY <1>1, <1>5 DEF Messaging!Save, Messaging!At
  <2>2. comm'.status = comm.status /\ comm'.since = comm.since
    BY <2>1, <1>1 DEF Sending, Linking
  <2>3. Messaging!LinksLast'
    BY <2>2, <1>2 DEF SendingInv, Messaging!LinksLast
  <2>4. QED
    BY <2>2, <2>3, <1>2, <1>3, <1>4, ManagerEnds
<1>6. CASE Messaging!Attach(s) \/ Messaging!Detach(s)
  <2>1. comm' = comm
    BY <1>6 DEF Messaging!Attach, Messaging!Detach
  <2>2. Messaging!LinksLast'
    BY <2>1, <1>2 DEF SendingInv, Messaging!LinksLast
  <2>3. QED
    BY <2>1, <2>2, <1>2, <1>3, <1>4, ManagerEnds
<1>7. CASE Messaging!Finish(s)
  <2>1. q.pc = "next" /\ q.comm = comm /\ q.sending = asked /\ \A token \in handed : token.sending = q.sending => token \in links
    BY <1>1, <1>7 DEF Messaging!Finish, Messaging!At, Sending, Linking, Addressing, Delivering
  <2>2. comm \in Messaging!Communication
    BY DEF MessageInv, Messaging!MessageTypeOK
  <2>3. CASE comm.status = "sent"
    <3>1. comm' = comm
      BY <2>1, <2>3, <1>1, <1>7 DEF Messaging!Finish
    <3>2. Messaging!LinksLast'
      BY <3>1, <1>2 DEF SendingInv, Messaging!LinksLast
    <3>3. QED
      BY <3>1, <3>2, <1>2, <1>3, <1>4, ManagerEnds
  <2>4. CASE comm.status # "sent"
    <3>1. comm' = [comm EXCEPT !.status = "sent", !.since = q.sending]
      BY <2>1, <2>4, <1>1, <1>7 DEF Messaging!Finish
    <3>2. comm'.status = "sent" /\ comm'.since = asked
      BY <3>1, <2>1, <2>2 DEF Messaging!Communication
    <3>3. \A token \in handed : token.sending >= asked => token \in links
      BY <2>1, HandedBefore
    <3>4. Messaging!LinksLast'
      BY <3>2, <3>3, <1>2 DEF Messaging!LinksLast
    <3>5. QED
      BY <3>2, <3>4, <1>2, <1>3, <1>4, ManagerEnds
  <2>5. QED
    BY <2>3, <2>4
<1>8. QED
  BY <1>5, <1>6, <1>7

LEMMA SendingStops ==
  ASSUME MessageParameters, OneManager, MessageInv, SendingInv, NEW s \in Messaging!Slots, Messaging!Stop(s)
  PROVE  SendingInv'
<1>1. UNCHANGED <<comm, recipients, links, handed, asked>> /\ Messaging!Ends(s)
  BY DEF Messaging!Stop
<1>2. CASE tasks[s].pc \in Managing
  <2>1. s \in Managers
    BY <1>2 DEF SendingInv
  <2>2. Messaging!LinksLast' /\ \A token \in handed' : token.sending <= asked'
    BY <1>1 DEF SendingInv, Messaging!LinksLast
  <2>3. QED
    BY <2>1, <2>2, <1>1, ManagerEnds
<1>3. CASE tasks[s].pc \notin Managing
  <2>1. PICK t : t = Messaging!Blank
    OBVIOUS
  <2>2. t.pc \notin Managing /\ t.pc \notin Reading
    BY <2>1, MessageBlank DEF Managing, Dropping, Addressing, Delivering, Editing, Reading
  <2>3. tasks' = [tasks EXCEPT ![s] = t]
    BY <2>1, <1>1 DEF Messaging!Ends, Messaging!Goes
  <2>4. QED
    BY <2>2, <2>3, <1>1, <1>3, ReaderMoves
<1>4. QED
  BY <1>2, <1>3

LEMMA SendingReads ==
  ASSUME MessageParameters, MessageInv, SendingInv, NEW s \in Messaging!Slots,
         \/ \E token \in handed : Messaging!OpenLink(s, token)
         \/ \E u \in Users : Messaging!MarkReadApp(s, u)
         \/ Messaging!LogReading(s) \/ Messaging!FindRecipient(s) \/ Messaging!TouchRecipient(s)
  PROVE  SendingInv'
<1>1. Messaging!Blank \in Errand /\ "log" \notin Managing /\ "touch" \notin Managing /\ "find_recipient" \notin Managing
      /\ "idle" \notin Managing /\ "idle" \notin Reading
  BY MessageBlank DEF Managing, Dropping, Addressing, Delivering, Editing, Reading
<1>2. ASSUME NEW t, tasks' = [tasks EXCEPT ![s] = t], tasks[s].pc \notin Managing, t.pc \notin Managing,
             comm.status # "draft", UNCHANGED <<comm, links, handed, asked>>
      PROVE  SendingInv'
  BY <1>2, ReaderMoves
<1>3. PICK q \in Errand : q = tasks[s]
  BY DEF MessageInv
<1>4. ASSUME NEW token \in handed, Messaging!OpenLink(s, token) PROVE SendingInv'
  <2>1. q.pc = "idle" /\ UNCHANGED <<comm, recipients, links, handed, asked>>
    BY <1>3, <1>4 DEF Messaging!OpenLink, Messaging!At
  <2>2. CASE Messaging!Opens(token)
    <3>1. PICK t : t = [Messaging!Blank EXCEPT !.pc = "log", !.reader = token.user, !.token = token]
      OBVIOUS
    <3>2. t.pc = "log" /\ tasks' = [tasks EXCEPT ![s] = t]
      BY <3>1, <2>2, <1>4 DEF Messaging!OpenLink, Messaging!Goes, Messaging!Blank
    <3>3. comm.status # "draft"
      BY <2>2 DEF Messaging!Opens
    <3>4. QED
      BY <3>2, <3>3, <2>1, <1>1, <1>2, <1>3
  <2>3. CASE ~ Messaging!Opens(token)
    <3>1. tasks' = tasks
      BY <2>3, <1>4 DEF Messaging!OpenLink
    <3>2. tasks' = [tasks EXCEPT ![s] = q]
      BY <3>1, <1>3 DEF MessageInv
    <3>3. q.pc \notin Reading /\ q.pc \notin Managing
      BY <2>1, <1>1
    <3>4. QED
      BY <3>2, <3>3, <2>1, <1>3, ReaderMoves
  <2>4. QED
    BY <2>2, <2>3
<1>5. ASSUME NEW u \in Users, Messaging!MarkReadApp(s, u) PROVE SendingInv'
  <2>1. q.pc = "idle" /\ comm.status # "draft" /\ UNCHANGED <<comm, links, handed, asked>>
    BY <1>3, <1>5 DEF Messaging!MarkReadApp, Messaging!At
  <2>2. PICK t : t = [Messaging!Blank EXCEPT !.pc = "log", !.reader = u]
    OBVIOUS
  <2>3. t.pc = "log" /\ tasks' = [tasks EXCEPT ![s] = t]
    BY <2>2, <1>5 DEF Messaging!MarkReadApp, Messaging!Goes, Messaging!Blank
  <2>4. QED
    BY <2>1, <2>3, <1>1, <1>2, <1>3
<1>6. CASE Messaging!LogReading(s) \/ Messaging!FindRecipient(s) \/ Messaging!TouchRecipient(s)
  <2>1. q.pc \in Reading /\ UNCHANGED <<comm, links, handed, asked>>
    BY <1>3, <1>6 DEF Messaging!LogReading, Messaging!FindRecipient, Messaging!TouchRecipient, Messaging!At, Reading
  <2>2. comm.status # "draft" /\ q.pc \notin Managing
    BY <2>1, <1>1, <1>3 DEF SendingInv, Reading
  <2>3. PICK t : tasks' = [tasks EXCEPT ![s] = t] /\ t.pc \in {"idle", "find_recipient", "touch"}
    <3>1. CASE Messaging!LogReading(s)
      <4>1. tasks' = [tasks EXCEPT ![s] = [q EXCEPT !.pc = "find_recipient"]]
        BY <3>1, <1>3 DEF Messaging!LogReading, Messaging!To, Messaging!Goes
      <4>2. [q EXCEPT !.pc = "find_recipient"].pc = "find_recipient"
        BY DEF Errand
      <4>3. QED
        BY <4>1, <4>2
    <3>2. CASE Messaging!FindRecipient(s)
      <4>1. CASE Messaging!Ends(s)
        BY <4>1, MessageBlank DEF Messaging!Ends, Messaging!Goes
      <4>2. CASE ~ Messaging!Ends(s)
        <5>1. PICK row : tasks' = [tasks EXCEPT ![s] = [q EXCEPT !.pc = "touch", !.row = row]]
          BY <4>2, <3>2, <1>3 DEF Messaging!FindRecipient, Messaging!Goes
        <5>2. [q EXCEPT !.pc = "touch", !.row = row].pc = "touch"
          BY DEF Errand
        <5>3. QED
          BY <5>1, <5>2
      <4>3. QED
        BY <4>1, <4>2
    <3>3. CASE Messaging!TouchRecipient(s)
      BY <3>3, MessageBlank DEF Messaging!TouchRecipient, Messaging!Put, Messaging!Ends, Messaging!Goes
    <3>4. QED
      BY <3>1, <3>2, <3>3, <1>6
  <2>4. QED
    BY <2>1, <2>2, <2>3, <1>1, <1>2, <1>3
<1>7. QED
  BY <1>4, <1>5, <1>6

LEMMA SameTokens ==
  ASSUME NEW q, NEW t, t.comm = q.comm, t.sending = q.sending, NEW u, NEW channel
  PROVE  Messaging!Tokens(t, u, channel) = Messaging!Tokens(q, u, channel)
BY DEF Messaging!Tokens

\* A step that prepares a sending or chooses the next recipient.
LEMMA PreparationMoves ==
  ASSUME OneManager, MessageInv, SendingInv, NEW s \in Messaging!Slots, tasks[s].pc \in Managing,
         NEW t, tasks' = [tasks EXCEPT ![s] = t], t.pc \in Dropping \cup Addressing,
         Linking(t)', RowsOf(t)', Outgoing(t)', UNCHANGED <<comm, handed, asked>>,
         links \subseteq links' \/ comm.status = "draft"
  PROVE  SendingInv'
<1>1. s \in Managers
  BY DEF SendingInv
<1>2. Messaging!LinksLast' /\ \A token \in handed' : token.sending <= asked'
  BY DEF SendingInv, Messaging!LinksLast
<1>3. t.pc \notin Reading
  BY DEF Reading, Dropping, Addressing, Delivering
<1>4. Sending(t)'
  BY DEF Sending
<1>5. QED
  BY <1>1, <1>2, <1>3, <1>4, ManagerMoves

LEMMA SendingDrops ==
  ASSUME OneManager, MessageInv, SendingInv, NEW s \in Messaging!Slots,
         Messaging!DropLinks(s) \/ Messaging!DropRecipients(s)
  PROVE  SendingInv'
<1>1. PICK q \in Errand : q = tasks[s] /\ Linking(q)
  BY DEF MessageInv, SendingInv, Sending
<1>2. CASE Messaging!DropLinks(s)
  <2>1. q.pc = "drop_links" /\ UNCHANGED <<comm, handed, asked>> /\ q.pc \in Managing
    BY <1>1, <1>2 DEF Messaging!DropLinks, Messaging!At, Managing, Dropping
  <2>2. PICK t : t = [q EXCEPT !.pc = "drop_recipients"]
    OBVIOUS
  <2>3. t.pc = "drop_recipients" /\ t.comm = q.comm /\ t.sending = q.sending
    BY <2>2 DEF Errand
  <2>4. tasks' = [tasks EXCEPT ![s] = t]
    BY <2>2, <1>1, <1>2 DEF Messaging!DropLinks, Messaging!To, Messaging!Goes
  <2>5. Linking(t)'
    BY <2>1, <2>3, <1>1 DEF Linking, Dropping, Addressing, Delivering
  <2>6. RowsOf(t)' /\ Outgoing(t)' /\ t.pc \in Dropping
    BY <2>3 DEF RowsOf, Outgoing, Dropping, Addressing, Delivering
  <2>7. comm.status = "draft"
    BY <2>1, <1>1 DEF Linking
  <2>8. QED
    BY <2>1, <2>4, <2>5, <2>6, <2>7, <1>1, PreparationMoves
<1>3. CASE Messaging!DropRecipients(s)
  <2>1. /\ q.pc = "drop_recipients" /\ UNCHANGED <<comm, links, handed, asked>> /\ q.pc \in Managing
        /\ \A u \in Users : recipients'[u] = None
    BY <1>1, <1>3 DEF Messaging!DropRecipients, Messaging!At, Managing, Dropping
  <2>2. PICK t : t = [q EXCEPT !.pc = "make"]
    OBVIOUS
  <2>3. t.pc = "make" /\ t.comm = q.comm /\ t.sending = q.sending
    BY <2>2 DEF Errand
  <2>4. tasks' = [tasks EXCEPT ![s] = t]
    BY <2>2, <1>1, <1>3 DEF Messaging!DropRecipients, Messaging!To, Messaging!Goes
  <2>5. Linking(t)'
    BY <2>1, <2>3, <1>1 DEF Linking, Dropping, Addressing, Delivering
  <2>6. RowsOf(t)' /\ t.pc \in Dropping
    BY <2>3 DEF RowsOf, Dropping, Addressing, Delivering
  <2>7. Outgoing(t)'
    BY <2>1, <2>3 DEF Outgoing, Dropping, Addressing, Delivering
  <2>8. QED
    BY <2>1, <2>4, <2>5, <2>6, <2>7, <1>1, PreparationMoves
<1>4. QED
  BY <1>2, <1>3

LEMMA SendingMakes ==
  ASSUME MessageParameters, OneManager, MessageInv, SendingInv, NEW s \in Messaging!Slots, Messaging!Make(s)
  PROVE  SendingInv'
<1>1. PICK q \in Errand : q = tasks[s] /\ Carries(q) /\ Linking(q) /\ Outgoing(q)
  BY DEF MessageInv, SendingInv, Sending
<1>2. q.pc = "make" /\ UNCHANGED <<comm, recipients, links, handed, asked>> /\ q.pc \in Managing
  BY <1>1 DEF Messaging!Make, Messaging!At, Managing, Dropping
<1>3. q.sending \in 1..MaxRequests /\ s \in Managers
  BY <1>1, <1>2 DEF Carries, Dropping, SendingInv
<1>4. CASE Messaging!Ends(s)
  <2>1. Messaging!LinksLast' /\ \A token \in handed' : token.sending <= asked'
    BY <1>2 DEF SendingInv, Messaging!LinksLast
  <2>2. QED
    BY <2>1, <1>2, <1>3, <1>4, ManagerEnds
<1>5. CASE ~ Messaging!Ends(s)
  <2>1. PICK rs \in [Messaging!Addressed(q.comm) -> UNION {Messaging!Made(q, u) : u \in Users}] :
           /\ \A u \in DOMAIN rs : rs[u] \in Messaging!Made(q, u)
           /\ Messaging!Goes(s, [q EXCEPT !.pc = "insert_recipients", !.made = rs, !.left = DOMAIN rs])
    BY <1>1, <1>5 DEF Messaging!Make
  <2>2. PICK t : t = [q EXCEPT !.pc = "insert_recipients", !.made = rs, !.left = DOMAIN rs]
    OBVIOUS
  <2>3. t.pc = "insert_recipients" /\ t.made = rs /\ t.left = DOMAIN rs /\ t.comm = q.comm /\ t.sending = q.sending
    BY <2>2 DEF Errand
  <2>4. DOMAIN rs = Messaging!Addressed(q.comm) /\ Messaging!Addressed(q.comm) \subseteq Users
    BY DEF Messaging!Addressed
  <2>5. tasks' = [tasks EXCEPT ![s] = t]
    BY <2>1, <2>2 DEF Messaging!Goes
  <2>6. Linking(t)'
    BY <2>3, <2>4, <1>1, <1>2 DEF Linking, Dropping, Addressing, Delivering
  <2>7. ASSUME NEW u \in Messaging!Addressed(q.comm)
        PROVE  /\ rs[u].sending = q.sending
               /\ \A channel \in Messaging!Channels :
                     (rs[u][channel] # "skipped" => Messaging!Reaches(q.comm, u, channel)) /\ rs[u][channel] # "sent"
    <3>1. PICK rec : rec = rs[u]
      OBVIOUS
    <3>2. rec \in Messaging!Made(q, u) /\ u \in Users
      BY <3>1, <2>1, <2>4
    <3>3. /\ rec.sending = q.sending
          /\ rec.email = Messaging!Waiting(q.comm, u, "email") /\ rec.sms = Messaging!Waiting(q.comm, u, "sms")
      BY <3>2, <1>3, RowsMade
    <3>4. (rec.email # "skipped" => Messaging!Reaches(q.comm, u, "email")) /\ rec.email # "sent"
      BY <3>3 DEF Messaging!Waiting
    <3>5. (rec.sms # "skipped" => Messaging!Reaches(q.comm, u, "sms")) /\ rec.sms # "sent"
      BY <3>3 DEF Messaging!Waiting
    <3>6. ASSUME NEW channel \in Messaging!Channels
          PROVE  (rec[channel] # "skipped" => Messaging!Reaches(q.comm, u, channel)) /\ rec[channel] # "sent"
      BY <3>4, <3>5, <3>6 DEF Messaging!Channels
    <3>7. QED
      BY <3>1, <3>3, <3>6
  <2>8. RowsOf(t)'
    BY <2>3, <2>7 DEF RowsOf
  <2>9. Outgoing(t)' /\ t.pc \in Addressing
    BY <2>3, <1>1, <1>2 DEF Outgoing, Addressing, Delivering
  <2>10. QED
    BY <2>5, <2>6, <2>8, <2>9, <1>1, <1>2, PreparationMoves
<1>6. QED
  BY <1>4, <1>5

LEMMA SendingInserts ==
  ASSUME MessageParameters, OneManager, MessageInv, SendingInv, NEW s \in Messaging!Slots,
         Messaging!InsertRecipients(s)
  PROVE  SendingInv'
<1>1. PICK q \in Errand : q = tasks[s] /\ Carries(q) /\ Linking(q) /\ RowsOf(q) /\ Outgoing(q)
  BY DEF MessageInv, SendingInv, Sending
<1>2. q.pc = "insert_recipients" /\ UNCHANGED <<comm, links, handed, asked>> /\ q.pc \in Managing
  BY <1>1 DEF Messaging!InsertRecipients, Messaging!At, Managing, Addressing
<1>3. s \in Managers
  BY <1>1, <1>2 DEF SendingInv
<1>4. CASE Messaging!Ends(s)
  <2>1. Messaging!LinksLast' /\ \A token \in handed' : token.sending <= asked'
    BY <1>2 DEF SendingInv, Messaging!LinksLast
  <2>2. QED
    BY <2>1, <1>2, <1>3, <1>4, ManagerEnds
<1>5. CASE ~ Messaging!Ends(s)
  <2>1. /\ recipients' = [u \in Users |-> IF u \in DOMAIN q.made THEN q.made[u] ELSE recipients[u]]
        /\ Messaging!To(s, "insert_links")
    BY <1>1, <1>5 DEF Messaging!InsertRecipients
  <2>2. PICK t : t = [q EXCEPT !.pc = "insert_links"]
    OBVIOUS
  <2>3. t.pc = "insert_links" /\ t.comm = q.comm /\ t.sending = q.sending /\ t.made = q.made /\ t.left = q.left
    BY <2>2 DEF Errand
  <2>4. tasks' = [tasks EXCEPT ![s] = t]
    BY <2>1, <2>2, <1>1 DEF Messaging!To, Messaging!Goes
  <2>5. /\ q.made \in [Messaging!Addressed(q.comm) -> Messaging!Recipient] /\ DOMAIN q.made = Messaging!Addressed(q.comm)
        /\ Messaging!Addressed(q.comm) \subseteq Users
    BY <1>1, <1>2 DEF Carries, Addressing, Messaging!Addressed
  <2>6. Linking(t)'
    BY <2>3, <1>1, <1>2 DEF Linking, Dropping, Addressing, Delivering
  <2>7. RowsOf(t)' /\ t.pc \in Addressing
    BY <2>3, <1>1, <1>2, SameTokens DEF RowsOf, Addressing
  <2>8. \A u \in Messaging!Addressed(q.comm) : q.made[u] # None /\ q.made[u].sending = q.sending
    BY <2>5, <1>1, <1>2 DEF RowsOf, Addressing, MessageParameters
  <2>9. comm.status = "draft" =>
           /\ \A u \in Users \ Messaging!Addressed(q.comm) : recipients'[u] = None
           /\ \A u \in Messaging!Addressed(q.comm) : recipients'[u] # None /\ recipients'[u].sending = q.sending
    BY <2>1, <2>5, <2>8, <1>1, <1>2 DEF Outgoing
  <2>10. Outgoing(t)'
    BY <2>3, <2>9, <1>2 DEF Outgoing, Delivering
  <2>11. QED
    BY <2>4, <2>6, <2>7, <2>10, <1>1, <1>2, PreparationMoves
<1>6. QED
  BY <1>4, <1>5

LEMMA SendingLinks ==
  ASSUME OneManager, MessageInv, SendingInv, NEW s \in Messaging!Slots, Messaging!InsertLinks(s)
  PROVE  SendingInv'
<1>1. PICK q \in Errand : q = tasks[s] /\ Linking(q) /\ RowsOf(q) /\ Outgoing(q)
  BY DEF MessageInv, SendingInv, Sending
<1>2. /\ q.pc = "insert_links" /\ UNCHANGED <<comm, recipients, handed, asked>> /\ q.pc \in Managing
      /\ links' = links \cup UNION {Messaging!Tokens(q, u, channel) : u \in q.left, channel \in Messaging!Channels}
      /\ links \subseteq links'
  BY <1>1 DEF Messaging!InsertLinks, Messaging!At, Managing, Addressing
<1>3. PICK t : t = [q EXCEPT !.pc = "next"]
  OBVIOUS
<1>4. t.pc = "next" /\ t.comm = q.comm /\ t.sending = q.sending /\ t.made = q.made /\ t.left = q.left
  BY <1>3 DEF Errand
<1>5. tasks' = [tasks EXCEPT ![s] = t]
  BY <1>1, <1>3 DEF Messaging!InsertLinks, Messaging!To, Messaging!Goes
<1>6. q.left = Messaging!Addressed(q.comm) /\ q.comm = comm /\ q.sending = asked
  BY <1>1, <1>2 DEF Linking, Addressing
<1>7. \A u \in Messaging!Addressed(q.comm) : Opening(t, u)'
  <2>1. ASSUME NEW u \in Messaging!Addressed(q.comm), NEW channel \in Messaging!Channels
        PROVE  Messaging!Tokens(t, u, channel) \subseteq links'
    <3>1. Messaging!Tokens(t, u, channel) = Messaging!Tokens(q, u, channel)
      BY <1>4, SameTokens
    <3>2. QED
      BY <3>1, <1>2, <1>6
  <2>2. QED
    BY <2>1 DEF Opening
<1>8. \A token \in handed' : token.sending # t.sending
  BY <1>1, <1>2, <1>4, <1>6, HandedBefore DEF Linking
<1>9. Linking(t)'
  BY <1>2, <1>4, <1>6, <1>7, <1>8 DEF Linking, Dropping, Addressing, Delivering
<1>10. RowsOf(t)' /\ t.pc \in Addressing
  BY <1>1, <1>2, <1>4, SameTokens DEF RowsOf, Addressing, Delivering
<1>11. Outgoing(t)'
  BY <1>1, <1>2, <1>4, <1>6 DEF Outgoing, Delivering
<1>12. QED
  BY <1>1, <1>2, <1>5, <1>9, <1>10, <1>11, PreparationMoves

LEMMA SendingChooses ==
  ASSUME OneManager, MessageInv, SendingInv, NEW s \in Messaging!Slots, Messaging!NextRecipient(s)
  PROVE  SendingInv'
<1>1. PICK q \in Errand : q = tasks[s] /\ Linking(q) /\ RowsOf(q) /\ Outgoing(q)
  BY DEF MessageInv, SendingInv, Sending
<1>2. q.pc = "next" /\ UNCHANGED <<comm, recipients, links, handed, asked>> /\ q.pc \in Managing /\ q.pc \in Delivering
  BY <1>1 DEF Messaging!NextRecipient, Messaging!At, Managing, Addressing, Delivering
<1>3. PICK u \in q.left : Messaging!Goes(s, [q EXCEPT !.pc = "mail", !.row = u, !.left = q.left \ {u}])
  BY <1>1 DEF Messaging!NextRecipient
<1>4. PICK t : t = [q EXCEPT !.pc = "mail", !.row = u, !.left = q.left \ {u}]
  OBVIOUS
<1>5. t.pc = "mail" /\ t.comm = q.comm /\ t.sending = q.sending /\ t.made = q.made /\ t.left = q.left \ {u} /\ t.row = u
  BY <1>4 DEF Errand
<1>6. tasks' = [tasks EXCEPT ![s] = t]
  BY <1>3, <1>4 DEF Messaging!Goes
<1>7. \A v : Opening(t, v)' <=> Opening(q, v)
  BY <1>2, <1>5, SameTokens DEF Opening
<1>8. \A v, channel : Tried(t, v, channel)' <=> Tried(q, v, channel)
  BY <1>2, <1>5, SameTokens DEF Tried
<1>9. Linking(t)'
  BY <1>1, <1>2, <1>5, <1>7 DEF Linking, Dropping, Addressing, Delivering
<1>10. RowsOf(t)' /\ t.pc \in Addressing
  BY <1>1, <1>2, <1>5, SameTokens DEF RowsOf, Addressing, Delivering
<1>11. Outgoing(t)'
  BY <1>1, <1>2, <1>5, <1>8 DEF Outgoing, Delivering
<1>12. QED
  BY <1>1, <1>2, <1>6, <1>9, <1>10, <1>11, PreparationMoves

\* A delivery hands over links that open.
LEMMA SendingDelivers ==
  ASSUME MessageParameters, OneManager, MessageInv, SendingInv, NEW s \in Messaging!Slots,
         Messaging!Mail(s) \/ Messaging!Text(s)
  PROVE  SendingInv'
<1>1. PICK q \in Errand : q = tasks[s] /\ Carries(q) /\ Linking(q) /\ RowsOf(q) /\ Outgoing(q)
  BY DEF MessageInv, SendingInv, Sending
<1>2. PICK channel \in Messaging!Channels, then \in Delivering :
         /\ Messaging!Deliver(s, channel, then)
         /\ \/ q.pc = "mail" /\ channel = "email" /\ then = "text"
            \/ q.pc = "text" /\ channel = "sms" /\ then = "save_recipient"
  BY <1>1 DEF Messaging!Mail, Messaging!Text, Messaging!At, Messaging!Channels, Delivering
<1>3. UNCHANGED <<comm, recipients, links, asked>>
  BY DEF Messaging!Mail, Messaging!Text
<1>4. PICK t \in Errand : Delivered(q, t, channel, then) /\ tasks' = [tasks EXCEPT ![s] = t]
  BY <1>1, <1>2, Deliveries
<1>5. /\ q.comm = comm /\ q.sending = asked /\ q.sending \in 1..MaxRequests
      /\ q.row \in Messaging!Addressed(q.comm) /\ q.row \in Users
      /\ q.made \in [Messaging!Addressed(q.comm) -> Messaging!Recipient]
  BY <1>1, <1>2 DEF Linking, Carries, Addressing, Delivering, Messaging!Addressed
<1>6. /\ t.pc = then /\ t.comm = q.comm /\ t.sending = q.sending /\ t.left = q.left /\ t.row = q.row
      /\ handed \subseteq handed' /\ handed' \subseteq handed \cup Messaging!Tokens(q, q.row, channel)
      /\ \A u \in Messaging!Addressed(q.comm) \ {q.row} : t.made[u] = q.made[u]
      /\ t.made[q.row].sending = q.made[q.row].sending
      /\ \A other \in Messaging!Channels \ {channel} : t.made[q.row][other] = q.made[q.row][other]
  BY <1>4 DEF Delivered, SomeArrived
<1>7. Opening(q, q.row) /\ \A token \in handed : token.sending = q.sending => token \in links
  BY <1>1, <1>2, <1>5 DEF Linking, Delivering
<1>8. Messaging!Tokens(q, q.row, channel) \subseteq links
      /\ \A token \in Messaging!Tokens(q, q.row, channel) : token.sending = asked
  BY <1>5, <1>7, TokensTyped DEF Opening
<1>9. \A token \in handed' : token.sending <= asked' /\ (token.sending = t.sending => token \in links')
  BY <1>3, <1>5, <1>6, <1>7, <1>8, HandedBefore
<1>10. Messaging!LinksLast'
  BY <1>3, <1>6, <1>8 DEF SendingInv, Messaging!LinksLast
<1>11. \A u : Opening(t, u)' <=> Opening(q, u)
  BY <1>3, <1>6, SameTokens DEF Opening
<1>12. Linking(t)'
  BY <1>1, <1>2, <1>3, <1>5, <1>6, <1>9, <1>11 DEF Linking, Dropping, Addressing, Delivering
<1>13. ASSUME NEW u \in Messaging!Addressed(q.comm)
       PROVE  /\ t.made[u].sending = t.sending
              /\ \A other \in Messaging!Channels :
                    /\ t.made[u][other] # "skipped" => Messaging!Reaches(t.comm, u, other)
                    /\ t.made[u][other] = "sent" => Messaging!Tokens(t, u, other) \subseteq handed'
  <2>1. /\ q.made[u].sending = q.sending
        /\ \A other \in Messaging!Channels :
              /\ q.made[u][other] # "skipped" => Messaging!Reaches(q.comm, u, other)
              /\ q.made[u][other] = "sent" => Messaging!Tokens(q, u, other) \subseteq handed
    BY <1>1, <1>2 DEF RowsOf, Addressing, Delivering
  <2>2. ASSUME NEW other \in Messaging!Channels
        PROVE  /\ t.made[u][other] # "skipped" => q.made[u][other] # "skipped"
               /\ t.made[u][other] = "sent" => Messaging!Tokens(q, u, other) \subseteq handed'
    <3>1. CASE u = q.row /\ other = channel
      BY <3>1, <2>1, <1>4 DEF Delivered, SomeArrived
    <3>2. CASE u # q.row \/ other # channel
      BY <3>2, <2>1, <1>6
    <3>3. QED
      BY <3>1, <3>2
  <2>3. t.made[u].sending = q.made[u].sending
    BY <1>6
  <2>4. \A other : Messaging!Tokens(t, u, other) = Messaging!Tokens(q, u, other)
    BY <1>6, SameTokens
  <2>5. QED
    BY <2>1, <2>2, <2>3, <2>4, <1>6
<1>14. RowsOf(t)'
  BY <1>6, <1>13 DEF RowsOf
<1>15. Tried(t, q.row, channel) /\ \A other \in Messaging!Channels \ {channel} : Tried(q, q.row, other) => Tried(t, q.row, other)
  BY <1>4, <1>6 DEF Delivered, Tried, SomeArrived
<1>16. \A u \in Messaging!Addressed(q.comm) \ {q.row} : \A other : Tried(q, u, other) => Tried(t, u, other)
  BY <1>6 DEF Tried
<1>17. "email" \in Messaging!Channels /\ "sms" \in Messaging!Channels
  BY DEF Messaging!Channels
<1>18. ASSUME comm.status = "draft"
       PROVE  /\ \A u \in Messaging!Addressed(t.comm) \ t.left : u # t.row =>
                    recipients[u] = t.made[u] /\ \A other \in Messaging!Channels : Tried(t, u, other)
              /\ t.pc \in {"text", "save_recipient"} => Tried(t, t.row, "email")
              /\ t.pc = "save_recipient" => Tried(t, t.row, "sms")
              /\ \A u \in Users \ Messaging!Addressed(t.comm) : recipients[u] = None
              /\ \A u \in Messaging!Addressed(t.comm) : recipients[u] # None /\ recipients[u].sending = t.sending
  <2>1. /\ \A u \in Messaging!Addressed(q.comm) \ q.left : u # q.row =>
               recipients[u] = q.made[u] /\ \A other \in Messaging!Channels : Tried(q, u, other)
        /\ q.pc = "text" => Tried(q, q.row, "email")
        /\ \A u \in Users \ Messaging!Addressed(q.comm) : recipients[u] = None
        /\ \A u \in Messaging!Addressed(q.comm) : recipients[u] # None /\ recipients[u].sending = q.sending
    BY <1>1, <1>2, <1>18 DEF Outgoing, Delivering
  <2>2. \A u \in Messaging!Addressed(t.comm) \ t.left : u # t.row =>
            recipients[u] = t.made[u] /\ \A other \in Messaging!Channels : Tried(t, u, other)
    BY <2>1, <1>6, <1>16
  <2>3. t.pc \in {"text", "save_recipient"} => Tried(t, t.row, "email")
    BY <2>1, <1>2, <1>6, <1>15, <1>17
  <2>4. t.pc = "save_recipient" => Tried(t, t.row, "sms")
    BY <1>2, <1>6, <1>15
  <2>5. QED
    BY <2>1, <2>2, <2>3, <2>4, <1>6
<1>19. Outgoing(t)'
  <2>1. t.pc \in {"text", "save_recipient"} /\ t.pc \notin {"make", "insert_recipients"} /\ t.pc # "next"
    BY <1>2, <1>6
  <2>2. \A u, other : Tried(t, u, other)' <=> Tried(t, u, other)
    BY DEF Tried
  <2>3. QED
    BY <2>1, <2>2, <1>3, <1>18 DEF Outgoing
<1>20. s \in Managers /\ t.pc \notin Reading
  BY <1>1, <1>2, <1>6 DEF SendingInv, Managing, Addressing, Delivering, Reading
<1>21. QED
  BY <1>3, <1>4, <1>9, <1>10, <1>12, <1>14, <1>19, <1>20, ManagerMoves DEF Sending

\* In a draft the row is still the one of this sending, and it gets the outcome.
LEMMA SendingSaves ==
  ASSUME MessageParameters, OneManager, MessageInv, SendingInv, NEW s \in Messaging!Slots,
         Messaging!SaveRecipient(s)
  PROVE  SendingInv'
<1>1. PICK q \in Errand : q = tasks[s] /\ Carries(q) /\ Linking(q) /\ RowsOf(q) /\ Outgoing(q)
  BY DEF MessageInv, SendingInv, Sending
<1>2. /\ q.pc = "save_recipient" /\ UNCHANGED <<comm, links, handed, asked>> /\ q.pc \in Managing
      /\ Messaging!Put(s, q.row, q.made[q.row], [q EXCEPT !.pc = "next"])
  BY <1>1 DEF Messaging!SaveRecipient, Messaging!At, Managing, Addressing, Delivering
<1>3. s \in Managers
  BY <1>1, <1>2 DEF SendingInv
<1>4. CASE Messaging!Ends(s)
  <2>1. Messaging!LinksLast' /\ \A token \in handed' : token.sending <= asked'
    BY <1>2 DEF SendingInv, Messaging!LinksLast
  <2>2. QED
    BY <2>1, <1>2, <1>3, <1>4, ManagerEnds
<1>5. CASE ~ Messaging!Ends(s)
  <2>1. recipients' = [recipients EXCEPT ![q.row] = q.made[q.row]] /\ Messaging!Goes(s, [q EXCEPT !.pc = "next"])
    BY <1>2, <1>5 DEF Messaging!Put
  <2>2. PICK t : t = [q EXCEPT !.pc = "next"]
    OBVIOUS
  <2>3. t.pc = "next" /\ t.comm = q.comm /\ t.sending = q.sending /\ t.made = q.made /\ t.left = q.left
    BY <2>2 DEF Errand
  <2>4. tasks' = [tasks EXCEPT ![s] = t]
    BY <2>1, <2>2 DEF Messaging!Goes
  <2>5. \A u : Opening(t, u)' <=> Opening(q, u)
    BY <1>2, <2>3, SameTokens DEF Opening
  <2>6. Linking(t)'
    BY <2>3, <2>5, <1>1, <1>2 DEF Linking, Dropping, Addressing, Delivering
  <2>7. RowsOf(t)' /\ t.pc \in Addressing
    BY <2>3, <1>1, <1>2, SameTokens DEF RowsOf, Addressing, Delivering
  <2>8. /\ q.row \in Messaging!Addressed(q.comm) /\ Messaging!Addressed(q.comm) \subseteq Users
        /\ q.made[q.row] # None /\ q.made[q.row].sending = q.sending
    BY <1>1, <1>2 DEF Carries, RowsOf, Addressing, Delivering, Messaging!Addressed, MessageParameters
  <2>9. recipients'[q.row] = q.made[q.row] /\ \A u \in Users \ {q.row} : recipients'[u] = recipients[u]
    BY <2>1, <2>8 DEF MessageInv, Messaging!MessageTypeOK
  <2>10. Outgoing(t)'
    <3>1. ASSUME comm.status = "draft"
          PROVE  /\ \A u \in Users \ Messaging!Addressed(q.comm) : recipients'[u] = None
                 /\ \A u \in Messaging!Addressed(q.comm) : recipients'[u] # None /\ recipients'[u].sending = q.sending
                 /\ \A u \in Messaging!Addressed(q.comm) \ q.left :
                       recipients'[u] = q.made[u] /\ \A channel \in Messaging!Channels : Tried(q, u, channel)
      <4>1. /\ \A u \in Users \ Messaging!Addressed(q.comm) : recipients[u] = None
            /\ \A u \in Messaging!Addressed(q.comm) : recipients[u] # None /\ recipients[u].sending = q.sending
            /\ \A u \in Messaging!Addressed(q.comm) \ q.left : u # q.row =>
                  recipients[u] = q.made[u] /\ \A channel \in Messaging!Channels : Tried(q, u, channel)
            /\ Tried(q, q.row, "email") /\ Tried(q, q.row, "sms")
        BY <3>1, <1>1, <1>2 DEF Outgoing, Delivering
      <4>2. \A channel \in Messaging!Channels : Tried(q, q.row, channel)
        BY <4>1 DEF Messaging!Channels
      <4>3. QED
        BY <4>1, <4>2, <2>8, <2>9
    <3>2. \A u, channel : Tried(t, u, channel)' <=> Tried(q, u, channel)
      BY <2>3 DEF Tried
    <3>3. QED
      BY <3>1, <3>2, <2>3, <1>2 DEF Outgoing, Delivering
  <2>11. QED
    BY <2>4, <2>6, <2>7, <2>10, <1>1, <1>2, PreparationMoves
<1>6. QED
  BY <1>4, <1>5

LEMMA NextSending ==
  ASSUME MessageParameters, OneManager, MessageInv, SendingInv, [Messaging!Next]_Messaging!messageVars
  PROVE  SendingInv'
<1>1. CASE UNCHANGED Messaging!messageVars
  <2>1. UNCHANGED <<comm, recipients, links, handed, tasks, asked>>
    BY <1>1 DEF Messaging!messageVars
  <2>2. Messaging!LinksLast' /\ \A token \in handed' : token.sending <= asked'
    BY <2>1 DEF SendingInv, Messaging!LinksLast
  <2>3. ASSUME NEW s \in Messaging!Slots
        PROVE  /\ tasks'[s].pc \in Managing => s \in Managers
               /\ comm'.status = "draft" => tasks'[s].pc \notin Reading
               /\ Sending(tasks[s])'
    <3>1. Linking(tasks[s])'
      BY <2>1 DEF SendingInv, Sending, Linking, Opening
    <3>2. RowsOf(tasks[s])'
      BY <2>1 DEF SendingInv, Sending, RowsOf
    <3>3. Outgoing(tasks[s])'
      BY <2>1 DEF SendingInv, Sending, Outgoing, Tried
    <3>4. QED
      BY <3>1, <3>2, <3>3, <2>1 DEF SendingInv, Sending
  <2>4. QED
    BY <2>2, <2>3 DEF SendingInv
<1>2. ASSUME NEW s \in Messaging!Slots, Messaging!Requests(s) PROVE SendingInv'
  <2>1. CASE \/ \E new \in Settings : Messaging!Update(s, new)
             \/ \E f \in Files : Messaging!AddAttachment(s, f) \/ Messaging!RemoveAttachment(s, f)
             \/ Messaging!Send(s)
    BY <2>1, SendingAsks
  <2>2. CASE (\E token \in handed : Messaging!OpenLink(s, token)) \/ (\E u \in Users : Messaging!MarkReadApp(s, u))
    BY <2>2, SendingReads
  <2>3. QED
    BY <2>1, <2>2, <1>2 DEF Messaging!Requests
<1>3. ASSUME NEW s \in Messaging!Slots, Messaging!Steps(s) PROVE SendingInv'
  <2>1. CASE Messaging!Save(s) \/ Messaging!Attach(s) \/ Messaging!Detach(s) \/ Messaging!Finish(s)
    BY <2>1, SendingEdits
  <2>2. CASE Messaging!DropLinks(s) \/ Messaging!DropRecipients(s)
    BY <2>2, SendingDrops
  <2>3. CASE Messaging!Make(s)
    BY <2>3, SendingMakes
  <2>4. CASE Messaging!InsertRecipients(s)
    BY <2>4, SendingInserts
  <2>5. CASE Messaging!InsertLinks(s)
    BY <2>5, SendingLinks
  <2>6. CASE Messaging!NextRecipient(s)
    BY <2>6, SendingChooses
  <2>7. CASE Messaging!Mail(s) \/ Messaging!Text(s)
    BY <2>7, SendingDelivers
  <2>8. CASE Messaging!SaveRecipient(s)
    BY <2>8, SendingSaves
  <2>9. CASE Messaging!LogReading(s) \/ Messaging!FindRecipient(s) \/ Messaging!TouchRecipient(s)
    BY <2>9, SendingReads
  <2>10. QED
    BY <2>1, <2>2, <2>3, <2>4, <2>5, <2>6, <2>7, <2>8, <2>9, <1>3 DEF Messaging!Steps
<1>4. ASSUME NEW s \in Messaging!Slots, Messaging!Stop(s) PROVE SendingInv'
  BY <1>4, SendingStops
<1>5. QED
  BY <1>1, <1>2, <1>3, <1>4 DEF Messaging!Next

LEMMA SendingInvariant == ASSUME MessageParameters, OneManager PROVE Messaging!Spec => [](MessageInv /\ SendingInv)
<1>1. Messaging!Init => SendingInv
  BY InitSending
<1>2. MessageInv /\ SendingInv /\ [Messaging!Next]_Messaging!messageVars => SendingInv'
  BY NextSending
<1>3. QED
  BY <1>1, <1>2, MessageInvariant, PTL DEF Messaging!Spec

\* LinksLast: a link that was delivered with the sending that counts, or with a later one,
\* opens the communication for good, however often it is sent again or edited, and wherever
\* requests are cut short.
THEOREM LinksOpenForGood ==
  ASSUME MessageParameters, OneManager PROVE Messaging!Spec => []Messaging!LinksLast
<1>1. SendingInv => Messaging!LinksLast
  BY DEF SendingInv
<1>2. QED
  BY <1>1, SendingInvariant, PTL

\* Only the end of a sending makes a draft a communication that was sent.
LEMMA SentByFinish ==
  ASSUME MessageInv, SendingInv, [Messaging!Next]_Messaging!messageVars,
         comm.status = "draft", comm'.status = "sent"
  PROVE  \E s \in Messaging!Slots : Messaging!Finish(s)
<1>1. comm' # comm
  OBVIOUS
<1>2. PICK s \in Messaging!Slots : Messaging!Requests(s) \/ Messaging!Steps(s) \/ Messaging!Stop(s)
  BY <1>1 DEF Messaging!Next, Messaging!messageVars
<1>3. ~ Messaging!Requests(s)
  BY <1>1 DEF Messaging!Requests, Messaging!Update, Messaging!AddAttachment, Messaging!RemoveAttachment,
              Messaging!Send, Messaging!OpenLink, Messaging!MarkReadApp
<1>4. ~ Messaging!Stop(s)
  BY <1>1 DEF Messaging!Stop
<1>5. ~ (Messaging!Attach(s) \/ Messaging!Detach(s) \/ Messaging!DropLinks(s) \/ Messaging!DropRecipients(s))
  BY <1>1 DEF Messaging!Attach, Messaging!Detach, Messaging!DropLinks, Messaging!DropRecipients
<1>6. ~ (Messaging!Make(s) \/ Messaging!InsertRecipients(s) \/ Messaging!InsertLinks(s) \/ Messaging!NextRecipient(s))
  <2>1. Messaging!Make(s) => comm' = comm
    BY DEF Messaging!Make
  <2>2. Messaging!InsertRecipients(s) => comm' = comm
    BY DEF Messaging!InsertRecipients
  <2>3. Messaging!InsertLinks(s) => comm' = comm
    BY DEF Messaging!InsertLinks
  <2>4. Messaging!NextRecipient(s) => comm' = comm
    BY DEF Messaging!NextRecipient
  <2>5. QED
    BY <2>1, <2>2, <2>3, <2>4, <1>1
<1>7. ~ (Messaging!Mail(s) \/ Messaging!Text(s) \/ Messaging!SaveRecipient(s))
  BY <1>1 DEF Messaging!Mail, Messaging!Text, Messaging!SaveRecipient
<1>8. ~ (Messaging!LogReading(s) \/ Messaging!FindRecipient(s) \/ Messaging!TouchRecipient(s))
  BY <1>1 DEF Messaging!LogReading, Messaging!FindRecipient, Messaging!TouchRecipient
<1>9. ~ Messaging!Save(s)
  <2>1. ASSUME Messaging!Save(s) PROVE comm'.status = comm.status
    BY <2>1 DEF SendingInv, Sending, Linking, Messaging!Save, Messaging!At
  <2>2. QED
    BY <2>1
<1>10. QED
  BY <1>2, <1>3, <1>4, <1>5, <1>6, <1>7, <1>8, <1>9 DEF Messaging!Steps

LEMMA FinishSettles ==
  ASSUME MessageParameters, MessageInv, SendingInv, NEW s \in Messaging!Slots, Messaging!Finish(s),
         comm.status = "draft"
  PROVE  Messaging!SendingSettles
<1>1. PICK q \in Errand : q = tasks[s] /\ Carries(q) /\ Linking(q) /\ RowsOf(q) /\ Outgoing(q)
  BY DEF MessageInv, SendingInv, Sending
<1>2. q.pc = "next" /\ q.left = {} /\ q.pc \in Delivering /\ q.pc \in Addressing
  BY <1>1 DEF Messaging!Finish, Messaging!At, Addressing, Delivering
<1>3. q.comm = comm /\ comm \in Messaging!Communication
  BY <1>1, <1>2 DEF Linking, MessageInv, Messaging!MessageTypeOK
<1>4. comm'.since = q.sending
  BY <1>1, <1>3 DEF Messaging!Finish, Messaging!Communication
<1>5. ASSUME NEW u \in Users, NEW channel \in Messaging!Channels
      PROVE  /\ (recipients[u] = None) <=> Messaging!UnitsOf(comm, u) = {}
             /\ recipients[u] # None =>
                  /\ recipients[u][channel] # "pending"
                  /\ recipients[u][channel] = "sent" =>
                       \A n \in Messaging!UnitsOf(comm, u) :
                         [sending |-> comm'.since, user |-> u, unit |-> n, channel |-> channel] \in links \cap handed
  <2>1. u \in Messaging!Addressed(comm) <=> Messaging!UnitsOf(comm, u) # {}
    BY DEF Messaging!Addressed
  <2>2. recipients[u] = None <=> u \notin Messaging!Addressed(comm)
    BY <1>1, <1>2, <1>3 DEF Outgoing
  <2>3. ASSUME recipients[u] # None
        PROVE  /\ recipients[u][channel] = q.made[u][channel] /\ q.made[u][channel] # "pending"
               /\ q.made[u][channel] # "skipped" => Messaging!Reaches(comm, u, channel)
               /\ q.made[u][channel] = "sent" => Messaging!Tokens(q, u, channel) \subseteq handed
               /\ Messaging!Tokens(q, u, channel) \subseteq links
    <3>1. u \in Messaging!Addressed(comm)
      BY <2>2, <2>3
    <3>2. recipients[u] = q.made[u] /\ Tried(q, u, channel)
      BY <3>1, <1>1, <1>2, <1>3 DEF Outgoing
    <3>3. Opening(q, u)
      BY <3>1, <1>1, <1>2, <1>3 DEF Linking
    <3>4. QED
      BY <3>1, <3>2, <3>3, <1>1, <1>2, <1>3 DEF RowsOf, Tried, Opening
  <2>4. ASSUME Messaging!Reaches(comm, u, channel), NEW n \in Messaging!UnitsOf(comm, u)
        PROVE  [sending |-> comm'.since, user |-> u, unit |-> n, channel |-> channel] \in Messaging!Tokens(q, u, channel)
    BY <2>4, <1>3, <1>4 DEF Messaging!Tokens
  <2>5. QED
    BY <2>1, <2>2, <2>3, <2>4
<1>6. QED
  BY <1>5 DEF Messaging!SendingSettles

\* SentIsSettled: a communication becomes sent only when each delivery has been tried and its
\* outcome stored, and what counts as sent was delivered with a link for each unit.
THEOREM SendingsSettle ==
  ASSUME MessageParameters, OneManager PROVE Messaging!Spec => Messaging!SentIsSettled
<1>1. MessageInv /\ SendingInv /\ [Messaging!Next]_Messaging!messageVars
        => [Messaging!SendingSettles]_Messaging!messageVars
  <2>1. SUFFICES ASSUME MessageInv, SendingInv, [Messaging!Next]_Messaging!messageVars
                 PROVE  Messaging!SendingSettles
    OBVIOUS
  <2>2. CASE comm.status = "draft" /\ comm'.status = "sent"
    BY <2>1, <2>2, SentByFinish, FinishSettles
  <2>3. CASE ~ (comm.status = "draft" /\ comm'.status = "sent")
    BY <2>3 DEF Messaging!SendingSettles
  <2>4. QED
    BY <2>2, <2>3
<1>2. QED
  BY <1>1, SendingInvariant, PTL DEF Messaging!Spec, Messaging!SentIsSettled

(***************************************************************************)
(* People and invitations.                                                 *)
(***************************************************************************)

Residents == INSTANCE PeopleInvitations

\* The steps a request has left.  An acceptance by somebody without account, to a unit that
\* the person becomes responsible for, ...
JoinAccount == <<"account", "person", "unit", "link", "consume">>
JoinPerson == <<"person", "unit", "link", "consume">>
JoinUnit == <<"unit", "link", "consume">>
JoinLink == <<"link", "consume">>
Consuming == <<"consume">>
\* ... or only the owner of, ...
OwnAccount == <<"account", "person", "unit", "consume">>
OwnPerson == <<"person", "unit", "consume">>
OwnUnit == <<"unit", "consume">>
\* ... and by an account.
ConfirmPerson == <<"person", "phone", "unit", "link", "person", "consume">>
ConfirmPhone == <<"phone", "unit", "link", "person", "consume">>
ConfirmUnit == <<"unit", "link", "person", "consume">>
ConfirmLink == <<"link", "person", "consume">>
ConfirmAgain == <<"person", "consume">>
\* An assignment of a person, or of an account that has none yet.
AssignPersonLink == <<"person", "link", "unit">>
AssignPerson == <<"person", "unit">>
AssignNewLink == <<"new", "link", "unit">>
AssignNew == <<"new", "unit">>
AssignLink == <<"link", "unit">>
AssignUnit == <<"unit">>
\* An invitation.
InviteNewPerson == <<"new", "person", "replace", "send">>
InvitePerson == <<"person", "replace", "send">>
InviteNew == <<"new", "replace", "send">>
InviteReplace == <<"replace", "send">>
InviteSend == <<"send">>
\* A profile, a telephone, a responsible who is removed.
OnlyPerson == <<"person">>
OnlyNew == <<"new">>
StaffPhone == <<"staff", "person">>
OnlyForget == <<"forget">>

\* Once the person has been saved, the unit, the link.
AfterPerson == {JoinUnit, JoinLink, OwnUnit, ConfirmPhone, ConfirmUnit, ConfirmLink, ConfirmAgain, Consuming}
AfterUnit == {JoinLink, ConfirmLink, ConfirmAgain, Consuming}
AfterLink == {ConfirmAgain, Consuming}
Unlinked == {OwnAccount, OwnPerson, OwnUnit}

AcceptTodos == {JoinAccount, JoinPerson, OwnAccount, OwnPerson, ConfirmPerson} \cup AfterPerson
AssignTodos == {AssignPersonLink, AssignPerson, AssignNewLink, AssignNew, AssignLink, AssignUnit}
SendTodos == {InviteNew, InviteReplace, InviteSend}
InviteTodos == SendTodos \cup {InviteNewPerson, InvitePerson}

Todos(op) ==
    CASE op = "none" -> {<< >>}
      [] op = "accept" -> AcceptTodos
      [] op = "assign" -> AssignTodos
      [] op = "unit" -> SendTodos
      [] op = "condominium" -> InviteTodos
      [] op = "profile" -> {OnlyPerson, OnlyNew}
      [] op = "phone" -> {StaffPhone, OnlyPerson}
      [] OTHER -> {OnlyForget}

Ops == {"none", "accept", "assign", "unit", "condominium", "profile", "phone", "unlink"}
Programs == {<< >>, OnlyPerson, OnlyNew, StaffPhone, OnlyForget} \cup AcceptTodos \cup AssignTodos \cup InviteTodos

Call ==
    [op : Ops, todo : Programs, account : 0..MaxAccounts, person : 0..MaxPeople, row : Residents!Person,
     unit : Units \cup {Residents!SomeUnit}, unitRow : Residents!Unit, related : BOOLEAN,
     owned : 0..MaxPeople, known : SUBSET Nat, role : Residents!Roles, invite : Nat,
     email : Emails \cup {None}, phone : Phones \cup {None}]

\* The rows of the register: accounts and people that other rows name exist.
Registered ==
    /\ accounts \in Seq(Residents!Account) /\ people \in Seq(Residents!Person) /\ invites \in Seq(Residents!Invite)
    /\ Len(accounts) <= MaxAccounts /\ Len(people) <= MaxPeople
    /\ \A p \in 1..Len(people) : people[p].account \in 0..Len(accounts)
    /\ \A i \in 1..Len(invites) : invites[i].person \in 1..Len(people)
    /\ units \in [Units -> Residents!Unit] /\ links \subseteq Units \X (1..Len(people))
    /\ \A u \in Units : units[u].owner \in 0..Len(people) /\ units[u].financial \in 0..Len(people)

\* What a request holds for the steps it has left.
Holds(c) ==
    /\ c.todo \in Todos(c.op)
    /\ c.row.account \in 0..Len(accounts)
    /\ c.op \in {"accept", "assign", "unit", "condominium", "unlink"} => c.unit \in Units
    /\ c.op \notin {"none", "unlink"} /\ Head(c.todo) # "new" => c.person \in 1..Len(people)
    /\ c.op \in {"accept", "assign"} =>
          /\ c.owned \in 0..Len(people) /\ c.unitRow.financial \in 0..Len(people)
          /\ c.unitRow.owner \in 0..(IF Head(c.todo) = "new" THEN Len(people) + 1 ELSE Len(people))
    /\ c.op = "accept" => c.invite \in 1..Len(invites)
    /\ c.todo \in {ConfirmPerson, ConfirmPhone, StaffPhone} => c.account \in 1..Len(accounts)

\* What holds however requests overlap and stop: the rows name rows that exist, and a
\* request has one of the lists of steps of its operation, with what these need.
PeopleInv ==
    /\ Registered
    /\ calls \in [Slots -> Call] /\ crashed \in Nat
    /\ \A s \in Slots : Holds(calls[s])

\* One request at a time: what it loaded still holds.
Accepts(c) ==
    LET inv == invites[c.invite] IN
    /\ c.person = inv.person /\ c.unit = inv.unit /\ ~ c.related /\ (inv.owner => c.unitRow.owner = inv.person)
    /\ (Head(c.todo) = "account") <=> (c.row.account = 0)
    /\ c.todo \in AfterPerson => people[c.person].account # 0
    /\ c.todo \in AfterUnit => (inv.owner => units[c.unit].owner = inv.person)
    /\ c.todo \in AfterLink => (inv.responsible => <<c.unit, c.person>> \in links)
    /\ c.todo \in Unlinked => ~ inv.responsible

\* No open invitation to the condominium has a contact of the one about to be sent.
Replacing(c) ==
    \A i \in Residents!Open : invites[i].kind = "condominium" =>
        /\ c.email # None => invites[i].email # c.email
        /\ c.phone # None => invites[i].phone # c.phone

\* What a request loaded is still so: the account of its person, the roles an acceptance
\* has written so far, and, unless a request was cut short, the link of the responsible.
Current(c) ==
    /\ c.op \notin {"none", "unlink"} /\ Head(c.todo) # "new" => people[c.person].account \in {0, c.row.account}
    /\ c.op = "accept" => Accepts(c)
    /\ c.op = "condominium" /\ c.todo = InviteSend => Replacing(c)
    /\ crashed = 0 /\ c.op \in {"accept", "assign"} =>
          (c.unitRow.financial # 0 => <<c.unit, c.unitRow.financial>> \in links)

\* A financial responsible whose link is gone is about to go as well.
Forgetting(c, u) == c.op = "unlink" /\ c.unit = u /\ c.person \in {0, units[u].financial}

\* The invariant of requests that do not overlap.
PeopleSerial ==
    /\ Residents!OneOpenInvite
    /\ \A s \in Slots : Current(calls[s])
    /\ crashed = 0 =>
          \A u \in Units : units[u].financial # 0 =>
              <<u, units[u].financial>> \in links \/ \E s \in Slots : Forgetting(calls[s], u)

LEMMA AcceptSteps ==
  /\ JoinAccount # << >> /\ Head(JoinAccount) = "account" /\ Tail(JoinAccount) = JoinPerson
  /\ JoinPerson # << >> /\ Head(JoinPerson) = "person" /\ Tail(JoinPerson) = JoinUnit
  /\ JoinUnit # << >> /\ Head(JoinUnit) = "unit" /\ Tail(JoinUnit) = JoinLink
  /\ JoinLink # << >> /\ Head(JoinLink) = "link" /\ Tail(JoinLink) = Consuming
  /\ Consuming # << >> /\ Head(Consuming) = "consume" /\ Tail(Consuming) = << >>
  /\ OwnAccount # << >> /\ Head(OwnAccount) = "account" /\ Tail(OwnAccount) = OwnPerson
  /\ OwnPerson # << >> /\ Head(OwnPerson) = "person" /\ Tail(OwnPerson) = OwnUnit
  /\ OwnUnit # << >> /\ Head(OwnUnit) = "unit" /\ Tail(OwnUnit) = Consuming
<1>1. JoinAccount # << >> /\ Head(JoinAccount) = "account" /\ Tail(JoinAccount) = JoinPerson
  BY DEF JoinAccount, JoinPerson
<1>2. JoinPerson # << >> /\ Head(JoinPerson) = "person" /\ Tail(JoinPerson) = JoinUnit
  BY DEF JoinPerson, JoinUnit
<1>3. JoinUnit # << >> /\ Head(JoinUnit) = "unit" /\ Tail(JoinUnit) = JoinLink
  BY DEF JoinUnit, JoinLink
<1>4. JoinLink # << >> /\ Head(JoinLink) = "link" /\ Tail(JoinLink) = Consuming
  BY DEF JoinLink, Consuming
<1>5. Consuming # << >> /\ Head(Consuming) = "consume" /\ Tail(Consuming) = << >>
  BY DEF Consuming
<1>6. OwnAccount # << >> /\ Head(OwnAccount) = "account" /\ Tail(OwnAccount) = OwnPerson
  BY DEF OwnAccount, OwnPerson
<1>7. OwnPerson # << >> /\ Head(OwnPerson) = "person" /\ Tail(OwnPerson) = OwnUnit
  BY DEF OwnPerson, OwnUnit
<1>8. OwnUnit # << >> /\ Head(OwnUnit) = "unit" /\ Tail(OwnUnit) = Consuming
  BY DEF OwnUnit, Consuming
<1>9. QED
  BY <1>1, <1>2, <1>3, <1>4, <1>5, <1>6, <1>7, <1>8

LEMMA ConfirmSteps ==
  /\ ConfirmPerson # << >> /\ Head(ConfirmPerson) = "person" /\ Tail(ConfirmPerson) = ConfirmPhone
  /\ ConfirmPhone # << >> /\ Head(ConfirmPhone) = "phone" /\ Tail(ConfirmPhone) = ConfirmUnit
  /\ ConfirmUnit # << >> /\ Head(ConfirmUnit) = "unit" /\ Tail(ConfirmUnit) = ConfirmLink
  /\ ConfirmLink # << >> /\ Head(ConfirmLink) = "link" /\ Tail(ConfirmLink) = ConfirmAgain
  /\ ConfirmAgain # << >> /\ Head(ConfirmAgain) = "person" /\ Tail(ConfirmAgain) = Consuming
<1>1. ConfirmPerson # << >> /\ Head(ConfirmPerson) = "person" /\ Tail(ConfirmPerson) = ConfirmPhone
  BY DEF ConfirmPerson, ConfirmPhone
<1>2. ConfirmPhone # << >> /\ Head(ConfirmPhone) = "phone" /\ Tail(ConfirmPhone) = ConfirmUnit
  BY DEF ConfirmPhone, ConfirmUnit
<1>3. ConfirmUnit # << >> /\ Head(ConfirmUnit) = "unit" /\ Tail(ConfirmUnit) = ConfirmLink
  BY DEF ConfirmUnit, ConfirmLink
<1>4. ConfirmLink # << >> /\ Head(ConfirmLink) = "link" /\ Tail(ConfirmLink) = ConfirmAgain
  BY DEF ConfirmLink, ConfirmAgain
<1>5. ConfirmAgain # << >> /\ Head(ConfirmAgain) = "person" /\ Tail(ConfirmAgain) = Consuming
  BY DEF ConfirmAgain, Consuming
<1>6. QED
  BY <1>1, <1>2, <1>3, <1>4, <1>5

LEMMA AssignSteps ==
  /\ AssignPersonLink # << >> /\ Head(AssignPersonLink) = "person" /\ Tail(AssignPersonLink) = AssignLink
  /\ AssignPerson # << >> /\ Head(AssignPerson) = "person" /\ Tail(AssignPerson) = AssignUnit
  /\ AssignNewLink # << >> /\ Head(AssignNewLink) = "new" /\ Tail(AssignNewLink) = AssignLink
  /\ AssignNew # << >> /\ Head(AssignNew) = "new" /\ Tail(AssignNew) = AssignUnit
  /\ AssignLink # << >> /\ Head(AssignLink) = "link" /\ Tail(AssignLink) = AssignUnit
  /\ AssignUnit # << >> /\ Head(AssignUnit) = "unit" /\ Tail(AssignUnit) = << >>
<1>1. AssignPersonLink # << >> /\ Head(AssignPersonLink) = "person" /\ Tail(AssignPersonLink) = AssignLink
  BY DEF AssignPersonLink, AssignLink
<1>2. AssignPerson # << >> /\ Head(AssignPerson) = "person" /\ Tail(AssignPerson) = AssignUnit
  BY DEF AssignPerson, AssignUnit
<1>3. AssignNewLink # << >> /\ Head(AssignNewLink) = "new" /\ Tail(AssignNewLink) = AssignLink
  BY DEF AssignNewLink, AssignLink
<1>4. AssignNew # << >> /\ Head(AssignNew) = "new" /\ Tail(AssignNew) = AssignUnit
  BY DEF AssignNew, AssignUnit
<1>5. AssignLink # << >> /\ Head(AssignLink) = "link" /\ Tail(AssignLink) = AssignUnit
  BY DEF AssignLink, AssignUnit
<1>6. AssignUnit # << >> /\ Head(AssignUnit) = "unit" /\ Tail(AssignUnit) = << >>
  BY DEF AssignUnit
<1>7. QED
  BY <1>1, <1>2, <1>3, <1>4, <1>5, <1>6

LEMMA InviteSteps ==
  /\ InviteNewPerson # << >> /\ Head(InviteNewPerson) = "new" /\ Tail(InviteNewPerson) = InvitePerson
  /\ InvitePerson # << >> /\ Head(InvitePerson) = "person" /\ Tail(InvitePerson) = InviteReplace
  /\ InviteNew # << >> /\ Head(InviteNew) = "new" /\ Tail(InviteNew) = InviteReplace
  /\ InviteReplace # << >> /\ Head(InviteReplace) = "replace" /\ Tail(InviteReplace) = InviteSend
  /\ InviteSend # << >> /\ Head(InviteSend) = "send" /\ Tail(InviteSend) = << >>
<1>1. InviteNewPerson # << >> /\ Head(InviteNewPerson) = "new" /\ Tail(InviteNewPerson) = InvitePerson
  BY DEF InviteNewPerson, InvitePerson
<1>2. InvitePerson # << >> /\ Head(InvitePerson) = "person" /\ Tail(InvitePerson) = InviteReplace
  BY DEF InvitePerson, InviteReplace
<1>3. InviteNew # << >> /\ Head(InviteNew) = "new" /\ Tail(InviteNew) = InviteReplace
  BY DEF InviteNew, InviteReplace
<1>4. InviteReplace # << >> /\ Head(InviteReplace) = "replace" /\ Tail(InviteReplace) = InviteSend
  BY DEF InviteReplace, InviteSend
<1>5. InviteSend # << >> /\ Head(InviteSend) = "send" /\ Tail(InviteSend) = << >>
  BY DEF InviteSend
<1>6. QED
  BY <1>1, <1>2, <1>3, <1>4, <1>5

LEMMA OtherSteps ==
  /\ OnlyPerson # << >> /\ Head(OnlyPerson) = "person" /\ Tail(OnlyPerson) = << >>
  /\ OnlyNew # << >> /\ Head(OnlyNew) = "new" /\ Tail(OnlyNew) = << >>
  /\ StaffPhone # << >> /\ Head(StaffPhone) = "staff" /\ Tail(StaffPhone) = OnlyPerson
  /\ OnlyForget # << >> /\ Head(OnlyForget) = "forget" /\ Tail(OnlyForget) = << >>
<1>1. OnlyPerson # << >> /\ Head(OnlyPerson) = "person" /\ Tail(OnlyPerson) = << >>
  BY DEF OnlyPerson
<1>2. OnlyNew # << >> /\ Head(OnlyNew) = "new" /\ Tail(OnlyNew) = << >>
  BY DEF OnlyNew
<1>3. StaffPhone # << >> /\ Head(StaffPhone) = "staff" /\ Tail(StaffPhone) = OnlyPerson
  BY DEF StaffPhone, OnlyPerson
<1>4. OnlyForget # << >> /\ Head(OnlyForget) = "forget" /\ Tail(OnlyForget) = << >>
  BY DEF OnlyForget
<1>5. QED
  BY <1>1, <1>2, <1>3, <1>4

\* What the steps that are left say of those after the next one.
LEMMA TodosGoOn ==
  ASSUME NEW op \in Ops, NEW t \in Todos(op), t # << >>
  PROVE  \/ Tail(t) = << >>
         \/ /\ Tail(t) # << >> /\ Tail(t) \in Todos(op) /\ Tail(t) \in Programs
            /\ Head(Tail(t)) \notin {"new", "account"}
            /\ Tail(t) \notin {ConfirmPerson, StaffPhone}
            /\ Tail(t) = ConfirmPhone => t = ConfirmPerson
<1>1. CASE op = "none"
  BY <1>1 DEF Todos
<1>2. CASE op = "accept"
  <2>1. t \in AcceptTodos
    BY <1>2 DEF Todos
  <2>2. /\ Tail(t) = << >> \/ (Tail(t) # << >> /\ Tail(t) \in AcceptTodos)
        /\ Tail(t) # << >> => Head(Tail(t)) \notin {"new", "account"}
        /\ Tail(t) # ConfirmPerson
        /\ Tail(t) = ConfirmPhone => t = ConfirmPerson
    <3>1. /\ Tail(t) = << >> \/ (Tail(t) # << >> /\ Tail(t) \in AcceptTodos)
          /\ Tail(t) # << >> => Head(Tail(t)) \notin {"new", "account"}
      <4>1. CASE t \in {JoinAccount, JoinPerson, JoinUnit, JoinLink, Consuming}
        BY <4>1, AcceptSteps DEF AcceptTodos, AfterPerson
      <4>2. CASE t \in {OwnAccount, OwnPerson, OwnUnit}
        BY <4>2, AcceptSteps DEF AcceptTodos, AfterPerson
      <4>3. CASE t \in {ConfirmPerson, ConfirmPhone, ConfirmUnit, ConfirmLink, ConfirmAgain}
        BY <4>3, AcceptSteps, ConfirmSteps DEF AcceptTodos, AfterPerson
      <4>4. QED
        BY <2>1, <4>1, <4>2, <4>3 DEF AcceptTodos, AfterPerson
    <3>2. Tail(t) # ConfirmPerson /\ (Tail(t) = ConfirmPhone => t = ConfirmPerson)
      <4>1. CASE t \in {JoinAccount, JoinPerson, JoinUnit, JoinLink, Consuming}
        BY <4>1, AcceptSteps, ConfirmSteps
      <4>2. CASE t \in {OwnAccount, OwnPerson, OwnUnit}
        BY <4>2, AcceptSteps, ConfirmSteps
      <4>3. CASE t \in {ConfirmPerson, ConfirmPhone, ConfirmUnit, ConfirmLink, ConfirmAgain}
        BY <4>3, AcceptSteps, ConfirmSteps
      <4>4. QED
        BY <2>1, <4>1, <4>2, <4>3 DEF AcceptTodos, AfterPerson
    <3>3. QED
      BY <3>1, <3>2
  <2>3. StaffPhone \notin AcceptTodos
    BY AcceptSteps, ConfirmSteps, OtherSteps DEF AcceptTodos, AfterPerson
  <2>4. QED
    BY <2>2, <2>3, <1>2 DEF Todos, Programs
<1>3. CASE op = "assign"
  <2>1. t \in AssignTodos
    BY <1>3 DEF Todos
  <2>2. /\ Tail(t) = << >> \/ (Tail(t) # << >> /\ Tail(t) \in {AssignLink, AssignUnit})
    BY <2>1, AssignSteps DEF AssignTodos
  <2>3. QED
    BY <2>2, <1>3, AssignSteps, ConfirmSteps, OtherSteps DEF Todos, Programs, AssignTodos
<1>4. CASE op \in {"unit", "condominium"}
  <2>1. t \in InviteTodos
    BY <1>4 DEF Todos, InviteTodos
  <2>2. /\ Tail(t) = << >> \/ Tail(t) \in {InvitePerson, InviteReplace, InviteSend}
        /\ op = "unit" => Tail(t) # InvitePerson
    BY <2>1, <1>4, InviteSteps DEF InviteTodos, SendTodos, Todos
  <2>3. Tail(t) # << >> => Tail(t) \notin {ConfirmPerson, ConfirmPhone, StaffPhone}
    <3>1. Tail(ConfirmPerson) # InviteReplace
      BY ConfirmSteps, InviteSteps
    <3>2. QED
      BY <3>1, <2>2, InviteSteps, ConfirmSteps, OtherSteps
  <2>4. QED
    BY <2>2, <2>3, <1>4, InviteSteps DEF Todos, Programs, InviteTodos, SendTodos
<1>5. CASE op \in {"profile", "phone", "unlink"}
  <2>1. t \in {OnlyPerson, OnlyNew, StaffPhone, OnlyForget} /\ (t = StaffPhone => op = "phone")
    BY <1>5, OtherSteps DEF Todos
  <2>2. Tail(t) = << >> \/ (Tail(t) = OnlyPerson /\ op = "phone")
    BY <2>1, OtherSteps
  <2>3. OnlyPerson \notin {ConfirmPerson, ConfirmPhone, StaffPhone}
    <3>1. Tail(OnlyPerson) # Tail(ConfirmPerson)
      BY OtherSteps, ConfirmSteps
    <3>2. QED
      BY <3>1, OtherSteps, ConfirmSteps
  <2>4. QED
    BY <2>2, <2>3, OtherSteps DEF Todos, Programs
<1>6. QED
  BY <1>1, <1>2, <1>3, <1>4, <1>5 DEF Ops

\* The requests that have a step to do.
LEMMA StepOwners ==
  ASSUME NEW op \in Ops, NEW t \in Todos(op), t # << >>
  PROVE  /\ op # "none"
         /\ Head(t) = "account" => op = "accept" /\ t \in {JoinAccount, OwnAccount}
         /\ Head(t) = "new" => op \in {"assign", "unit", "condominium", "profile"}
         /\ Head(t) = "person" => op \notin {"none", "unlink"}
         /\ Head(t) \in {"link", "unit"} => op \in {"accept", "assign"}
         /\ Head(t) \in {"replace", "send"} => op \in {"unit", "condominium"}
         /\ Head(t) = "replace" => t = InviteReplace
         /\ Head(t) = "send" => t = InviteSend
         /\ Head(t) = "phone" => op = "accept" /\ t = ConfirmPhone
         /\ Head(t) = "staff" => op = "phone" /\ t = StaffPhone
         /\ Head(t) = "consume" => op = "accept" /\ t = Consuming
         /\ Head(t) = "forget" => op = "unlink"
<1>1. CASE op = "none"
  BY <1>1 DEF Todos
<1>2. CASE op = "accept"
  BY <1>2, AcceptSteps, ConfirmSteps DEF Todos, AcceptTodos, AfterPerson
<1>3. CASE op = "assign"
  BY <1>3, AssignSteps DEF Todos, AssignTodos
<1>4. CASE op \in {"unit", "condominium"}
  BY <1>4, InviteSteps DEF Todos, SendTodos, InviteTodos
<1>5. CASE op \in {"profile", "phone", "unlink"}
  BY <1>5, OtherSteps DEF Todos
<1>6. QED
  BY <1>1, <1>2, <1>3, <1>4, <1>5 DEF Ops

\* Numbers of rows are what the columns of the tables hold.
ResidentParameters == MaxAccounts \in Nat /\ MaxPeople \in Nat

LEMMA NoCallHolds ==
  ASSUME ResidentParameters, Registered
  PROVE  Residents!NoCall \in Call /\ Residents!NoCall.op = "none" /\ Residents!NoCall.todo = << >> /\ Holds(Residents!NoCall)
<1>1. PICK c : c = Residents!NoCall
  OBVIOUS
<1>2. c \in Call /\ c.op = "none" /\ c.todo = << >> /\ c.row.account = 0
  <2>1. Residents!NoPerson \in Residents!Person /\ Residents!NoUnit \in Residents!Unit /\ << >> \in Programs
        /\ "owner" \in Residents!Roles /\ Residents!NoPerson.account = 0
    BY DEF Residents!NoPerson, Residents!Person, Residents!NoUnit, Residents!Unit, Programs, Residents!Roles,
           ResidentParameters
  <2>2. QED
    BY <1>1, <2>1 DEF Residents!NoCall, Call, Ops, ResidentParameters
<1>3. Len(accounts) \in Nat
  BY DEF Registered
<1>4. << >> \notin {ConfirmPerson, ConfirmPhone, StaffPhone}
  BY ConfirmSteps, OtherSteps
<1>5. Holds(c)
  BY <1>2, <1>3, <1>4 DEF Holds, Todos
<1>6. QED
  BY <1>1, <1>2, <1>5

\* Rows are added, none is taken away.
Grows == Len(accounts) <= Len(accounts') /\ Len(people) <= Len(people') /\ Len(invites) <= Len(invites')

LEMMA HoldsOn ==
  ASSUME Registered, Registered', Grows, NEW c, Holds(c) PROVE Holds(c)'
<1>1. /\ Len(accounts) \in Nat /\ Len(people) \in Nat /\ Len(invites) \in Nat
      /\ Len(accounts') \in Nat /\ Len(people') \in Nat /\ Len(invites') \in Nat
  BY DEF Registered
<1>2. /\ \A n \in 0..Len(accounts) : n \in 0..Len(accounts')
      /\ \A n \in 1..Len(accounts) : n \in 1..Len(accounts')
      /\ \A n \in 0..Len(people) : n \in 0..Len(people')
      /\ \A n \in 1..Len(people) : n \in 1..Len(people')
      /\ \A n \in 0..(Len(people) + 1) : n \in 0..(Len(people') + 1)
      /\ \A n \in 1..Len(invites) : n \in 1..Len(invites')
  BY <1>1 DEF Grows
<1>3. QED
  BY <1>2 DEF Holds

LEMMA PeopleMoves ==
  ASSUME PeopleInv, NEW s \in Slots, NEW c \in Call, calls' = [calls EXCEPT ![s] = c],
         Registered', Grows, Holds(c)', crashed' \in Nat
  PROVE  PeopleInv'
<1>1. calls' \in [Slots -> Call] /\ calls'[s] = c /\ \A v \in Slots \ {s} : calls'[v] = calls[v]
  BY DEF PeopleInv
<1>2. ASSUME NEW v \in Slots PROVE Holds(calls[v])'
  <2>1. PICK d : d = calls'[v]
    OBVIOUS
  <2>2. CASE v = s
    BY <2>2, <1>1 DEF Holds
  <2>3. CASE v # s
    <3>1. Holds(d)
      BY <2>1, <2>3, <1>1 DEF PeopleInv
    <3>2. Holds(d)'
      BY <3>1, HoldsOn DEF PeopleInv
    <3>3. QED
      BY <2>1, <3>2 DEF Holds
  <2>4. QED
    BY <2>2, <2>3
<1>3. QED
  BY <1>1, <1>2 DEF PeopleInv

\* A step of nobody in particular.
LEMMA PeopleStay ==
  ASSUME PeopleInv, calls' = calls, Registered', Grows, crashed' \in Nat PROVE PeopleInv'
<1>1. ASSUME NEW v \in Slots PROVE Holds(calls[v])'
  <2>1. PICK d : d = calls[v]
    OBVIOUS
  <2>2. Holds(d)'
    BY <2>1, HoldsOn DEF PeopleInv
  <2>3. QED
    BY <2>1, <2>2 DEF Holds
<1>2. QED
  BY <1>1 DEF PeopleInv

LEMMA PeopleEnd ==
  ASSUME ResidentParameters, PeopleInv, NEW s \in Slots, Residents!Ends(s), Registered', Grows, crashed' \in Nat
  PROVE  PeopleInv'
<1>1. PICK c : c = Residents!NoCall
  OBVIOUS
<1>2. c \in Call /\ Holds(c)
  BY <1>1, NoCallHolds DEF PeopleInv
<1>3. Holds(c)'
  BY <1>2, HoldsOn DEF PeopleInv
<1>4. calls' = [calls EXCEPT ![s] = c]
  BY <1>1 DEF Residents!Ends
<1>5. QED
  BY <1>2, <1>3, <1>4, PeopleMoves

\* A request after a step: at most the person it is about has changed, and its row.
After(q, c) ==
    /\ c.op = q.op /\ c.todo = q.todo /\ c.unit = q.unit /\ c.unitRow = q.unitRow /\ c.related = q.related
    /\ c.owned = q.owned /\ c.invite = q.invite /\ c.account = q.account /\ c.email = q.email /\ c.phone = q.phone

LEMMA PeopleGoOn ==
  ASSUME ResidentParameters, PeopleInv, NEW s \in Slots, NEW q \in Call, q = calls[s], q.todo # << >>,
         NEW c \in Call, After(q, c), Residents!Continues(s, c), Registered', Grows, crashed' = crashed,
         c.row.account \in 0..Len(accounts'), q.op # "unlink" => c.person \in 1..Len(people'),
         Head(q.todo) = "new" => Len(people') = Len(people) + 1
  PROVE  PeopleInv'
<1>1. q.op \in Ops /\ q.todo \in Todos(q.op) /\ Holds(q) /\ c.todo = q.todo /\ q.op # "none" /\ crashed' \in Nat
  <2>1. q.op \in Ops /\ Holds(q) /\ crashed' \in Nat /\ c.todo = q.todo
    BY DEF PeopleInv, Call, After
  <2>2. q.todo \in Todos(q.op)
    BY <2>1 DEF Holds
  <2>3. QED
    BY <2>1, <2>2, StepOwners
<1>2. CASE Tail(q.todo) = << >>
  <2>1. Residents!Ends(s)
    BY <1>1, <1>2 DEF Residents!Continues, Residents!Ends
  <2>2. QED
    BY <2>1, <1>1, PeopleEnd
<1>3. CASE Tail(q.todo) # << >>
  <2>1. PICK r : r = [c EXCEPT !.todo = Tail(q.todo)]
    OBVIOUS
  <2>2. calls' = [calls EXCEPT ![s] = r]
    <3>1. [c EXCEPT !.todo = Tail(@)] = r
      BY <2>1, <1>1 DEF Call
    <3>2. QED
      BY <3>1, <1>1, <1>3 DEF Residents!Continues
  <2>3. /\ Tail(q.todo) \in Todos(q.op) /\ Tail(q.todo) \in Programs /\ Head(Tail(q.todo)) # "new"
        /\ Tail(q.todo) \notin {ConfirmPerson, StaffPhone}
        /\ Tail(q.todo) = ConfirmPhone => q.todo = ConfirmPerson
    BY <1>1, <1>3, TodosGoOn
  <2>4. /\ r \in Call /\ r.todo = Tail(q.todo) /\ r.op = q.op /\ r.unit = q.unit /\ r.unitRow = q.unitRow
        /\ r.owned = q.owned /\ r.invite = q.invite /\ r.account = q.account
        /\ r.person = c.person /\ r.row = c.row
    BY <2>1, <2>3 DEF Call, After
  <2>5. Holds(q)'
    BY <1>1, HoldsOn DEF PeopleInv
  <2>6. /\ Len(people) \in Nat /\ Len(people') \in Nat /\ Len(people) <= Len(people')
    BY DEF PeopleInv, Registered, Grows
  <2>7. q.op \in {"accept", "assign"} => q.unitRow.owner \in 0..Len(people')
    <3>1. CASE Head(q.todo) = "new"
      BY <3>1, <2>6, <1>1 DEF Holds
    <3>2. CASE Head(q.todo) # "new"
      BY <3>2, <2>6, <1>1 DEF Holds
    <3>3. QED
      BY <3>1, <3>2
  <2>8. Holds(r)'
    BY <2>3, <2>4, <2>5, <2>7, <1>1 DEF Holds
  <2>9. QED
    BY <2>2, <2>4, <2>8, <1>1, PeopleMoves
<1>4. QED
  BY <1>2, <1>3

LEMMA RegisterAccounts ==
  ASSUME Registered, UNCHANGED <<people, units, links, invites>>, accounts' \in Seq(Residents!Account),
         Len(accounts) <= Len(accounts'), Len(accounts') <= MaxAccounts
  PROVE  Registered' /\ Grows
<1>1. \A n \in 0..Len(accounts) : n \in 0..Len(accounts')
  BY DEF Registered
<1>2. Len(people) \in Nat /\ Len(invites) \in Nat
  BY DEF Registered
<1>3. QED
  BY <1>1, <1>2 DEF Registered, Grows

LEMMA RegisterPeople ==
  ASSUME Registered, UNCHANGED <<accounts, units, links, invites>>, people' \in Seq(Residents!Person),
         Len(people) <= Len(people'), Len(people') <= MaxPeople,
         \A p \in 1..Len(people') : people'[p].account \in 0..Len(accounts)
  PROVE  Registered' /\ Grows
<1>1. (\A n \in 0..Len(people) : n \in 0..Len(people')) /\ (\A n \in 1..Len(people) : n \in 1..Len(people'))
  BY DEF Registered
<1>2. Len(accounts) \in Nat /\ Len(invites) \in Nat
  BY DEF Registered
<1>3. links' \subseteq Units \X (1..Len(people'))
  BY <1>1 DEF Registered
<1>4. QED
  BY <1>1, <1>2, <1>3 DEF Registered, Grows

LEMMA RegisterUnits ==
  ASSUME Registered, UNCHANGED <<accounts, people, invites>>, units' \in [Units -> Residents!Unit],
         links' \subseteq Units \X (1..Len(people)),
         \A u \in Units : units'[u].owner \in 0..Len(people) /\ units'[u].financial \in 0..Len(people)
  PROVE  Registered' /\ Grows
BY DEF Registered, Grows

LEMMA RegisterInvites ==
  ASSUME Registered, UNCHANGED <<accounts, people, units, links>>, invites' \in Seq(Residents!Invite),
         Len(invites) <= Len(invites'), \A i \in 1..Len(invites') : invites'[i].person \in 1..Len(people)
  PROVE  Registered' /\ Grows
<1>1. Len(accounts) \in Nat /\ Len(people) \in Nat
  BY DEF Registered
<1>2. QED
  BY <1>1 DEF Registered, Grows

LEMMA RegisterSame ==
  ASSUME Registered, UNCHANGED <<accounts, people, units, links, invites>> PROVE Registered' /\ Grows
<1>1. Len(accounts) \in Nat /\ Len(people) \in Nat /\ Len(invites) \in Nat
  BY DEF Registered
<1>2. QED
  BY <1>1 DEF Registered, Grows

LEMMA AccountsCreated ==
  ASSUME ResidentParameters, PeopleInv, NEW s \in Slots, Residents!CreateAccount(s) PROVE PeopleInv'
<1>1. PICK q \in Call : q = calls[s] /\ Holds(q)
  BY DEF PeopleInv
<1>2. PICK row : row = [email |-> q.email, phone |-> q.phone]
  OBVIOUS
<1>3. PICK n : n = Len(accounts) + 1
  OBVIOUS
<1>4. PICK c : c = [q EXCEPT !.row.account = n]
  OBVIOUS
<1>5. /\ q.todo # << >> /\ Head(q.todo) = "account" /\ Len(accounts) < MaxAccounts
      /\ Residents!DoneOrRefused(s, Residents!AccountFits(0, row), accounts' = Append(accounts, row), accounts, c)
      /\ UNCHANGED <<people, units, links, invites, requests, crashed>>
  BY <1>1, <1>2, <1>3, <1>4 DEF Residents!CreateAccount, Residents!Does
<1>6. Registered /\ crashed \in Nat /\ Len(accounts) \in Nat /\ n \in 0..MaxAccounts
  BY <1>3, <1>5 DEF PeopleInv, Registered, ResidentParameters
<1>7. q.op = "accept"
  <2>1. q.op \in Ops /\ q.todo \in Todos(q.op)
    BY <1>1 DEF Call, Holds
  <2>2. QED
    BY <2>1, <1>5, StepOwners
<1>8. CASE accounts' = accounts /\ Residents!Ends(s)
  BY <1>5, <1>6, <1>8, RegisterSame, PeopleEnd
<1>9. CASE accounts' = Append(accounts, row) /\ Residents!Continues(s, c)
  <2>1. row \in Residents!Account
    BY <1>2 DEF Call, Residents!Account
  <2>2. accounts' \in Seq(Residents!Account) /\ Len(accounts') = n
    BY <2>1, <1>3, <1>6, <1>9 DEF Registered
  <2>3. Registered' /\ Grows
    BY <2>2, <1>3, <1>5, <1>6, RegisterAccounts
  <2>4. q.row \in Residents!Person
    BY DEF Call
  <2>5. c \in Call /\ c.row.account = n /\ c.person = q.person /\ After(q, c)
    <3>1. PICK r : r = [q.row EXCEPT !.account = n]
      OBVIOUS
    <3>2. r \in Residents!Person /\ r.account = n
      BY <3>1, <2>4, <1>6 DEF Residents!Person
    <3>3. c = [q EXCEPT !.row = r]
      BY <3>1, <1>4
    <3>4. QED
      BY <3>2, <3>3 DEF Call, After
  <2>6. q.person \in 1..Len(people)
    BY <1>1, <1>5, <1>7 DEF Holds
  <2>7. QED
    BY <2>2, <2>3, <2>5, <2>6, <1>1, <1>3, <1>5, <1>6, <1>9, PeopleGoOn
<1>10. QED
  BY <1>5, <1>8, <1>9 DEF Residents!DoneOrRefused

\* A row that takes the contacts it lacks.
LEMMA FilledIn ==
  ASSUME NEW row \in Residents!Person, NEW c \in Call
  PROVE  Residents!Filled(row, c) \in Residents!Person /\ Residents!Filled(row, c).account = row.account
<1>1. c.email \in Emails \cup {None} /\ c.phone \in Phones \cup {None}
  BY DEF Call
<1>2. QED
  BY <1>1 DEF Residents!Filled, Residents!Person

LEMMA PeopleCreated ==
  ASSUME ResidentParameters, PeopleInv, NEW s \in Slots, Residents!CreatePerson(s) PROVE PeopleInv'
<1>1. PICK q \in Call : q = calls[s] /\ Holds(q)
  BY DEF PeopleInv
<1>2. PICK n : n = Len(people) + 1
  OBVIOUS
<1>3. PICK row : row = Residents!Filled(q.row, q)
  OBVIOUS
<1>4. PICK c : c = [q EXCEPT !.person = n, !.row = row]
  OBVIOUS
<1>5. /\ q.todo # << >> /\ Head(q.todo) = "new" /\ Len(people) < MaxPeople
      /\ Residents!DoneOrRefused(s, Residents!PersonFits(0, q.row), people' = Append(people, q.row), people, c)
      /\ UNCHANGED <<accounts, units, links, invites, requests, crashed>>
  BY <1>1, <1>2, <1>3, <1>4 DEF Residents!CreatePerson, Residents!Does
<1>6. Registered /\ crashed \in Nat /\ Len(people) \in Nat /\ n \in 0..MaxPeople /\ n \in 1..n
  BY <1>2, <1>5 DEF PeopleInv, Registered, ResidentParameters
<1>7. CASE people' = people /\ Residents!Ends(s)
  BY <1>5, <1>6, <1>7, RegisterSame, PeopleEnd
<1>8. CASE people' = Append(people, q.row) /\ Residents!Continues(s, c)
  <2>1. q.row \in Residents!Person /\ q.row.account \in 0..Len(accounts)
    BY <1>1 DEF Call, Holds
  <2>2. people' \in Seq(Residents!Person) /\ Len(people') = n /\ \A p \in 1..n : people'[p] = IF p = n THEN q.row ELSE people[p]
    BY <2>1, <1>2, <1>6, <1>8 DEF Registered
  <2>3. /\ Len(people) <= Len(people') /\ Len(people') <= MaxPeople
        /\ \A p \in 1..Len(people') : people'[p].account \in 0..Len(accounts)
    <3>1. \A p \in 1..Len(people) : people[p].account \in 0..Len(accounts)
      BY <1>6 DEF Registered
    <3>2. \A p \in 1..n : p = n \/ p \in 1..Len(people)
      BY <1>2, <1>6
    <3>3. QED
      BY <3>1, <3>2, <2>1, <2>2, <1>2, <1>6 DEF ResidentParameters
  <2>4. Registered' /\ Grows
    BY <2>2, <2>3, <1>5, <1>6, RegisterPeople
  <2>5. row \in Residents!Person /\ row.account = q.row.account
    BY <2>1, <1>3, FilledIn
  <2>6. c \in Call /\ c.row = row /\ c.person = n /\ After(q, c)
    BY <2>5, <1>4, <1>6 DEF Call, After
  <2>7. QED
    BY <2>1, <2>2, <2>4, <2>5, <2>6, <1>1, <1>2, <1>5, <1>6, <1>8, PeopleGoOn
<1>9. QED
  BY <1>5, <1>7, <1>8 DEF Residents!DoneOrRefused

LEMMA SameAfter == ASSUME NEW q PROVE After(q, q)
BY DEF After

LEMMA PeopleSaved ==
  ASSUME ResidentParameters, PeopleInv, NEW s \in Slots, Residents!SavePerson(s) PROVE PeopleInv'
<1>1. PICK q \in Call : q = calls[s] /\ Holds(q)
  BY DEF PeopleInv
<1>2. /\ q.todo # << >> /\ Head(q.todo) = "person"
      /\ Residents!DoneOrRefused(s, Residents!PersonFits(q.person, q.row),
                                 people' = [people EXCEPT ![q.person] = q.row], people, q)
      /\ UNCHANGED <<accounts, units, links, invites, requests, crashed>>
  BY <1>1 DEF Residents!SavePerson, Residents!Does
<1>3. Registered /\ crashed \in Nat
  BY DEF PeopleInv
<1>4. q.person \in 1..Len(people) /\ q.row \in Residents!Person /\ q.row.account \in 0..Len(accounts)
  <2>1. q.op \in Ops /\ q.todo \in Todos(q.op)
    BY <1>1 DEF Call, Holds
  <2>2. q.op \notin {"none", "unlink"}
    BY <2>1, <1>2, StepOwners
  <2>3. QED
    BY <2>2, <1>1, <1>2 DEF Call, Holds
<1>5. CASE people' = people /\ Residents!Ends(s)
  BY <1>2, <1>3, <1>5, RegisterSame, PeopleEnd
<1>6. CASE people' = [people EXCEPT ![q.person] = q.row] /\ Residents!Continues(s, q)
  <2>1. people' \in Seq(Residents!Person) /\ Len(people') = Len(people) /\ Len(people) \in Nat
        /\ \A p \in 1..Len(people) : people'[p] = IF p = q.person THEN q.row ELSE people[p]
    BY <1>3, <1>4, <1>6, ExceptSeq DEF Registered
  <2>2. /\ Len(people) <= Len(people') /\ Len(people') <= MaxPeople
        /\ \A p \in 1..Len(people') : people'[p].account \in 0..Len(accounts)
    BY <2>1, <1>3, <1>4 DEF Registered
  <2>3. Registered' /\ Grows
    BY <2>1, <2>2, <1>2, <1>3, RegisterPeople
  <2>4. QED
    BY <2>1, <2>3, <1>1, <1>2, <1>4, <1>6, SameAfter, PeopleGoOn
<1>7. QED
  BY <1>2, <1>5, <1>6 DEF Residents!DoneOrRefused

LEMMA PersonLinked ==
  ASSUME ResidentParameters, PeopleInv, NEW s \in Slots, Residents!LinkPerson(s) PROVE PeopleInv'
<1>1. PICK q \in Call : q = calls[s] /\ Holds(q)
  BY DEF PeopleInv
<1>2. /\ q.todo # << >> /\ Head(q.todo) = "link"
      /\ links' = links \cup {<<q.unit, q.person>>} /\ Residents!Continues(s, q)
      /\ UNCHANGED <<accounts, people, units, invites, requests, crashed>>
  BY <1>1 DEF Residents!LinkPerson, Residents!Does
<1>3. Registered
  BY DEF PeopleInv
<1>4. q.person \in 1..Len(people) /\ q.unit \in Units /\ q.row.account \in 0..Len(accounts)
  <2>1. q.op \in Ops /\ q.todo \in Todos(q.op)
    BY <1>1 DEF Call, Holds
  <2>2. q.op \in {"accept", "assign"}
    BY <2>1, <1>2, StepOwners
  <2>3. QED
    BY <2>2, <1>1, <1>2 DEF Holds
<1>5. Registered' /\ Grows
  <2>1. links' \subseteq Units \X (1..Len(people))
    BY <1>2, <1>3, <1>4 DEF Registered
  <2>2. QED
    BY <2>1, <1>2, <1>3, RegisterUnits DEF Registered
<1>6. QED
  BY <1>1, <1>2, <1>4, <1>5, SameAfter, PeopleGoOn

\* The owner that is written.
LEMMA UnitKept ==
  ASSUME ResidentParameters, Registered, NEW q \in Call, Holds(q), q.op \in {"accept", "assign"}, Head(q.todo) # "new"
  PROVE  /\ Residents!UnitWritten(q) \in Residents!Unit
         /\ Residents!UnitWritten(q).owner = (IF q.related /\ q.owned # 0 THEN q.owned ELSE q.unitRow.owner)
         /\ Residents!UnitWritten(q).financial = q.unitRow.financial
         /\ Residents!UnitWritten(q).owner \in 0..Len(people) /\ Residents!UnitWritten(q).financial \in 0..Len(people)
<1>1. q.unitRow \in Residents!Unit /\ q.owned \in 0..MaxPeople
  BY DEF Call
<1>2. q.owned \in 0..Len(people) /\ q.unitRow.owner \in 0..Len(people) /\ q.unitRow.financial \in 0..Len(people)
  BY DEF Holds
<1>3. PICK o : o = IF q.related /\ q.owned # 0 THEN q.owned ELSE q.unitRow.owner
  OBVIOUS
<1>4. o \in 0..MaxPeople /\ o \in 0..Len(people)
  BY <1>1, <1>2, <1>3 DEF Residents!Unit
<1>5. Residents!UnitWritten(q) = [q.unitRow EXCEPT !.owner = o]
  BY <1>3 DEF Residents!UnitWritten
<1>6. QED
  BY <1>1, <1>2, <1>3, <1>4, <1>5 DEF Residents!Unit

LEMMA UnitSaved ==
  ASSUME ResidentParameters, PeopleInv, NEW s \in Slots, Residents!SaveUnit(s) PROVE PeopleInv'
<1>1. PICK q \in Call : q = calls[s] /\ Holds(q)
  BY DEF PeopleInv
<1>2. PICK w : w = Residents!UnitWritten(q)
  OBVIOUS
<1>3. /\ q.todo # << >> /\ Head(q.todo) = "unit"
      /\ Residents!DoneOrRefused(s, Residents!Orphans(q) = {}, units' = [units EXCEPT ![q.unit] = w], units, q)
      /\ UNCHANGED <<accounts, people, links, invites, requests, crashed>>
  BY <1>1, <1>2 DEF Residents!SaveUnit, Residents!Does
<1>4. Registered /\ crashed \in Nat
  BY DEF PeopleInv
<1>5. /\ q.person \in 1..Len(people) /\ q.unit \in Units /\ q.row.account \in 0..Len(accounts)
      /\ q.op \in {"accept", "assign"}
  <2>1. q.op \in Ops /\ q.todo \in Todos(q.op)
    BY <1>1 DEF Call, Holds
  <2>2. q.op \in {"accept", "assign"}
    BY <2>1, <1>3, StepOwners
  <2>3. QED
    BY <2>2, <1>1, <1>3 DEF Holds
<1>6. w \in Residents!Unit /\ w.owner \in 0..Len(people) /\ w.financial \in 0..Len(people)
  BY <1>1, <1>2, <1>3, <1>4, <1>5, UnitKept
<1>7. CASE units' = units /\ Residents!Ends(s)
  BY <1>3, <1>4, <1>7, RegisterSame, PeopleEnd
<1>8. CASE units' = [units EXCEPT ![q.unit] = w] /\ Residents!Continues(s, q)
  <2>1. /\ units' \in [Units -> Residents!Unit]
        /\ \A u \in Units : units'[u] = IF u = q.unit THEN w ELSE units[u]
    BY <1>4, <1>5, <1>6, <1>8 DEF Registered
  <2>2. \A u \in Units : units'[u].owner \in 0..Len(people) /\ units'[u].financial \in 0..Len(people)
    BY <2>1, <1>4, <1>6 DEF Registered
  <2>3. links' \subseteq Units \X (1..Len(people))
    BY <1>3, <1>4 DEF Registered
  <2>4. Registered' /\ Grows
    BY <2>1, <2>2, <2>3, <1>3, <1>4, RegisterUnits
  <2>5. QED
    BY <2>4, <1>1, <1>3, <1>5, <1>8, SameAfter, PeopleGoOn
<1>9. QED
  BY <1>3, <1>7, <1>8 DEF Residents!DoneOrRefused

\* An invitation that is settled one way or another.
LEMMA InviteStates ==
  ASSUME NEW inv \in Residents!Invite, NEW state \in {"pending", "expired", "consumed", "removed"}
  PROVE  /\ [inv EXCEPT !.state = state] \in Residents!Invite
         /\ [inv EXCEPT !.state = state].state = state
         /\ [inv EXCEPT !.state = state].kind = inv.kind /\ [inv EXCEPT !.state = state].person = inv.person
         /\ [inv EXCEPT !.state = state].email = inv.email /\ [inv EXCEPT !.state = state].phone = inv.phone
BY DEF Residents!Invite

LEMMA InvitesReplaced ==
  ASSUME ResidentParameters, PeopleInv, NEW s \in Slots, Residents!ReplaceInvites(s) PROVE PeopleInv'
<1>1. PICK q \in Call : q = calls[s] /\ Holds(q)
  BY DEF PeopleInv
<1>2. PICK gone : gone = Residents!Replaced(q)
  OBVIOUS
<1>3. /\ q.todo # << >> /\ Head(q.todo) = "replace"
      /\ invites' = [i \in DOMAIN invites |->
                       IF i \in gone THEN [invites[i] EXCEPT !.state = "removed"] ELSE invites[i]]
      /\ Residents!Continues(s, q)
      /\ UNCHANGED <<accounts, people, units, links, requests, crashed>>
  BY <1>1, <1>2 DEF Residents!ReplaceInvites, Residents!Does
<1>4. Registered
  BY DEF PeopleInv
<1>5. q.person \in 1..Len(people) /\ q.row.account \in 0..Len(accounts)
  <2>1. q.op \in Ops /\ q.todo \in Todos(q.op)
    BY <1>1 DEF Call, Holds
  <2>2. q.op \in {"unit", "condominium"}
    BY <2>1, <1>3, StepOwners
  <2>3. QED
    BY <2>2, <1>1, <1>3 DEF Holds
<1>6. Len(invites) \in Nat /\ DOMAIN invites = 1..Len(invites) /\ \A i \in 1..Len(invites) : invites[i] \in Residents!Invite
  BY <1>4 DEF Registered
<1>7. \A i \in 1..Len(invites) : invites'[i] \in Residents!Invite /\ invites'[i].person = invites[i].person
  BY <1>3, <1>6, InviteStates
<1>8. invites' \in Seq(Residents!Invite) /\ Len(invites') = Len(invites)
  <2>1. DOMAIN invites' = 1..Len(invites) /\ invites' = [i \in 1..Len(invites) |-> invites'[i]]
    BY <1>3, <1>6
  <2>2. invites' \in [1..Len(invites) -> Residents!Invite]
    BY <2>1, <1>7
  <2>3. invites' \in Seq(Residents!Invite)
    BY <2>2, <1>6, SeqDef
  <2>4. QED
    BY <2>1, <2>3, <1>6, LenProperties
<1>9. Registered' /\ Grows
  <2>1. \A i \in 1..Len(invites') : invites'[i].person \in 1..Len(people)
    BY <1>4, <1>7, <1>8 DEF Registered
  <2>2. QED
    BY <2>1, <1>3, <1>4, <1>6, <1>8, RegisterInvites
<1>10. QED
  BY <1>1, <1>3, <1>5, <1>9, SameAfter, PeopleGoOn

LEMMA InviteSent ==
  ASSUME ResidentParameters, PeopleInv, NEW s \in Slots, Residents!SendInvite(s) PROVE PeopleInv'
<1>1. PICK q \in Call : q = calls[s] /\ Holds(q)
  BY DEF PeopleInv
<1>2. PICK inv : inv = [kind |-> q.op, email |-> q.email, phone |-> IF q.op = "unit" THEN None ELSE q.phone,
                        person |-> q.person, unit |-> q.unit,
                        owner |-> q.op = "unit" /\ Residents!AsOwner(q.role),
                        responsible |-> q.op = "condominium" \/ Residents!AsResponsible(q.role),
                        state |-> "pending"]
  OBVIOUS
<1>3. /\ q.todo # << >> /\ Head(q.todo) = "send" /\ invites' = Append(invites, inv) /\ Residents!Continues(s, q)
      /\ UNCHANGED <<accounts, people, units, links, requests, crashed>>
  BY <1>1, <1>2 DEF Residents!SendInvite, Residents!Does
<1>4. Registered /\ Len(invites) \in Nat
  BY DEF PeopleInv, Registered
<1>5. q.person \in 1..Len(people) /\ q.unit \in Units /\ q.row.account \in 0..Len(accounts) /\ q.op \in {"unit", "condominium"}
  <2>1. q.op \in Ops /\ q.todo \in Todos(q.op)
    BY <1>1 DEF Call, Holds
  <2>2. q.op \in {"unit", "condominium"}
    BY <2>1, <1>3, StepOwners
  <2>3. QED
    BY <2>2, <1>1, <1>3 DEF Holds
<1>6. inv \in Residents!Invite /\ inv.person = q.person
  <2>1. /\ q.email \in Emails \cup {None} /\ q.phone \in Phones \cup {None} /\ q.person \in 1..MaxPeople
    BY <1>4, <1>5 DEF Call, Registered, ResidentParameters
  <2>2. QED
    BY <2>1, <1>2, <1>5 DEF Residents!Invite
<1>7. invites' \in Seq(Residents!Invite) /\ Len(invites') = Len(invites) + 1
      /\ \A i \in 1..(Len(invites) + 1) : invites'[i] = IF i = Len(invites) + 1 THEN inv ELSE invites[i]
  BY <1>3, <1>4, <1>6 DEF Registered
<1>8. \A i \in 1..Len(invites') : invites'[i].person \in 1..Len(people)
  <2>1. \A i \in 1..(Len(invites) + 1) : i = Len(invites) + 1 \/ i \in 1..Len(invites)
    BY <1>4
  <2>2. \A i \in 1..Len(invites) : invites[i].person \in 1..Len(people)
    BY <1>4 DEF Registered
  <2>3. QED
    BY <2>1, <2>2, <1>4, <1>5, <1>6, <1>7
<1>9. Registered' /\ Grows
  BY <1>3, <1>4, <1>7, <1>8, RegisterInvites
<1>10. QED
  BY <1>1, <1>3, <1>5, <1>9, SameAfter, PeopleGoOn

\* A telephone in an account.
LEMMA PhoneKept ==
  ASSUME Registered, NEW a \in 1..Len(accounts), NEW ph \in Phones \cup {None},
         NEW row, row = [accounts[a] EXCEPT !.phone = ph], accounts' = [accounts EXCEPT ![a] = row]
  PROVE  accounts' \in Seq(Residents!Account) /\ Len(accounts') = Len(accounts)
<1>1. accounts \in Seq(Residents!Account) /\ accounts[a] \in Residents!Account
  BY DEF Registered
<1>2. row \in Residents!Account
  BY <1>1 DEF Residents!Account
<1>3. QED
  BY <1>1, <1>2, ExceptSeq

LEMMA PhoneConfirmed ==
  ASSUME ResidentParameters, PeopleInv, NEW s \in Slots, Residents!ConfirmPhone(s) PROVE PeopleInv'
<1>1. PICK q \in Call : q = calls[s] /\ Holds(q)
  BY DEF PeopleInv
<1>2. PICK row : row = [accounts[q.account] EXCEPT !.phone = q.phone]
  OBVIOUS
<1>3. PICK fits : fits = (IF accounts[q.account].phone = None THEN Residents!AccountFits(q.account, row)
                          ELSE accounts[q.account].phone = q.phone)
  OBVIOUS
<1>4. PICK c : c = [q EXCEPT !.row.phone = q.phone]
  OBVIOUS
<1>5. /\ q.todo # << >> /\ Head(q.todo) = "phone"
      /\ \/ accounts' = [accounts EXCEPT ![q.account] = row] /\ Residents!Continues(s, c)
         \/ accounts' = accounts /\ Residents!Ends(s)
      /\ UNCHANGED <<people, units, links, invites, requests, crashed>>
  BY <1>1, <1>2, <1>3, <1>4 DEF Residents!ConfirmPhone, Residents!Does, Residents!DoneOrRefused
<1>6. Registered /\ crashed \in Nat /\ Len(accounts) \in Nat
  BY DEF PeopleInv, Registered
<1>7. /\ q.op = "accept" /\ q.todo = ConfirmPhone /\ q.phone \in Phones \cup {None} /\ q.account \in 1..Len(accounts)
      /\ q.row \in Residents!Person /\ q.row.account \in 0..Len(accounts) /\ q.person \in 1..Len(people)
  <2>1. q.op \in Ops /\ q.todo \in Todos(q.op)
    BY <1>1 DEF Call, Holds
  <2>2. q.op = "accept" /\ q.todo = ConfirmPhone
    BY <2>1, <1>5, StepOwners
  <2>3. QED
    BY <2>2, <1>1, <1>5 DEF Holds, Call
<1>8. CASE accounts' = accounts /\ Residents!Ends(s)
  BY <1>5, <1>6, <1>8, RegisterSame, PeopleEnd
<1>9. CASE accounts' = [accounts EXCEPT ![q.account] = row] /\ Residents!Continues(s, c)
  <2>1. accounts' \in Seq(Residents!Account) /\ Len(accounts') = Len(accounts)
    BY <1>2, <1>6, <1>7, <1>9, PhoneKept
  <2>2. Registered' /\ Grows
    <3>1. Len(accounts) <= Len(accounts') /\ Len(accounts') <= MaxAccounts
      BY <2>1, <1>6 DEF Registered
    <3>2. QED
      BY <2>1, <3>1, <1>5, <1>6, RegisterAccounts
  <2>3. c \in Call /\ c.row.account = q.row.account /\ c.person = q.person /\ After(q, c)
    <3>1. PICK r : r = [q.row EXCEPT !.phone = q.phone]
      OBVIOUS
    <3>2. r \in Residents!Person /\ r.account = q.row.account
      BY <3>1, <1>7 DEF Residents!Person
    <3>3. c = [q EXCEPT !.row = r]
      BY <3>1, <1>4
    <3>4. QED
      BY <3>2, <3>3 DEF Call, After
  <2>4. c.row.account \in 0..Len(accounts') /\ c.person \in 1..Len(people')
    BY <2>1, <2>3, <1>5, <1>7
  <2>5. Head(q.todo) # "new" /\ crashed' = crashed
    BY <1>5
  <2>6. QED
    BY <2>2, <2>3, <2>4, <2>5, <1>1, <1>5, <1>9, PeopleGoOn
<1>10. QED
  BY <1>5, <1>8, <1>9

LEMMA InviteConsumed ==
  ASSUME ResidentParameters, PeopleInv, NEW s \in Slots, Residents!Consume(s) PROVE PeopleInv'
<1>1. PICK q \in Call : q = calls[s] /\ Holds(q)
  BY DEF PeopleInv
<1>2. /\ q.todo # << >> /\ Head(q.todo) = "consume"
      /\ invites' = [invites EXCEPT ![q.invite].state = "consumed"] /\ Residents!Continues(s, q)
      /\ UNCHANGED <<accounts, people, units, links, requests, crashed>>
  BY <1>1 DEF Residents!Consume, Residents!Does
<1>3. Registered
  BY DEF PeopleInv
<1>4. q.person \in 1..Len(people) /\ q.row.account \in 0..Len(accounts) /\ q.invite \in 1..Len(invites)
  <2>1. q.op \in Ops /\ q.todo \in Todos(q.op)
    BY <1>1 DEF Call, Holds
  <2>2. q.op = "accept"
    BY <2>1, <1>2, StepOwners
  <2>3. QED
    BY <2>2, <1>1, <1>2 DEF Holds
<1>5. Registered' /\ Grows
  <2>1. PICK inv : inv = [invites[q.invite] EXCEPT !.state = "consumed"]
    OBVIOUS
  <2>2. invites \in Seq(Residents!Invite) /\ invites[q.invite] \in Residents!Invite /\ Len(invites) \in Nat
    BY <1>3, <1>4 DEF Registered
  <2>3. inv \in Residents!Invite /\ inv.person = invites[q.invite].person /\ invites' = [invites EXCEPT ![q.invite] = inv]
    BY <2>1, <2>2, <1>2, InviteStates
  <2>4. /\ invites' \in Seq(Residents!Invite) /\ Len(invites') = Len(invites)
        /\ \A i \in 1..Len(invites) : invites'[i] = IF i = q.invite THEN inv ELSE invites[i]
    BY <2>2, <2>3, <1>4, ExceptSeq
  <2>5. \A i \in 1..Len(invites') : invites'[i].person \in 1..Len(people)
    BY <2>3, <2>4, <1>3, <1>4 DEF Registered
  <2>6. QED
    BY <2>2, <2>4, <2>5, <1>2, <1>3, RegisterInvites
<1>6. QED
  BY <1>1, <1>2, <1>4, <1>5, SameAfter, PeopleGoOn

LEMMA PhoneGivenByStaff ==
  ASSUME ResidentParameters, PeopleInv, NEW s \in Slots, Residents!SetPhoneByStaff(s) PROVE PeopleInv'
<1>1. PICK q \in Call : q = calls[s] /\ Holds(q)
  BY DEF PeopleInv
<1>2. PICK row : row = [accounts[q.account] EXCEPT !.phone = q.phone]
  OBVIOUS
<1>3. /\ q.todo # << >> /\ Head(q.todo) = "staff"
      /\ Residents!DoneOrRefused(s, Residents!AccountFits(q.account, row),
                                 accounts' = [accounts EXCEPT ![q.account] = row], accounts, q)
      /\ UNCHANGED <<people, units, links, invites, requests, crashed>>
  BY <1>1, <1>2 DEF Residents!SetPhoneByStaff, Residents!Does
<1>4. Registered /\ crashed \in Nat /\ Len(accounts) \in Nat
  BY DEF PeopleInv, Registered
<1>5. /\ q.phone \in Phones \cup {None} /\ q.account \in 1..Len(accounts)
      /\ q.row.account \in 0..Len(accounts) /\ q.person \in 1..Len(people)
  <2>1. q.op \in Ops /\ q.todo \in Todos(q.op)
    BY <1>1 DEF Call, Holds
  <2>2. q.op = "phone" /\ q.todo = StaffPhone
    BY <2>1, <1>3, StepOwners
  <2>3. QED
    BY <2>2, <1>1, <1>3 DEF Holds, Call
<1>6. CASE accounts' = accounts /\ Residents!Ends(s)
  BY <1>3, <1>4, <1>6, RegisterSame, PeopleEnd
<1>7. CASE accounts' = [accounts EXCEPT ![q.account] = row] /\ Residents!Continues(s, q)
  <2>1. accounts' \in Seq(Residents!Account) /\ Len(accounts') = Len(accounts)
    BY <1>2, <1>4, <1>5, <1>7, PhoneKept
  <2>2. Registered' /\ Grows
    <3>1. Len(accounts) <= Len(accounts') /\ Len(accounts') <= MaxAccounts
      BY <2>1, <1>4 DEF Registered
    <3>2. QED
      BY <2>1, <3>1, <1>3, <1>4, RegisterAccounts
  <2>3. q.row.account \in 0..Len(accounts') /\ q.person \in 1..Len(people') /\ Head(q.todo) # "new" /\ crashed' = crashed
    BY <2>1, <1>3, <1>5
  <2>4. QED
    BY <2>2, <2>3, <1>1, <1>3, <1>7, SameAfter, PeopleGoOn
<1>8. QED
  BY <1>3, <1>6, <1>7 DEF Residents!DoneOrRefused

LEMMA UnitForgotten ==
  ASSUME ResidentParameters, PeopleInv, NEW s \in Slots, Residents!Forget(s) PROVE PeopleInv'
<1>1. PICK q \in Call : q = calls[s] /\ Holds(q)
  BY DEF PeopleInv
<1>2. PICK w : w = [units[q.unit] EXCEPT !.financial = IF q.person \in {0, units[q.unit].financial} THEN 0 ELSE @,
                                          !.pending = IF q.person = 0 THEN None ELSE @]
  OBVIOUS
<1>3. /\ q.todo # << >> /\ Head(q.todo) = "forget"
      /\ units' = [units EXCEPT ![q.unit] = w] /\ Residents!Continues(s, q)
      /\ UNCHANGED <<accounts, people, links, invites, requests, crashed>>
  BY <1>1, <1>2 DEF Residents!Forget, Residents!Does
<1>4. Registered
  BY DEF PeopleInv
<1>5. q.op = "unlink" /\ q.unit \in Units /\ q.row.account \in 0..Len(accounts)
  <2>1. q.op \in Ops /\ q.todo \in Todos(q.op)
    BY <1>1 DEF Call, Holds
  <2>2. q.op = "unlink"
    BY <2>1, <1>3, StepOwners
  <2>3. QED
    BY <2>2, <1>1 DEF Holds
<1>6. w \in Residents!Unit /\ w.owner = units[q.unit].owner /\ w.financial \in {0, units[q.unit].financial}
  <2>1. units[q.unit] \in Residents!Unit
    BY <1>4, <1>5 DEF Registered
  <2>2. PICK v \in Residents!Unit : v = units[q.unit]
    BY <2>1
  <2>3. PICK f : f = IF q.person \in {0, v.financial} THEN 0 ELSE v.financial
    OBVIOUS
  <2>4. PICK p : p = IF q.person = 0 THEN None ELSE v.pending
    OBVIOUS
  <2>5. f \in 0..MaxPeople /\ f \in {0, v.financial} /\ p \in Phones \cup {None}
    BY <2>3, <2>4 DEF Residents!Unit, ResidentParameters
  <2>6. w = [v EXCEPT !.financial = f, !.pending = p]
    BY <2>2, <2>3, <2>4, <1>2
  <2>7. QED
    BY <2>2, <2>5, <2>6 DEF Residents!Unit
<1>7. Registered' /\ Grows
  <2>1. /\ units' \in [Units -> Residents!Unit]
        /\ \A u \in Units : units'[u] = IF u = q.unit THEN w ELSE units[u]
    BY <1>3, <1>4, <1>5, <1>6 DEF Registered
  <2>2. \A u \in Units : units'[u].owner \in 0..Len(people) /\ units'[u].financial \in 0..Len(people)
    <3>1. Len(people) \in Nat
      BY <1>4 DEF Registered
    <3>2. \A u \in Units : units[u].owner \in 0..Len(people) /\ units[u].financial \in 0..Len(people)
      BY <1>4 DEF Registered
    <3>3. QED
      BY <2>1, <3>1, <3>2, <1>5, <1>6
  <2>3. links' \subseteq Units \X (1..Len(people))
    BY <1>3, <1>4 DEF Registered
  <2>4. QED
    BY <2>1, <2>2, <2>3, <1>3, <1>4, RegisterUnits
<1>8. QED
  BY <1>1, <1>3, <1>5, <1>7, SameAfter, PeopleGoOn

\* What steps put one after another are.
LEMMA Concat ==
  ASSUME NEW S, NEW a \in Seq(S), NEW b \in Seq(S), NEW r \in Seq(S),
         Len(r) = Len(a) + Len(b), \A i \in 1..Len(a) : r[i] = a[i], \A i \in 1..Len(b) : r[Len(a) + i] = b[i]
  PROVE  a \o b = r
<1>1. PICK t : t = a \o b
  OBVIOUS
<1>2. t \in Seq(S) /\ Len(t) = Len(a) + Len(b)
      /\ \A i \in 1..(Len(a) + Len(b)) : t[i] = IF i <= Len(a) THEN a[i] ELSE b[i - Len(a)]
  BY <1>1, ConcatProperties
<1>3. \A i \in 1..Len(r) : r[i] = t[i]
  <2>1. SUFFICES ASSUME NEW i \in 1..Len(r) PROVE r[i] = t[i]
    OBVIOUS
  <2>2. Len(a) \in Nat /\ Len(b) \in Nat
    OBVIOUS
  <2>3. CASE i <= Len(a)
    BY <2>2, <2>3, <1>2
  <2>4. CASE i > Len(a)
    <3>1. PICK j : j = i - Len(a)
      OBVIOUS
    <3>2. j \in 1..Len(b) /\ i = Len(a) + j
      BY <3>1, <2>1, <2>2, <2>4
    <3>3. QED
      BY <3>1, <3>2, <2>2, <2>4, <1>2
  <2>5. QED
    BY <2>2, <2>3, <2>4
<1>4. QED
  BY <1>1, <1>2, <1>3, SeqEqual

LEMMA Concat1 == ASSUME NEW a, NEW b PROVE <<a>> \o <<b>> = <<a, b>>
<1>1. PICK S : S = {a, b}
  OBVIOUS
<1>2. PICK s \in Seq(S) : s = <<a>> /\ Len(s) = 1 /\ s[1] = a
  <2>1. <<a>> \in Seq(S)
    BY <1>1
  <2>2. QED
    BY <2>1
<1>3. PICK t \in Seq(S) : t = <<b>> /\ Len(t) = 1 /\ t[1] = b
  <2>1. <<b>> \in Seq(S)
    BY <1>1
  <2>2. QED
    BY <2>1
<1>4. PICK r \in Seq(S) : r = <<a, b>> /\ Len(r) = 2 /\ r[1] = a /\ r[2] = b
  <2>1. <<a, b>> \in Seq(S)
    BY <1>1
  <2>2. QED
    BY <2>1
<1>5. Len(r) = Len(s) + Len(t)
  BY <1>2, <1>3, <1>4
<1>6. \A i \in 1..Len(s) : r[i] = s[i]
  BY <1>2, <1>4
<1>7. \A i \in 1..Len(t) : r[Len(s) + i] = t[i]
  BY <1>2, <1>3, <1>4
<1>8. s \o t = r
  BY <1>5, <1>6, <1>7, Concat
<1>9. QED
  BY <1>2, <1>3, <1>4, <1>8

LEMMA Concat2 == ASSUME NEW a, NEW b, NEW c PROVE <<a>> \o <<b, c>> = <<a, b, c>>
<1>1. PICK S : S = {a, b, c}
  OBVIOUS
<1>2. PICK s \in Seq(S) : s = <<a>> /\ Len(s) = 1 /\ s[1] = a
  <2>1. <<a>> \in Seq(S)
    BY <1>1
  <2>2. QED
    BY <2>1
<1>3. PICK t \in Seq(S) : t = <<b, c>> /\ Len(t) = 2 /\ t[1] = b /\ t[2] = c
  <2>1. <<b, c>> \in Seq(S)
    BY <1>1
  <2>2. QED
    BY <2>1
<1>4. PICK r \in Seq(S) : r = <<a, b, c>> /\ Len(r) = 3 /\ r[1] = a /\ r[2] = b /\ r[3] = c
  <2>1. <<a, b, c>> \in Seq(S)
    BY <1>1
  <2>2. QED
    BY <2>1
<1>5. Len(r) = Len(s) + Len(t)
  BY <1>2, <1>3, <1>4
<1>6. \A i \in 1..Len(s) : r[i] = s[i]
  BY <1>2, <1>4
<1>7. \A i \in 1..Len(t) : r[Len(s) + i] = t[i]
  BY <1>2, <1>3, <1>4
<1>8. s \o t = r
  BY <1>5, <1>6, <1>7, Concat
<1>9. QED
  BY <1>2, <1>3, <1>4, <1>8

LEMMA Concat3 == ASSUME NEW a, NEW b, NEW c, NEW d PROVE <<a, b, c>> \o <<d>> = <<a, b, c, d>>
<1>1. PICK S : S = {a, b, c, d}
  OBVIOUS
<1>2. PICK s \in Seq(S) : s = <<a, b, c>> /\ Len(s) = 3 /\ s[1] = a /\ s[2] = b /\ s[3] = c
  <2>1. <<a, b, c>> \in Seq(S)
    BY <1>1
  <2>2. QED
    BY <2>1
<1>3. PICK t \in Seq(S) : t = <<d>> /\ Len(t) = 1 /\ t[1] = d
  <2>1. <<d>> \in Seq(S)
    BY <1>1
  <2>2. QED
    BY <2>1
<1>4. PICK r \in Seq(S) : r = <<a, b, c, d>> /\ Len(r) = 4 /\ r[1] = a /\ r[2] = b /\ r[3] = c /\ r[4] = d
  <2>1. <<a, b, c, d>> \in Seq(S)
    BY <1>1
  <2>2. QED
    BY <2>1
<1>5. Len(r) = Len(s) + Len(t)
  BY <1>2, <1>3, <1>4
<1>6. \A i \in 1..Len(s) : r[i] = s[i]
  BY <1>2, <1>4
<1>7. \A i \in 1..Len(t) : r[Len(s) + i] = t[i]
  BY <1>2, <1>3, <1>4
<1>8. s \o t = r
  BY <1>5, <1>6, <1>7, Concat
<1>9. QED
  BY <1>2, <1>3, <1>4, <1>8

LEMMA Concat4 == ASSUME NEW a, NEW b, NEW c, NEW d, NEW e PROVE <<a, b, c, d>> \o <<e>> = <<a, b, c, d, e>>
<1>1. PICK S : S = {a, b, c, d, e}
  OBVIOUS
<1>2. PICK s \in Seq(S) : s = <<a, b, c, d>> /\ Len(s) = 4 /\ s[1] = a /\ s[2] = b /\ s[3] = c /\ s[4] = d
  <2>1. <<a, b, c, d>> \in Seq(S)
    BY <1>1
  <2>2. QED
    BY <2>1
<1>3. PICK t \in Seq(S) : t = <<e>> /\ Len(t) = 1 /\ t[1] = e
  <2>1. <<e>> \in Seq(S)
    BY <1>1
  <2>2. QED
    BY <2>1
<1>4. PICK r \in Seq(S) : r = <<a, b, c, d, e>> /\ Len(r) = 5 /\ r[1] = a /\ r[2] = b /\ r[3] = c /\ r[4] = d /\ r[5] = e
  <2>1. <<a, b, c, d, e>> \in Seq(S)
    BY <1>1
  <2>2. QED
    BY <2>1
<1>5. Len(r) = Len(s) + Len(t)
  BY <1>2, <1>3, <1>4
<1>6. \A i \in 1..Len(s) : r[i] = s[i]
  BY <1>2, <1>4
<1>7. \A i \in 1..Len(t) : r[Len(s) + i] = t[i]
  BY <1>2, <1>3, <1>4
<1>8. s \o t = r
  BY <1>5, <1>6, <1>7, Concat
<1>9. QED
  BY <1>2, <1>3, <1>4, <1>8

LEMMA Concat5 == ASSUME NEW a, NEW b, NEW c, NEW d, NEW e, NEW f PROVE <<a>> \o <<b, c, d, e, f>> = <<a, b, c, d, e, f>>
<1>1. PICK S : S = {a, b, c, d, e, f}
  OBVIOUS
<1>2. PICK s \in Seq(S) : s = <<a>> /\ Len(s) = 1 /\ s[1] = a
  <2>1. <<a>> \in Seq(S)
    BY <1>1
  <2>2. QED
    BY <2>1
<1>3. PICK t \in Seq(S) : t = <<b, c, d, e, f>> /\ Len(t) = 5 /\ t[1] = b /\ t[2] = c /\ t[3] = d /\ t[4] = e /\ t[5] = f
  <2>1. <<b, c, d, e, f>> \in Seq(S)
    BY <1>1
  <2>2. QED
    BY <2>1
<1>4. PICK r \in Seq(S) : r = <<a, b, c, d, e, f>> /\ Len(r) = 6 /\ r[1] = a /\ r[2] = b /\ r[3] = c /\ r[4] = d /\ r[5] = e /\ r[6] = f
  <2>1. <<a, b, c, d, e, f>> \in Seq(S)
    BY <1>1
  <2>2. QED
    BY <2>1
<1>5. Len(r) = Len(s) + Len(t)
  BY <1>2, <1>3, <1>4
<1>6. \A i \in 1..Len(s) : r[i] = s[i]
  BY <1>2, <1>4
<1>7. \A i \in 1..Len(t) : r[Len(s) + i] = t[i]
  BY <1>2, <1>3, <1>4
<1>8. s \o t = r
  BY <1>5, <1>6, <1>7, Concat
<1>9. QED
  BY <1>2, <1>3, <1>4, <1>8

LEMMA ConcatNone == ASSUME NEW a, NEW b, NEW c PROVE <<a, b, c>> \o << >> = <<a, b, c>>
<1>1. PICK S : S = {a, b, c}
  OBVIOUS
<1>2. PICK s \in Seq(S) : s = <<a, b, c>> /\ Len(s) = 3 /\ s[1] = a /\ s[2] = b /\ s[3] = c
  <2>1. <<a, b, c>> \in Seq(S)
    BY <1>1
  <2>2. QED
    BY <2>1
<1>3. PICK t \in Seq(S) : t = << >> /\ Len(t) = 0
  <2>1. << >> \in Seq(S)
    BY <1>1
  <2>2. QED
    BY <2>1
<1>4. PICK r \in Seq(S) : r = <<a, b, c>> /\ Len(r) = 3 /\ r[1] = a /\ r[2] = b /\ r[3] = c
  <2>1. <<a, b, c>> \in Seq(S)
    BY <1>1
  <2>2. QED
    BY <2>1
<1>5. Len(r) = Len(s) + Len(t)
  BY <1>2, <1>3, <1>4
<1>6. \A i \in 1..Len(s) : r[i] = s[i]
  BY <1>2, <1>4
<1>7. \A i \in 1..Len(t) : r[Len(s) + i] = t[i]
  BY <1>2, <1>3, <1>4
<1>8. s \o t = r
  BY <1>5, <1>6, <1>7, Concat
<1>9. QED
  BY <1>2, <1>3, <1>4, <1>8

\* The steps of the requests.
LEMMA RequestSteps ==
  /\ <<"person">> \o Residents!LinkSteps("owner") = AssignPerson
  /\ <<"person">> \o Residents!LinkSteps("responsible") = AssignPersonLink
  /\ <<"person">> \o Residents!LinkSteps("both") = AssignPersonLink
  /\ <<"new">> \o Residents!LinkSteps("owner") = AssignNew
  /\ <<"new">> \o Residents!LinkSteps("responsible") = AssignNewLink
  /\ <<"new">> \o Residents!LinkSteps("both") = AssignNewLink
  /\ <<"person">> \o ConfirmPhone = ConfirmPerson
<1>1. /\ Residents!LinkSteps("owner") = <<"unit">> /\ Residents!LinkSteps("responsible") = <<"link", "unit">>
      /\ Residents!LinkSteps("both") = <<"link", "unit">>
  BY DEF Residents!LinkSteps, Residents!AsResponsible
<1>2. <<"person">> \o <<"unit">> = AssignPerson /\ <<"new">> \o <<"unit">> = AssignNew
  BY Concat1 DEF AssignPerson, AssignNew
<1>3. <<"person">> \o <<"link", "unit">> = AssignPersonLink /\ <<"new">> \o <<"link", "unit">> = AssignNewLink
  BY Concat2 DEF AssignPersonLink, AssignNewLink
<1>4. <<"person">> \o ConfirmPhone = ConfirmPerson
  BY Concat5 DEF ConfirmPerson, ConfirmPhone
<1>5. QED
  BY <1>1, <1>2, <1>3, <1>4

LEMMA JoiningSteps ==
  ASSUME NEW i
  PROVE  /\ invites[i].responsible => Residents!JoinSteps(i) = JoinAccount
         /\ ~ invites[i].responsible => Residents!JoinSteps(i) = OwnAccount
<1>1. CASE invites[i].responsible
  <2>1. Residents!JoinSteps(i) = (<<"account", "person", "unit">> \o <<"link">>) \o <<"consume">>
    BY <1>1 DEF Residents!JoinSteps
  <2>2. <<"account", "person", "unit">> \o <<"link">> = <<"account", "person", "unit", "link">>
    BY Concat3
  <2>3. <<"account", "person", "unit", "link">> \o <<"consume">> = JoinAccount
    BY Concat4 DEF JoinAccount
  <2>4. QED
    BY <1>1, <2>1, <2>2, <2>3
<1>2. CASE ~ invites[i].responsible
  <2>1. Residents!JoinSteps(i) = (<<"account", "person", "unit">> \o << >>) \o <<"consume">>
    BY <1>2 DEF Residents!JoinSteps
  <2>2. <<"account", "person", "unit">> \o << >> = <<"account", "person", "unit">>
    BY ConcatNone
  <2>3. <<"account", "person", "unit">> \o <<"consume">> = OwnAccount
    BY Concat3 DEF OwnAccount
  <2>4. QED
    BY <1>2, <2>1, <2>2, <2>3
<1>3. QED
  BY <1>1, <1>2

\* What a request starts from is what the tables hold.
Starting(c) ==
    /\ Holds(c) /\ c.op # "none" /\ c.todo # InviteSend
    /\ c.op # "unlink" /\ Head(c.todo) # "new" => people[c.person].account \in {0, c.row.account}
    /\ c.op = "accept" => Accepts(c)
    /\ c.op \in {"accept", "assign"} => c.unitRow.financial = units[c.unit].financial

Begun(s) ==
    \E c \in Call : calls' = [calls EXCEPT ![s] = c] /\ calls[s] = Residents!NoCall /\ Starting(c)

LEMMA PhoneGiven ==
  ASSUME NEW row \in Residents!Person, NEW ph \in Phones \cup {None}
  PROVE  Residents!WithPhone(row, ph) \in Residents!Person /\ Residents!WithPhone(row, ph).account = row.account
BY DEF Residents!WithPhone, Residents!Person

LEMMA RoleGiven ==
  ASSUME Registered, NEW u \in Units, NEW p \in 0..MaxPeople, NEW role
  PROVE  /\ Residents!WithRole(u, p, role) \in Residents!Unit
         /\ Residents!WithRole(u, p, role).owner \in {p, units[u].owner}
         /\ Residents!WithRole(u, p, role).financial = units[u].financial
<1>1. PICK v \in Residents!Unit : v = units[u]
  BY DEF Registered
<1>2. PICK o : o = IF Residents!AsOwner(role) THEN p ELSE v.owner
  OBVIOUS
<1>3. o \in 0..MaxPeople /\ o \in {p, v.owner}
  BY <1>2 DEF Residents!Unit
<1>4. Residents!WithRole(u, p, role) = [v EXCEPT !.owner = o, !.pending = None]
  BY <1>1, <1>2 DEF Residents!WithRole
<1>5. QED
  BY <1>1, <1>3, <1>4 DEF Residents!Unit

\* The fields of an assignment before the person is known.
Assigned(b, u, role, e, ph) ==
    /\ b \in Call /\ b.op = "assign" /\ b.unit = u /\ b.role = role /\ b.email = e /\ b.phone = ph
    /\ b.related = TRUE /\ b.owned = units[u].owner

LEMMA AssigningCall ==
  ASSUME ResidentParameters, Registered, NEW u \in Units, NEW role \in Residents!Roles, NEW e \in Emails,
         NEW ph \in Phones \cup {None}
  PROVE  Assigned(Residents!Assigning(u, role, e, ph), u, role, e, ph)
<1>1. PICK n : n = Residents!NoCall
  OBVIOUS
<1>2. n \in Call
  BY <1>1, NoCallHolds
<1>3. PICK k : k = Residents!LinkedTo(u)
  OBVIOUS
<1>4. k \subseteq Nat
  <2>1. DOMAIN people = 1..Len(people)
    BY DEF Registered
  <2>2. QED
    BY <2>1, <1>3 DEF Residents!LinkedTo
<1>5. PICK o : o = units[u].owner
  OBVIOUS
<1>6. o \in 0..MaxPeople
  BY <1>5 DEF Registered, Residents!Unit
<1>7. PICK b : b = [n EXCEPT !.op = "assign", !.unit = u, !.role = role, !.email = e, !.phone = ph,
                             !.related = TRUE, !.owned = o, !.known = k]
  OBVIOUS
<1>8. b = Residents!Assigning(u, role, e, ph)
  BY <1>1, <1>3, <1>5, <1>7 DEF Residents!Assigning
<1>9. e \in Emails \cup {None} /\ u \in Units \cup {Residents!SomeUnit}
  OBVIOUS
<1>10. b \in Call
  BY <1>2, <1>4, <1>6, <1>7, <1>9 DEF Call, Ops
<1>11. /\ b.op = "assign" /\ b.unit = u /\ b.role = role /\ b.email = e /\ b.phone = ph
       /\ b.related = TRUE /\ b.owned = o
  BY <1>2, <1>7 DEF Call
<1>12. Assigned(b, u, role, e, ph)
  BY <1>5, <1>10, <1>11 DEF Assigned
<1>13. QED
  BY <1>8, <1>12

LEMMA PersonAssigned ==
  ASSUME ResidentParameters, PeopleInv, NEW s \in Slots, NEW u \in Units, NEW role \in Residents!Roles,
         NEW e \in Emails, NEW ph \in Phones \cup {None}, Residents!AssignPerson(s, u, role, e, ph)
  PROVE  Begun(s)
<1>1. Registered /\ Len(people) \in Nat /\ DOMAIN people = 1..Len(people) /\ Len(people) <= MaxPeople
  BY DEF PeopleInv, Registered
<1>2. PICK p \in 1..Len(people) :
        Residents!Begins(s, [Residents!Assigning(u, role, e, ph) EXCEPT
                !.person = p, !.row = Residents!WithPhone(people[p], ph),
                !.unitRow = Residents!WithRole(u, p, role), !.todo = <<"person">> \o Residents!LinkSteps(role)])
  BY <1>1 DEF Residents!AssignPerson
<1>3. PICK b \in Call : /\ b = Residents!Assigning(u, role, e, ph) /\ b.op = "assign" /\ b.unit = u
                        /\ b.owned = units[u].owner
  <2>1. PICK x : x = Residents!Assigning(u, role, e, ph)
    OBVIOUS
  <2>2. Assigned(x, u, role, e, ph)
    BY <2>1, <1>1, AssigningCall
  <2>3. QED
    BY <2>1, <2>2 DEF Assigned
<1>4. PICK row : row = Residents!WithPhone(people[p], ph)
  OBVIOUS
<1>5. PICK w : w = Residents!WithRole(u, p, role)
  OBVIOUS
<1>6. PICK todo : todo = <<"person">> \o Residents!LinkSteps(role)
  OBVIOUS
<1>7. row \in Residents!Person /\ row.account = people[p].account /\ row.account \in 0..Len(accounts)
  <2>1. people[p] \in Residents!Person /\ people[p].account \in 0..Len(accounts)
    BY <1>1 DEF Registered
  <2>2. QED
    BY <2>1, <1>4, PhoneGiven
<1>8. p \in 0..MaxPeople
  BY <1>1 DEF ResidentParameters
<1>9. w \in Residents!Unit /\ w.owner \in {p, units[u].owner} /\ w.financial = units[u].financial
  BY <1>1, <1>5, <1>8, RoleGiven
<1>10. todo \in {AssignPerson, AssignPersonLink}
  BY <1>6, RequestSteps DEF Residents!Roles
<1>11. PICK c : c = [b EXCEPT !.person = p, !.row = row, !.unitRow = w, !.todo = todo]
  OBVIOUS
<1>12. todo \in Programs /\ todo \in AssignTodos /\ Head(todo) = "person"
       /\ todo \notin {ConfirmPerson, ConfirmPhone, StaffPhone, InviteSend}
  <2>1. todo \in AssignTodos
    BY <1>10 DEF AssignTodos
  <2>2. Tail(todo) \in {AssignLink, AssignUnit} /\ Head(todo) = "person"
    BY <1>10, AssignSteps
  <2>3. Head(Tail(todo)) \in {"link", "unit"}
    BY <2>2, AssignSteps
  <2>4. Head(Tail(ConfirmPerson)) = "phone" /\ Head(ConfirmPhone) = "phone" /\ Head(StaffPhone) = "staff" /\ Head(InviteSend) = "send"
    BY ConfirmSteps, OtherSteps, InviteSteps
  <2>5. QED
    BY <2>1, <2>2, <2>3, <2>4 DEF Programs
<1>13. /\ c \in Call /\ c.op = "assign" /\ c.todo = todo /\ c.person = p /\ c.row = row /\ c.unitRow = w /\ c.unit = u
       /\ c.owned = units[u].owner
  BY <1>3, <1>7, <1>8, <1>9, <1>11, <1>12 DEF Call
<1>14. Starting(c)
  <2>1. units[u].owner \in 0..Len(people) /\ units[u].financial \in 0..Len(people)
    BY <1>1 DEF Registered
  <2>2. Holds(c)
    BY <2>1, <1>1, <1>7, <1>9, <1>12, <1>13 DEF Holds, Todos
  <2>3. QED
    BY <2>2, <1>7, <1>9, <1>12, <1>13 DEF Starting
<1>15. calls' = [calls EXCEPT ![s] = c] /\ calls[s] = Residents!NoCall
  BY <1>2, <1>3, <1>4, <1>5, <1>6, <1>11 DEF Residents!Begins, Residents!Idle
<1>16. QED
  BY <1>13, <1>14, <1>15 DEF Begun

LEMMA AccountAssigned ==
  ASSUME ResidentParameters, PeopleInv, NEW s \in Slots, NEW u \in Units, NEW role \in Residents!Roles,
         NEW e \in Emails, NEW ph \in Phones \cup {None}, Residents!AssignAccount(s, u, role, e, ph)
  PROVE  Begun(s)
<1>1. /\ Registered /\ Len(people) \in Nat /\ Len(people) < MaxPeople
      /\ Len(accounts) \in Nat /\ DOMAIN accounts = 1..Len(accounts) /\ Len(accounts) <= MaxAccounts
  BY DEF PeopleInv, Registered, Residents!AssignAccount
<1>2. PICK a \in 1..Len(accounts) :
        Residents!Begins(s, [Residents!Assigning(u, role, e, ph) EXCEPT
                !.row = [email |-> accounts[a].email, phone |-> ph, account |-> a],
                !.unitRow = Residents!WithRole(u, Len(people) + 1, role),
                !.todo = <<"new">> \o Residents!LinkSteps(role)])
  <2>1. PICK a \in Residents!AccountByEmail(e) \ {0} :
          Residents!Begins(s, [Residents!Assigning(u, role, e, ph) EXCEPT
                !.row = [email |-> accounts[a].email, phone |-> ph, account |-> a],
                !.unitRow = Residents!WithRole(u, Len(people) + 1, role),
                !.todo = <<"new">> \o Residents!LinkSteps(role)])
    BY DEF Residents!AssignAccount
  <2>2. a \in 1..Len(accounts)
    BY <1>1 DEF Residents!AccountByEmail, Residents!First
  <2>3. QED
    BY <2>1, <2>2
<1>3. PICK b \in Call : /\ b = Residents!Assigning(u, role, e, ph) /\ b.op = "assign" /\ b.unit = u
                        /\ b.owned = units[u].owner
  <2>1. PICK x : x = Residents!Assigning(u, role, e, ph)
    OBVIOUS
  <2>2. Assigned(x, u, role, e, ph)
    BY <2>1, <1>1, AssigningCall
  <2>3. QED
    BY <2>1, <2>2 DEF Assigned
<1>4. PICK row : row = [email |-> accounts[a].email, phone |-> ph, account |-> a]
  OBVIOUS
<1>5. PICK w : w = Residents!WithRole(u, Len(people) + 1, role)
  OBVIOUS
<1>6. PICK todo : todo = <<"new">> \o Residents!LinkSteps(role)
  OBVIOUS
<1>7. row \in Residents!Person /\ row.account = a
  <2>1. accounts[a].email \in Emails \cup {None} /\ a \in 0..MaxAccounts
    <3>1. accounts[a] \in Residents!Account
      BY <1>1 DEF Registered
    <3>2. a \in 0..MaxAccounts
      BY <1>1 DEF ResidentParameters
    <3>3. QED
      BY <3>1, <3>2 DEF Residents!Account
  <2>2. QED
    BY <2>1, <1>4 DEF Residents!Person
<1>8. Len(people) + 1 \in 0..MaxPeople
  BY <1>1 DEF ResidentParameters
<1>9. w \in Residents!Unit /\ w.owner \in {Len(people) + 1, units[u].owner} /\ w.financial = units[u].financial
  BY <1>1, <1>5, <1>8, RoleGiven
<1>10. todo \in {AssignNew, AssignNewLink}
  BY <1>6, RequestSteps DEF Residents!Roles
<1>11. PICK c : c = [b EXCEPT !.row = row, !.unitRow = w, !.todo = todo]
  OBVIOUS
<1>12. todo \in Programs /\ todo \in AssignTodos /\ Head(todo) = "new"
       /\ todo \notin {ConfirmPerson, ConfirmPhone, StaffPhone, InviteSend}
  BY <1>10, AssignSteps, ConfirmSteps, OtherSteps, InviteSteps DEF AssignTodos, Programs
<1>13. /\ c \in Call /\ c.op = "assign" /\ c.todo = todo /\ c.row = row /\ c.unitRow = w /\ c.unit = u
       /\ c.owned = units[u].owner
  BY <1>3, <1>7, <1>9, <1>11, <1>12 DEF Call
<1>14. Starting(c)
  <2>1. units[u].owner \in 0..Len(people) /\ units[u].financial \in 0..Len(people)
    BY <1>1 DEF Registered
  <2>2. w.owner \in 0..(Len(people) + 1)
    BY <2>1, <1>1, <1>9
  <2>3. Holds(c)
    BY <2>1, <2>2, <1>1, <1>7, <1>9, <1>12, <1>13 DEF Holds, Todos
  <2>4. QED
    BY <2>3, <1>9, <1>12, <1>13 DEF Starting
<1>15. calls' = [calls EXCEPT ![s] = c] /\ calls[s] = Residents!NoCall
  BY <1>2, <1>3, <1>4, <1>5, <1>6, <1>11 DEF Residents!Begins, Residents!Idle
<1>16. QED
  BY <1>13, <1>14, <1>15 DEF Begun

LEMMA StrangerAssigned ==
  ASSUME ResidentParameters, PeopleInv, NEW s \in Slots, NEW u \in Units, NEW role \in Residents!Roles,
         NEW e \in Emails, NEW ph \in Phones \cup {None}, Residents!AssignStranger(s, u, role, e, ph)
  PROVE  Begun(s)
<1>1. Registered /\ Len(people) \in Nat /\ Len(accounts) \in Nat
  BY DEF PeopleInv, Registered
<1>2. PICK b : b = Residents!Assigning(u, role, e, ph)
  OBVIOUS
<1>3. b \in Call /\ b.unit = u
  <2>1. Assigned(b, u, role, e, ph)
    BY <1>1, <1>2, AssigningCall
  <2>2. QED
    BY <2>1 DEF Assigned
<1>4. PICK row : row = [email |-> e, phone |-> ph, account |-> 0]
  OBVIOUS
<1>5. row \in Residents!Person /\ row.account = 0
  BY <1>4 DEF Residents!Person, ResidentParameters
<1>6. PICK c : c = [b EXCEPT !.op = "unit", !.row = row, !.todo = InviteNew]
  OBVIOUS
<1>7. InviteNew \in Programs /\ InviteNew \in SendTodos /\ Head(InviteNew) = "new"
      /\ InviteNew \notin {ConfirmPerson, ConfirmPhone, StaffPhone, InviteSend}
  BY InviteSteps, ConfirmSteps, OtherSteps DEF SendTodos, InviteTodos, Programs
<1>8. c \in Call /\ c.op = "unit" /\ c.todo = InviteNew /\ c.row = row /\ c.unit = u
  BY <1>3, <1>5, <1>6, <1>7 DEF Call, Ops
<1>9. Starting(c)
  <2>1. Holds(c)
    BY <1>1, <1>5, <1>7, <1>8 DEF Holds, Todos
  <2>2. QED
    BY <2>1, <1>7, <1>8 DEF Starting
<1>10. calls' = [calls EXCEPT ![s] = c] /\ calls[s] = Residents!NoCall
  BY <1>2, <1>4, <1>6 DEF Residents!AssignStranger, Residents!Begins, Residents!Idle, InviteNew
<1>11. QED
  BY <1>8, <1>9, <1>10 DEF Begun

\* The fields of an invitation before the person is known.
Invited(b, u, e, ph) == b \in Call /\ b.op = "condominium" /\ b.unit = u /\ b.email = e /\ b.phone = ph

LEMMA InvitingCall ==
  ASSUME ResidentParameters, Registered, NEW u \in Units, NEW e \in Emails \cup {None}, NEW ph \in Phones \cup {None}
  PROVE  Invited(Residents!Inviting(u, e, ph), u, e, ph)
<1>1. PICK n \in Call : n = Residents!NoCall
  BY NoCallHolds
<1>2. PICK b : b = [n EXCEPT !.op = "condominium", !.unit = u, !.email = e, !.phone = ph]
  OBVIOUS
<1>3. b = Residents!Inviting(u, e, ph)
  BY <1>1, <1>2 DEF Residents!Inviting
<1>4. Invited(b, u, e, ph)
  BY <1>1, <1>2 DEF Invited, Call, Ops
<1>5. QED
  BY <1>3, <1>4

LEMMA RowsFound ==
  ASSUME Registered, NEW e, NEW ph
  PROVE  /\ \A a \in Residents!AccountByEmail(e) \cup Residents!AccountByPhone(ph) \cup Residents!InvitedAccount(e, ph) :
              a # 0 => a \in 1..Len(accounts)
         /\ \A p \in Residents!InvitedPerson(e, ph) : p # 0 => p \in 1..Len(people)
<1>1. DOMAIN accounts = 1..Len(accounts) /\ DOMAIN people = 1..Len(people)
  BY DEF Registered
<1>2. /\ Residents!AccountByEmail(e) \subseteq {0} \cup 1..Len(accounts)
      /\ Residents!AccountByPhone(ph) \subseteq {0} \cup 1..Len(accounts)
      /\ Residents!PersonByEmail(e) \subseteq {0} \cup 1..Len(people)
      /\ Residents!PersonByPhone(ph) \subseteq {0} \cup 1..Len(people)
      /\ \A a : Residents!PersonOf(a) \subseteq {0} \cup 1..Len(people)
  BY <1>1 DEF Residents!AccountByEmail, Residents!AccountByPhone, Residents!PersonByEmail, Residents!PersonByPhone,
              Residents!PersonOf, Residents!First
<1>3. Residents!InvitedAccount(e, ph) \subseteq {0} \cup 1..Len(accounts)
  BY <1>2 DEF Residents!InvitedAccount
<1>4. Residents!InvitedPerson(e, ph) \subseteq {0} \cup 1..Len(people)
  BY <1>2 DEF Residents!InvitedPerson
<1>5. QED
  BY <1>2, <1>3, <1>4

\* An invitation of somebody the register knows.
LEMMA PersonInvited ==
  ASSUME ResidentParameters, PeopleInv, NEW s \in Slots, NEW u \in Units, NEW e \in Emails \cup {None},
         NEW ph \in Phones \cup {None}, NEW p \in 1..Len(people),
         Residents!Begins(s, [Residents!Inviting(u, e, ph) EXCEPT
             !.person = p, !.row = Residents!Filled(people[p], Residents!Inviting(u, e, ph)),
             !.todo = <<"person", "replace", "send">>])
  PROVE  Begun(s)
<1>1. Registered /\ Len(people) \in Nat /\ Len(people) <= MaxPeople
  BY DEF PeopleInv, Registered
<1>2. PICK b : b = Residents!Inviting(u, e, ph)
  OBVIOUS
<1>3. b \in Call /\ b.op = "condominium" /\ b.unit = u
  <2>1. Invited(b, u, e, ph)
    BY <1>1, <1>2, InvitingCall
  <2>2. QED
    BY <2>1 DEF Invited
<1>4. PICK row : row = Residents!Filled(people[p], b)
  OBVIOUS
<1>5. row \in Residents!Person /\ row.account = people[p].account /\ row.account \in 0..Len(accounts)
  <2>1. people[p] \in Residents!Person /\ people[p].account \in 0..Len(accounts)
    BY <1>1 DEF Registered
  <2>2. QED
    BY <2>1, <1>3, <1>4, FilledIn
<1>6. PICK c : c = [b EXCEPT !.person = p, !.row = row, !.todo = InvitePerson]
  OBVIOUS
<1>7. InvitePerson \in Programs /\ InvitePerson \in InviteTodos /\ Head(InvitePerson) = "person"
      /\ InvitePerson \notin {ConfirmPerson, ConfirmPhone, StaffPhone, InviteSend}
  <2>1. Head(Tail(InvitePerson)) = "replace" /\ Head(Tail(ConfirmPerson)) = "phone"
    BY InviteSteps, ConfirmSteps
  <2>2. QED
    BY <2>1, InviteSteps, ConfirmSteps, OtherSteps DEF InviteTodos, Programs
<1>8. c \in Call /\ c.op = "condominium" /\ c.todo = InvitePerson /\ c.row = row /\ c.unit = u /\ c.person = p
  <2>1. p \in 0..MaxPeople
    BY <1>1 DEF ResidentParameters
  <2>2. QED
    BY <2>1, <1>3, <1>5, <1>6, <1>7 DEF Call
<1>9. Starting(c)
  <2>1. Holds(c)
    BY <1>1, <1>5, <1>7, <1>8 DEF Holds, Todos
  <2>2. QED
    BY <2>1, <1>5, <1>7, <1>8 DEF Starting
<1>10. calls' = [calls EXCEPT ![s] = c] /\ calls[s] = Residents!NoCall
  BY <1>2, <1>4, <1>6 DEF Residents!Begins, Residents!Idle, InvitePerson
<1>11. QED
  BY <1>8, <1>9, <1>10 DEF Begun

\* ... and of somebody it does not.
LEMMA NewcomerInvited ==
  ASSUME ResidentParameters, PeopleInv, NEW s \in Slots, NEW u \in Units, NEW e \in Emails \cup {None},
         NEW ph \in Phones \cup {None}, NEW row \in Residents!Person, row.account \in 0..Len(accounts),
         NEW todo \in {InviteNewPerson, InviteNew},
         Residents!Begins(s, [Residents!Inviting(u, e, ph) EXCEPT !.row = row, !.todo = todo])
  PROVE  Begun(s)
<1>1. Registered
  BY DEF PeopleInv, Registered
<1>2. PICK b : b = Residents!Inviting(u, e, ph)
  OBVIOUS
<1>3. b \in Call /\ b.op = "condominium" /\ b.unit = u
  <2>1. Invited(b, u, e, ph)
    BY <1>1, <1>2, InvitingCall
  <2>2. QED
    BY <2>1 DEF Invited
<1>4. PICK c : c = [b EXCEPT !.row = row, !.todo = todo]
  OBVIOUS
<1>5. todo \in Programs /\ todo \in InviteTodos /\ Head(todo) = "new"
      /\ todo \notin {ConfirmPerson, ConfirmPhone, StaffPhone, InviteSend}
  BY InviteSteps, ConfirmSteps, OtherSteps DEF InviteTodos, SendTodos, Programs
<1>6. c \in Call /\ c.op = "condominium" /\ c.todo = todo /\ c.row = row /\ c.unit = u
  BY <1>3, <1>4, <1>5 DEF Call
<1>7. Starting(c)
  <2>1. Holds(c)
    BY <1>1, <1>5, <1>6 DEF Holds, Todos
  <2>2. QED
    BY <2>1, <1>5, <1>6 DEF Starting
<1>8. calls' = [calls EXCEPT ![s] = c] /\ calls[s] = Residents!NoCall
  BY <1>2, <1>4 DEF Residents!Begins, Residents!Idle
<1>9. QED
  BY <1>6, <1>7, <1>8 DEF Begun

LEMMA CondominiumInvited ==
  ASSUME ResidentParameters, PeopleInv, NEW s \in Slots, NEW u \in Units, NEW e \in Emails \cup {None},
         NEW given \in Phones \cup {None}, Residents!CreateCondominiumInvitation(s, u, e, given)
  PROVE  Begun(s)
<1>1. Registered /\ Len(accounts) \in Nat /\ Len(accounts) <= MaxAccounts
  BY DEF PeopleInv, Registered
<1>2. PICK ph : ph = Residents!InvitePhone(u, e, given)
  OBVIOUS
<1>3. ph \in Phones \cup {None}
  <2>1. units[u].pending \in Phones \cup {None}
    BY <1>1 DEF Registered, Residents!Unit
  <2>2. QED
    BY <2>1, <1>2 DEF Residents!InvitePhone
<1>4. CASE \E p \in Residents!InvitedPerson(e, ph) \ {0} :
             Residents!Begins(s, [Residents!Inviting(u, e, ph) EXCEPT
                 !.person = p, !.row = Residents!Filled(people[p], Residents!Inviting(u, e, ph)),
                 !.todo = <<"person", "replace", "send">>])
  <2>1. PICK p \in Residents!InvitedPerson(e, ph) \ {0} :
             Residents!Begins(s, [Residents!Inviting(u, e, ph) EXCEPT
                 !.person = p, !.row = Residents!Filled(people[p], Residents!Inviting(u, e, ph)),
                 !.todo = <<"person", "replace", "send">>])
    BY <1>4
  <2>2. p \in 1..Len(people)
    BY <1>1, RowsFound
  <2>3. QED
    BY <2>1, <2>2, <1>3, PersonInvited
<1>5. CASE \E a \in Residents!InvitedAccount(e, ph) \ {0} :
             Residents!Begins(s, [Residents!Inviting(u, e, ph) EXCEPT
                 !.row = [email |-> accounts[a].email,
                          phone |-> IF accounts[a].email = e THEN None ELSE accounts[a].phone, account |-> a],
                 !.todo = <<"new", "person", "replace", "send">>])
  <2>1. PICK a \in Residents!InvitedAccount(e, ph) \ {0} :
             Residents!Begins(s, [Residents!Inviting(u, e, ph) EXCEPT
                 !.row = [email |-> accounts[a].email,
                          phone |-> IF accounts[a].email = e THEN None ELSE accounts[a].phone, account |-> a],
                 !.todo = <<"new", "person", "replace", "send">>])
    BY <1>5
  <2>2. a \in 1..Len(accounts)
    BY <1>1, RowsFound
  <2>3. PICK row : row = [email |-> accounts[a].email,
                          phone |-> IF accounts[a].email = e THEN None ELSE accounts[a].phone, account |-> a]
    OBVIOUS
  <2>4. row \in Residents!Person /\ row.account \in 0..Len(accounts)
    <3>1. accounts[a] \in Residents!Account /\ a \in 0..MaxAccounts /\ a \in 0..Len(accounts)
      BY <1>1, <2>2 DEF Registered, ResidentParameters
    <3>2. QED
      BY <3>1, <2>3 DEF Residents!Person, Residents!Account
  <2>5. Residents!Begins(s, [Residents!Inviting(u, e, ph) EXCEPT !.row = row, !.todo = InviteNewPerson])
    BY <2>1, <2>3 DEF InviteNewPerson
  <2>6. QED
    BY <2>4, <2>5, <1>3, NewcomerInvited
<1>6. CASE Residents!Begins(s, [Residents!Inviting(u, e, ph) EXCEPT
                 !.row = [email |-> e, phone |-> ph, account |-> 0], !.todo = <<"new", "replace", "send">>])
  <2>1. PICK row : row = [email |-> e, phone |-> ph, account |-> 0]
    OBVIOUS
  <2>2. row \in Residents!Person /\ row.account \in 0..Len(accounts)
    BY <2>1, <1>1, <1>3 DEF Residents!Person, ResidentParameters
  <2>3. Residents!Begins(s, [Residents!Inviting(u, e, ph) EXCEPT !.row = row, !.todo = InviteNew])
    BY <2>1, <1>6 DEF InviteNew
  <2>4. QED
    BY <2>2, <2>3, <1>3, NewcomerInvited
<1>7. QED
  BY <1>2, <1>4, <1>5, <1>6 DEF Residents!CreateCondominiumInvitation

\* The fields of an acceptance before its steps are known.
Accepted(b, i, ph) ==
    /\ b \in Call /\ b.op = "accept" /\ b.invite = i /\ b.person = invites[i].person /\ b.unit = invites[i].unit
    /\ b.row.account = people[invites[i].person].account /\ b.phone = ph /\ ~ b.related /\ b.owned = 0
    /\ b.unitRow.financial = units[invites[i].unit].financial
    /\ b.unitRow.owner = IF invites[i].owner THEN invites[i].person ELSE units[invites[i].unit].owner

LEMMA AcceptingCall ==
  ASSUME ResidentParameters, Registered, NEW i \in 1..Len(invites), NEW ph \in Phones
  PROVE  Accepted(Residents!Accepting(i, ph), i, ph)
<1>1. PICK n \in Call : n = Residents!NoCall /\ n.related = FALSE /\ n.owned = 0
  BY NoCallHolds DEF Residents!NoCall
<1>2. PICK inv \in Residents!Invite : inv = invites[i] /\ inv.person \in 1..Len(people)
  BY DEF Registered
<1>3. PICK v \in Residents!Unit : v = units[inv.unit] /\ inv.unit \in Units
  BY <1>2 DEF Registered, Residents!Invite
<1>4. PICK row : row = Residents!WithPhone(people[inv.person], ph)
  OBVIOUS
<1>5. row \in Residents!Person /\ row.account = people[inv.person].account
  BY <1>2, <1>4, PhoneGiven DEF Registered
<1>6. PICK o : o = IF inv.owner THEN inv.person ELSE v.owner
  OBVIOUS
<1>7. o \in 0..MaxPeople /\ inv.person \in 0..MaxPeople /\ i \in Nat
  BY <1>2, <1>3, <1>6 DEF Registered, Residents!Invite, Residents!Unit
<1>8. PICK w : w = [v EXCEPT !.owner = o, !.pending = None]
  OBVIOUS
<1>9. w \in Residents!Unit /\ w.owner = o /\ w.financial = v.financial
  BY <1>7, <1>8 DEF Residents!Unit
<1>10. PICK b : b = [n EXCEPT !.op = "accept", !.invite = i, !.unit = inv.unit, !.person = inv.person,
                              !.row = row, !.phone = ph, !.email = inv.email, !.unitRow = w]
  OBVIOUS
<1>11. b = Residents!Accepting(i, ph)
  BY <1>1, <1>2, <1>3, <1>4, <1>6, <1>8, <1>10 DEF Residents!Accepting
<1>12. inv.email \in Emails \cup {None}
  BY DEF Residents!Invite
<1>13. b \in Call
  BY <1>1, <1>3, <1>5, <1>7, <1>9, <1>10, <1>12 DEF Call, Ops
<1>14. /\ b.op = "accept" /\ b.invite = i /\ b.person = inv.person /\ b.unit = inv.unit /\ b.row = row
       /\ b.phone = ph /\ ~ b.related /\ b.owned = 0 /\ b.unitRow = w
  BY <1>1, <1>10 DEF Call
<1>15. Accepted(b, i, ph)
  BY <1>2, <1>3, <1>5, <1>6, <1>9, <1>13, <1>14 DEF Accepted
<1>16. QED
  BY <1>11, <1>15

\* What an acceptance starts from, whatever its steps.
LEMMA AcceptOpens ==
  ASSUME ResidentParameters, Registered, NEW i \in 1..Len(invites), NEW ph, NEW b, Accepted(b, i, ph),
         NEW c \in Call, c.op = "accept", c.invite = i, c.person = b.person, c.unit = b.unit, c.related = b.related,
         c.owned = b.owned, c.unitRow = b.unitRow, c.todo \in AcceptTodos, c.row.account \in 0..Len(accounts),
         people[c.person].account \in {0, c.row.account},
         c.todo \in {JoinAccount, OwnAccount, ConfirmPerson, ConfirmPhone},
         c.todo = OwnAccount => ~ invites[i].responsible,
         c.todo \in {ConfirmPerson, ConfirmPhone} => c.row.account # 0 /\ c.account \in 1..Len(accounts),
         c.todo \in {JoinAccount, OwnAccount} => c.row.account = 0,
         c.todo = ConfirmPhone => people[c.person].account # 0
  PROVE  Starting(c)
<1>1. /\ invites[i].person \in 1..Len(people) /\ invites[i].unit \in Units /\ Len(people) \in Nat
  <2>1. invites[i] \in Residents!Invite /\ invites[i].person \in 1..Len(people) /\ Len(people) \in Nat
    BY DEF Registered
  <2>2. QED
    BY <2>1 DEF Residents!Invite
<1>2. /\ units[c.unit].owner \in 0..Len(people) /\ units[c.unit].financial \in 0..Len(people)
      /\ c.person = invites[i].person /\ c.unit = invites[i].unit /\ ~ c.related /\ c.owned = 0
      /\ c.unitRow.financial = units[c.unit].financial
      /\ c.unitRow.owner = IF invites[i].owner THEN c.person ELSE units[c.unit].owner
  BY <1>1 DEF Accepted, Registered
<1>3. /\ Head(c.todo) # "new" /\ c.todo # InviteSend /\ c.todo # StaffPhone
      /\ c.todo \in {ConfirmPerson, ConfirmPhone} => Head(c.todo) # "account"
      /\ c.todo \in {JoinAccount, OwnAccount} => Head(c.todo) = "account" /\ c.todo \notin {ConfirmPerson, ConfirmPhone}
      /\ c.todo \notin AfterUnit /\ c.todo \notin AfterLink
      /\ c.todo \in AfterPerson => c.todo = ConfirmPhone
      /\ c.todo \in Unlinked => c.todo = OwnAccount
  <2>1. CASE c.todo = JoinAccount
    <3>1. JoinAccount # OwnAccount
      BY AcceptSteps
    <3>2. JoinAccount \notin AfterPerson \cup AfterUnit \cup AfterLink
      BY AcceptSteps, ConfirmSteps DEF AfterPerson, AfterUnit, AfterLink
    <3>3. JoinAccount \notin {OwnPerson, OwnUnit, ConfirmPerson, ConfirmPhone, InviteSend, StaffPhone}
      BY AcceptSteps, ConfirmSteps, InviteSteps, OtherSteps
    <3>4. Head(JoinAccount) = "account"
      BY AcceptSteps
    <3>5. QED
      BY <2>1, <3>1, <3>2, <3>3, <3>4 DEF Unlinked
  <2>2. CASE c.todo = OwnAccount
    <3>1. OwnAccount \notin AfterPerson \cup AfterUnit \cup AfterLink
      BY AcceptSteps, ConfirmSteps DEF AfterPerson, AfterUnit, AfterLink
    <3>2. OwnAccount \notin {ConfirmPerson, ConfirmPhone, InviteSend, StaffPhone}
      BY AcceptSteps, ConfirmSteps, InviteSteps, OtherSteps
    <3>3. Head(OwnAccount) = "account"
      BY AcceptSteps
    <3>4. QED
      BY <2>2, <3>1, <3>2, <3>3
  <2>3. CASE c.todo = ConfirmPerson
    <3>1. ConfirmPerson # ConfirmAgain /\ ConfirmPerson # OwnPerson
      <4>1. Head(Tail(ConfirmPerson)) = "phone" /\ Head(Tail(ConfirmAgain)) = "consume" /\ Head(Tail(OwnPerson)) = "unit"
        BY AcceptSteps, ConfirmSteps
      <4>2. QED
        BY <4>1
    <3>2. ConfirmPerson \notin {JoinUnit, JoinLink, OwnUnit, ConfirmPhone, ConfirmUnit, ConfirmLink, Consuming,
                                JoinAccount, OwnAccount, InviteSend, StaffPhone}
      BY AcceptSteps, ConfirmSteps, InviteSteps, OtherSteps
    <3>3. Head(ConfirmPerson) = "person"
      BY ConfirmSteps
    <3>4. QED
      BY <2>3, <3>1, <3>2, <3>3 DEF AfterPerson, AfterUnit, AfterLink, Unlinked
  <2>4. CASE c.todo = ConfirmPhone
    <3>1. ConfirmPhone \notin AfterUnit \cup AfterLink \cup Unlinked
      BY AcceptSteps, ConfirmSteps DEF AfterUnit, AfterLink, Unlinked
    <3>2. ConfirmPhone \notin {JoinAccount, OwnAccount, InviteSend, StaffPhone}
      BY AcceptSteps, ConfirmSteps, InviteSteps, OtherSteps
    <3>3. Head(ConfirmPhone) = "phone"
      BY ConfirmSteps
    <3>4. QED
      BY <2>4, <3>1, <3>2, <3>3
  <2>5. QED
    BY <2>1, <2>2, <2>3, <2>4
<1>4. Holds(c)
  <2>1. c.unitRow.owner \in 0..Len(people) /\ c.person \in 1..Len(people) /\ c.unit \in Units
    BY <1>1, <1>2
  <2>2. c.owned \in 0..Len(people) /\ c.unitRow.financial \in 0..Len(people)
    BY <1>1, <1>2
  <2>3. QED
    BY <2>1, <2>2, <1>3 DEF Holds, Todos
<1>5. Accepts(c)
  BY <1>2, <1>3 DEF Accepts
<1>6. QED
  BY <1>2, <1>3, <1>4, <1>5 DEF Starting

LEMMA AcceptJoins ==
  ASSUME ResidentParameters, PeopleInv, NEW s \in Slots, NEW i \in 1..Len(invites), NEW ph \in Phones,
         Residents!Join(s, i, ph)
  PROVE  Begun(s)
<1>1. Registered /\ Len(accounts) \in Nat
  BY DEF PeopleInv, Registered
<1>2. PICK b : b = Residents!Accepting(i, ph)
  OBVIOUS
<1>3. Accepted(b, i, ph)
  BY <1>1, <1>2, AcceptingCall
<1>4. PICK inv \in Residents!Invite : inv = invites[i]
  BY <1>1 DEF Registered
<1>5. PICK todo : todo = Residents!JoinSteps(i)
  OBVIOUS
<1>6. PICK e : e = IF inv.kind = "condominium" /\ inv.email # None THEN inv.email ELSE b.row.email
  OBVIOUS
<1>7. PICK row : row = [b.row EXCEPT !.email = e]
  OBVIOUS
<1>8. b \in Call /\ b.op = "accept" /\ b.invite = i /\ b.row \in Residents!Person /\ b.person = invites[i].person
      /\ b.row.account = people[b.person].account
  BY <1>3 DEF Accepted, Call
<1>9. people[b.person].account = 0
  BY <1>8 DEF Residents!Join
<1>10. row \in Residents!Person /\ row.account = 0
  BY <1>4, <1>6, <1>7, <1>8, <1>9 DEF Residents!Person, Residents!Invite
<1>11. PICK c : c = [b EXCEPT !.todo = todo, !.row = row]
  OBVIOUS
<1>12. calls' = [calls EXCEPT ![s] = c] /\ calls[s] = Residents!NoCall
  <2>1. Residents!Begins(s, [Residents!Accepting(i, ph) EXCEPT !.todo = Residents!JoinSteps(i),
              !.row.email = IF inv.kind = "condominium" /\ inv.email # None THEN inv.email ELSE @])
    BY <1>4 DEF Residents!Join
  <2>2. [Residents!Accepting(i, ph) EXCEPT !.todo = Residents!JoinSteps(i),
              !.row.email = IF inv.kind = "condominium" /\ inv.email # None THEN inv.email ELSE @] = c
    BY <1>2, <1>5, <1>6, <1>7, <1>8, <1>11 DEF Call, Residents!Person
  <2>3. QED
    BY <2>1, <2>2 DEF Residents!Begins, Residents!Idle
<1>13. todo = IF invites[i].responsible THEN JoinAccount ELSE OwnAccount
  BY <1>5, JoiningSteps
<1>14. todo \in Programs /\ todo \in AcceptTodos /\ todo \in {JoinAccount, OwnAccount}
       /\ (todo = OwnAccount => ~ invites[i].responsible) /\ todo \notin {ConfirmPerson, ConfirmPhone}
  <2>1. JoinAccount # OwnAccount
    BY AcceptSteps
  <2>2. QED
    BY <2>1, <1>13, AcceptSteps, ConfirmSteps DEF AcceptTodos, Programs
<1>15. /\ c \in Call /\ c.op = "accept" /\ c.invite = i /\ c.person = b.person /\ c.unit = b.unit
       /\ c.related = b.related /\ c.owned = b.owned /\ c.unitRow = b.unitRow /\ c.todo = todo /\ c.row = row
  BY <1>8, <1>10, <1>11, <1>14 DEF Call
<1>16. Starting(c)
  BY <1>1, <1>3, <1>9, <1>10, <1>14, <1>15, AcceptOpens
<1>17. QED
  BY <1>12, <1>15, <1>16 DEF Begun

LEMMA AcceptConfirms ==
  ASSUME ResidentParameters, PeopleInv, NEW s \in Slots, NEW i \in 1..Len(invites), NEW a \in 1..Len(accounts),
         NEW ph \in Phones, Residents!Confirm(s, i, a, ph)
  PROVE  Begun(s)
<1>1. Registered /\ Len(accounts) \in Nat /\ Len(accounts) <= MaxAccounts
  BY DEF PeopleInv, Registered
<1>2. PICK b : b = Residents!Accepting(i, ph)
  OBVIOUS
<1>3. Accepted(b, i, ph)
  BY <1>1, <1>2, AcceptingCall
<1>4. PICK inv \in Residents!Invite : inv = invites[i] /\ inv.person \in 1..Len(people)
  BY <1>1 DEF Registered
<1>5. PICK loaded \in Residents!Person : loaded = people[inv.person]
  BY <1>1, <1>4 DEF Registered
<1>6. PICK e : e = IF loaded.email = None THEN inv.email ELSE loaded.email
  OBVIOUS
<1>7. PICK row : row = [loaded EXCEPT !.account = a, !.email = e]
  OBVIOUS
<1>8. /\ b \in Call /\ b.op = "accept" /\ b.invite = i /\ b.person = inv.person
      /\ a \in 0..MaxAccounts /\ a \in 0..Len(accounts) /\ a # 0
  BY <1>1, <1>3, <1>4 DEF Accepted, Call, ResidentParameters
<1>9. row \in Residents!Person /\ row.account = a
  BY <1>4, <1>6, <1>7, <1>8 DEF Residents!Person, Residents!Invite
<1>10. /\ ConfirmPerson \in Programs /\ ConfirmPhone \in Programs /\ ConfirmPerson \in AcceptTodos
       /\ ConfirmPhone \in AcceptTodos /\ ConfirmPhone # ConfirmPerson
       /\ OwnAccount \notin {ConfirmPhone, ConfirmPerson} /\ JoinAccount \notin {ConfirmPhone, ConfirmPerson}
  BY AcceptSteps, ConfirmSteps DEF AcceptTodos, Programs, AfterPerson
<1>11. CASE loaded.account = 0 /\ Residents!Begins(s, [b EXCEPT !.account = a, !.row = row, !.todo = ConfirmPerson])
  <2>1. PICK c : c = [b EXCEPT !.account = a, !.row = row, !.todo = ConfirmPerson]
    OBVIOUS
  <2>2. /\ c \in Call /\ c.op = "accept" /\ c.invite = i /\ c.person = b.person /\ c.unit = b.unit /\ c.account = a
        /\ c.related = b.related /\ c.owned = b.owned /\ c.unitRow = b.unitRow /\ c.todo = ConfirmPerson /\ c.row = row
    BY <2>1, <1>8, <1>9, <1>10 DEF Call
  <2>3. Starting(c)
    BY <2>2, <1>1, <1>3, <1>5, <1>8, <1>9, <1>10, <1>11, AcceptOpens
  <2>4. calls' = [calls EXCEPT ![s] = c] /\ calls[s] = Residents!NoCall
    BY <2>1, <1>11 DEF Residents!Begins, Residents!Idle
  <2>5. QED
    BY <2>2, <2>3, <2>4 DEF Begun
<1>12. CASE loaded.account = a /\ Residents!Begins(s, [b EXCEPT !.account = a, !.row = loaded, !.todo = ConfirmPhone])
  <2>1. PICK c : c = [b EXCEPT !.account = a, !.row = loaded, !.todo = ConfirmPhone]
    OBVIOUS
  <2>2. /\ c \in Call /\ c.op = "accept" /\ c.invite = i /\ c.person = b.person /\ c.unit = b.unit /\ c.account = a
        /\ c.related = b.related /\ c.owned = b.owned /\ c.unitRow = b.unitRow /\ c.todo = ConfirmPhone /\ c.row = loaded
    BY <2>1, <1>8, <1>10 DEF Call
  <2>3. Starting(c)
    BY <2>2, <1>1, <1>3, <1>5, <1>8, <1>10, <1>12, AcceptOpens
  <2>4. calls' = [calls EXCEPT ![s] = c] /\ calls[s] = Residents!NoCall
    BY <2>1, <1>12 DEF Residents!Begins, Residents!Idle
  <2>5. QED
    BY <2>2, <2>3, <2>4 DEF Begun
<1>13. \/ loaded.account = 0 /\ Residents!Begins(s, [b EXCEPT !.account = a, !.row = row, !.todo = ConfirmPerson])
       \/ loaded.account = a /\ Residents!Begins(s, [b EXCEPT !.account = a, !.row = loaded, !.todo = ConfirmPhone])
  <2>1. [loaded EXCEPT !.account = a, !.email = IF @ = None THEN inv.email ELSE @] = row
    BY <1>6, <1>7
  <2>2. \/ /\ loaded.account = 0
           /\ Residents!Begins(s, [[b EXCEPT !.account = a] EXCEPT !.row = row, !.todo = <<"person">> \o ConfirmPhone])
        \/ /\ loaded.account = a
           /\ Residents!Begins(s, [[b EXCEPT !.account = a] EXCEPT !.row = loaded, !.todo = ConfirmPhone])
    BY <2>1, <1>2, <1>4, <1>5 DEF Residents!Confirm, ConfirmPhone
  <2>3. <<"person">> \o ConfirmPhone = ConfirmPerson
    BY RequestSteps
  <2>4. /\ [[b EXCEPT !.account = a] EXCEPT !.row = row, !.todo = ConfirmPerson] =
             [b EXCEPT !.account = a, !.row = row, !.todo = ConfirmPerson]
        /\ [[b EXCEPT !.account = a] EXCEPT !.row = loaded, !.todo = ConfirmPhone] =
             [b EXCEPT !.account = a, !.row = loaded, !.todo = ConfirmPhone]
    BY <1>8 DEF Call
  <2>5. QED
    BY <2>2, <2>3, <2>4
<1>14. QED
  BY <1>11, <1>12, <1>13

LEMMA InvitationAccepted ==
  ASSUME ResidentParameters, PeopleInv, NEW s \in Slots, NEW i \in DOMAIN invites, NEW ph \in Phones,
         Residents!AcceptUnitInvitation(s, i, ph) \/ Residents!AcceptCondominiumInvitation(s, i, ph)
  PROVE  Begun(s)
<1>1. Registered /\ i \in 1..Len(invites)
  BY DEF PeopleInv, Registered
<1>2. CASE Residents!Join(s, i, ph)
  BY <1>1, <1>2, AcceptJoins
<1>3. CASE \E a \in Residents!InvitedAccount(invites[i].email, invites[i].phone) : a # 0 /\ Residents!Confirm(s, i, a, ph)
  <2>1. PICK a \in Residents!InvitedAccount(invites[i].email, invites[i].phone) : a # 0 /\ Residents!Confirm(s, i, a, ph)
    BY <1>3
  <2>2. a \in 1..Len(accounts)
    BY <2>1, <1>1, RowsFound
  <2>3. QED
    BY <2>1, <2>2, <1>1, AcceptConfirms
<1>4. QED
  BY <1>2, <1>3 DEF Residents!AcceptUnitInvitation, Residents!AcceptCondominiumInvitation

LEMMA PhonePatched ==
  ASSUME ResidentParameters, PeopleInv, NEW s \in Slots, NEW u \in Units, NEW p \in DOMAIN people,
         NEW ph \in Phones \cup {None}, Residents!PatchPersonPhone(s, u, p, ph)
  PROVE  Begun(s)
<1>1. /\ Registered /\ p \in 1..Len(people) /\ Len(people) \in Nat /\ Len(people) <= MaxPeople
      /\ Len(accounts) \in Nat /\ Len(accounts) <= MaxAccounts
  BY DEF PeopleInv, Registered
<1>2. PICK old \in Residents!Person : old = people[p] /\ old.account \in 0..Len(accounts)
  BY <1>1 DEF Registered
<1>3. PICK row : row = [old EXCEPT !.phone = ph]
  OBVIOUS
<1>4. row \in Residents!Person /\ row.account = old.account
  BY <1>3 DEF Residents!Person
<1>5. PICK n \in Call : n = Residents!NoCall
  BY <1>1, NoCallHolds
<1>6. PICK todo : todo = IF old.account # 0 THEN StaffPhone ELSE OnlyPerson
  OBVIOUS
<1>7. PICK c : c = [n EXCEPT !.op = "phone", !.account = old.account, !.person = p, !.phone = ph,
                             !.row = row, !.todo = todo]
  OBVIOUS
<1>8. /\ todo \in Programs /\ todo \in {StaffPhone, OnlyPerson} /\ Head(todo) # "new"
      /\ todo \notin {ConfirmPerson, ConfirmPhone, InviteSend} /\ (todo = StaffPhone => old.account # 0)
  <2>1. Tail(OnlyPerson) # Tail(ConfirmPerson) /\ StaffPhone # OnlyPerson
    BY ConfirmSteps, OtherSteps
  <2>2. StaffPhone \notin {ConfirmPerson, ConfirmPhone, InviteSend} /\ OnlyPerson \notin {ConfirmPerson, ConfirmPhone, InviteSend}
    BY <2>1, ConfirmSteps, OtherSteps, InviteSteps
  <2>3. Head(StaffPhone) = "staff" /\ Head(OnlyPerson) = "person"
    BY OtherSteps
  <2>4. todo \in {StaffPhone, OnlyPerson} /\ (todo = StaffPhone => old.account # 0)
    BY <2>1, <1>6
  <2>5. QED
    BY <2>2, <2>3, <2>4 DEF Programs
<1>9. c \in Call /\ c.op = "phone" /\ c.account = old.account /\ c.person = p /\ c.row = row /\ c.todo = todo
  <2>1. old.account \in 0..MaxAccounts /\ p \in 0..MaxPeople
    BY <1>1, <1>2 DEF ResidentParameters
  <2>2. QED
    BY <2>1, <1>4, <1>5, <1>7, <1>8 DEF Call, Ops
<1>10. Starting(c)
  <2>1. Holds(c)
    BY <1>1, <1>2, <1>4, <1>8, <1>9 DEF Holds, Todos
  <2>2. QED
    BY <2>1, <1>2, <1>4, <1>8, <1>9 DEF Starting
<1>11. calls' = [calls EXCEPT ![s] = c] /\ calls[s] = Residents!NoCall
  <2>1. /\ Residents!Idle(s)
        /\ calls' = [calls EXCEPT ![s] =
                       [n EXCEPT !.op = "phone", !.account = old.account, !.person = p, !.phone = ph,
                                 !.row = [old EXCEPT !.phone = ph],
                                 !.todo = IF old.account # 0 THEN <<"staff", "person">> ELSE <<"person">>]]
    BY <1>2, <1>5 DEF Residents!PatchPersonPhone, Residents!Begins
  <2>2. QED
    BY <2>1, <1>3, <1>6, <1>7 DEF StaffPhone, OnlyPerson, Residents!Idle
<1>12. QED
  BY <1>9, <1>10, <1>11 DEF Begun

LEMMA ResponsibleRemoved ==
  ASSUME ResidentParameters, PeopleInv, NEW s \in Slots, NEW u \in Units, NEW p \in {0} \cup DOMAIN people,
         Residents!RemoveResponsible(s, u, p)
  PROVE  /\ \E c \in Call : /\ calls' = [calls EXCEPT ![s] = c] /\ calls[s] = Residents!NoCall /\ Starting(c)
                            /\ c.op = "unlink" /\ c.unit = u /\ c.person = p
<1>1. Registered /\ p \in 0..Len(people) /\ Len(people) \in Nat /\ Len(people) <= MaxPeople /\ Len(accounts) \in Nat
  BY DEF PeopleInv, Registered
<1>2. PICK n \in Call : n = Residents!NoCall /\ n.row.account = 0
  BY <1>1, NoCallHolds DEF Residents!NoCall, Residents!NoPerson
<1>3. PICK c : c = [n EXCEPT !.op = "unlink", !.unit = u, !.person = p, !.todo = OnlyForget]
  OBVIOUS
<1>4. OnlyForget \in Programs /\ OnlyForget \notin {ConfirmPerson, ConfirmPhone, StaffPhone, InviteSend}
  BY ConfirmSteps, OtherSteps, InviteSteps DEF Programs
<1>5. c \in Call /\ c.op = "unlink" /\ c.unit = u /\ c.person = p /\ c.todo = OnlyForget /\ c.row = n.row
  <2>1. p \in 0..MaxPeople
    BY <1>1 DEF ResidentParameters
  <2>2. QED
    BY <2>1, <1>2, <1>3, <1>4 DEF Call, Ops
<1>6. Starting(c)
  <2>1. Holds(c)
    BY <1>1, <1>2, <1>4, <1>5 DEF Holds, Todos
  <2>2. QED
    BY <2>1, <1>4, <1>5 DEF Starting
<1>7. calls' = [calls EXCEPT ![s] = c] /\ calls[s] = Residents!NoCall
  BY <1>2, <1>3 DEF Residents!RemoveResponsible, Residents!Begins, Residents!Idle, OnlyForget
<1>8. QED
  BY <1>5, <1>6, <1>7

LEMMA ProfileUpdated ==
  ASSUME ResidentParameters, PeopleInv, NEW s \in Slots, NEW a \in DOMAIN accounts, NEW e \in Emails, NEW ph \in Phones,
         NEW named \in BOOLEAN, Residents!UpdateProfile(s, a, e, ph, named)
  PROVE  /\ accounts' \in Seq(Residents!Account) /\ Len(accounts') = Len(accounts)
         /\ Begun(s) \/ calls' = calls
<1>1. /\ Registered /\ DOMAIN people = 1..Len(people) /\ Len(people) \in Nat /\ Len(people) <= MaxPeople
      /\ Len(accounts) \in Nat /\ Len(accounts) <= MaxAccounts /\ a \in 1..Len(accounts)
  BY DEF PeopleInv, Registered
<1>2. PICK acc : acc = [email |-> e, phone |-> ph]
  OBVIOUS
<1>3. accounts' \in Seq(Residents!Account) /\ Len(accounts') = Len(accounts)
  <2>1. acc \in Residents!Account
    BY <1>2 DEF Residents!Account
  <2>2. accounts \in Seq(Residents!Account) /\ accounts' = [accounts EXCEPT ![a] = acc]
    BY <1>1, <1>2 DEF Registered, Residents!UpdateProfile
  <2>3. QED
    BY <2>1, <2>2, <1>1, ExceptSeq
<1>4. CASE calls' = calls
  BY <1>3, <1>4
<1>5. CASE \E c \in Residents!PersonForMe(a, acc, named) : Residents!Begins(s, c)
  <2>1. PICK row : row = [email |-> acc.email, phone |-> acc.phone, account |-> a]
    OBVIOUS
  <2>2. PICK n \in Call : n = Residents!NoCall
    BY <1>1, NoCallHolds
  <2>3. PICK p \in Residents!PersonOf(a) :
          Residents!Begins(s, [n EXCEPT !.op = "profile", !.account = a, !.person = p, !.row = row,
                                        !.todo = IF p # 0 THEN <<"person">> ELSE <<"new">>])
    <3>1. PICK c \in Residents!PersonForMe(a, acc, named) : Residents!Begins(s, c)
      BY <1>5
    <3>2. \E p \in Residents!PersonOf(a) :
            c = [n EXCEPT !.op = "profile", !.account = a, !.person = p, !.row = row,
                          !.todo = IF p # 0 THEN <<"person">> ELSE <<"new">>]
      BY <2>1, <2>2 DEF Residents!PersonForMe
    <3>3. QED
      BY <3>1, <3>2
  <2>4. p = 0 \/ (p \in 1..Len(people) /\ people[p].account = a)
    BY <1>1 DEF Residents!PersonOf, Residents!First
  <2>5. row \in Residents!Person /\ row.account = a
    <3>1. acc.email = e /\ acc.phone = ph /\ a \in 0..MaxAccounts
      BY <1>1, <1>2 DEF ResidentParameters
    <3>2. QED
      BY <3>1, <2>1 DEF Residents!Person
  <2>6. PICK todo : todo = IF p # 0 THEN OnlyPerson ELSE OnlyNew
    OBVIOUS
  <2>7. PICK c : c = [n EXCEPT !.op = "profile", !.account = a, !.person = p, !.row = row, !.todo = todo]
    OBVIOUS
  <2>8. /\ todo \in Programs /\ todo \in {OnlyPerson, OnlyNew} /\ (Head(todo) # "new" => p # 0)
        /\ todo \notin {ConfirmPerson, ConfirmPhone, StaffPhone, InviteSend}
    <3>1. Tail(OnlyPerson) # Tail(ConfirmPerson)
      BY ConfirmSteps, OtherSteps
    <3>2. OnlyNew \notin {ConfirmPerson, ConfirmPhone, StaffPhone, InviteSend}
          /\ OnlyPerson \notin {ConfirmPerson, ConfirmPhone, StaffPhone, InviteSend}
      BY <3>1, ConfirmSteps, OtherSteps, InviteSteps
    <3>3. Head(OnlyNew) = "new" /\ Head(OnlyPerson) = "person"
      BY OtherSteps
    <3>4. QED
      BY <3>2, <3>3, <2>6 DEF Programs
  <2>9. c \in Call /\ c.op = "profile" /\ c.account = a /\ c.person = p /\ c.row = row /\ c.todo = todo
    <3>1. a \in 0..MaxAccounts /\ p \in 0..MaxPeople
      BY <1>1, <2>4 DEF ResidentParameters
    <3>2. QED
      BY <3>1, <2>2, <2>5, <2>7, <2>8 DEF Call, Ops
  <2>10. Starting(c)
    <3>1. Holds(c)
      BY <1>1, <2>4, <2>5, <2>8, <2>9 DEF Holds, Todos
    <3>2. QED
      BY <3>1, <2>4, <2>5, <2>8, <2>9 DEF Starting
  <2>11. calls' = [calls EXCEPT ![s] = c] /\ calls[s] = Residents!NoCall
    BY <2>3, <2>6, <2>7 DEF Residents!Begins, Residents!Idle, OnlyPerson, OnlyNew
  <2>12. QED
    BY <2>9, <2>10, <2>11, <1>3 DEF Begun
<1>6. QED
  BY <1>2, <1>4, <1>5 DEF Residents!UpdateProfile

LEMMA PeopleBegin ==
  ASSUME PeopleInv, NEW s \in Slots, Begun(s), Registered', Grows, crashed' = crashed PROVE PeopleInv'
<1>1. PICK c \in Call : calls' = [calls EXCEPT ![s] = c] /\ Starting(c)
  BY DEF Begun
<1>2. Holds(c)'
  <2>1. Holds(c)
    BY <1>1 DEF Starting
  <2>2. QED
    BY <2>1, HoldsOn DEF PeopleInv
<1>3. crashed' \in Nat
  BY DEF PeopleInv
<1>4. QED
  BY <1>1, <1>2, <1>3, PeopleMoves

LEMMA RequestsHold ==
  ASSUME ResidentParameters, PeopleInv, NEW s \in Slots, Residents!Requests(s) PROVE PeopleInv'
<1>1. Registered
  BY DEF PeopleInv
<1>2. CASE \E a \in DOMAIN accounts, e \in Emails, ph \in Phones, named \in BOOLEAN :
              Residents!UpdateProfile(s, a, e, ph, named)
  <2>1. PICK a \in DOMAIN accounts, e \in Emails, ph \in Phones, named \in BOOLEAN :
              Residents!UpdateProfile(s, a, e, ph, named)
    BY <1>2
  <2>2. /\ accounts' \in Seq(Residents!Account) /\ Len(accounts') = Len(accounts)
        /\ Begun(s) \/ calls' = calls
    BY <2>1, ProfileUpdated
  <2>3. UNCHANGED <<people, units, links, invites, crashed>>
    BY <2>1 DEF Residents!UpdateProfile
  <2>4. Registered' /\ Grows
    <3>1. Len(accounts) <= Len(accounts') /\ Len(accounts') <= MaxAccounts
      BY <2>2, <1>1 DEF Registered
    <3>2. QED
      BY <3>1, <2>2, <2>3, <1>1, RegisterAccounts
  <2>5. crashed' = crashed /\ crashed' \in Nat
    BY <2>3 DEF PeopleInv
  <2>6. QED
    BY <2>2, <2>4, <2>5, PeopleBegin, PeopleStay
<1>3. CASE \E u \in Units, role \in Residents!Roles, e \in Emails, ph \in Phones \cup {None} :
              Residents!AssignToUnit(s, u, role, e, ph)
  <2>1. PICK u \in Units, role \in Residents!Roles, e \in Emails, ph \in Phones \cup {None} :
              Residents!AssignToUnit(s, u, role, e, ph)
    BY <1>3
  <2>2. UNCHANGED <<accounts, people, units, links, invites, crashed>>
    BY <2>1 DEF Residents!AssignToUnit
  <2>3. Begun(s)
    BY <2>1, PersonAssigned, AccountAssigned, StrangerAssigned DEF Residents!AssignToUnit
  <2>4. QED
    BY <2>2, <2>3, <1>1, RegisterSame, PeopleBegin
<1>4. CASE \E u \in Units, e \in Emails \cup {None}, ph \in Phones \cup {None} :
              Residents!CreateCondominiumInvitation(s, u, e, ph)
  <2>1. PICK u \in Units, e \in Emails \cup {None}, ph \in Phones \cup {None} :
              Residents!CreateCondominiumInvitation(s, u, e, ph)
    BY <1>4
  <2>2. UNCHANGED <<accounts, people, units, links, invites, crashed>>
    BY <2>1 DEF Residents!CreateCondominiumInvitation
  <2>3. Begun(s)
    BY <2>1, CondominiumInvited
  <2>4. QED
    BY <2>2, <2>3, <1>1, RegisterSame, PeopleBegin
<1>5. CASE \E i \in DOMAIN invites, ph \in Phones :
              Residents!AcceptUnitInvitation(s, i, ph) \/ Residents!AcceptCondominiumInvitation(s, i, ph)
  <2>1. PICK i \in DOMAIN invites, ph \in Phones :
              Residents!AcceptUnitInvitation(s, i, ph) \/ Residents!AcceptCondominiumInvitation(s, i, ph)
    BY <1>5
  <2>2. UNCHANGED <<accounts, people, units, links, invites, crashed>>
    BY <2>1 DEF Residents!AcceptUnitInvitation, Residents!AcceptCondominiumInvitation
  <2>3. Begun(s)
    BY <2>1, InvitationAccepted
  <2>4. QED
    BY <2>2, <2>3, <1>1, RegisterSame, PeopleBegin
<1>6. CASE \E u \in Units, p \in DOMAIN people, ph \in Phones \cup {None} : Residents!PatchPersonPhone(s, u, p, ph)
  <2>1. PICK u \in Units, p \in DOMAIN people, ph \in Phones \cup {None} : Residents!PatchPersonPhone(s, u, p, ph)
    BY <1>6
  <2>2. UNCHANGED <<accounts, people, units, links, invites, crashed>>
    BY <2>1 DEF Residents!PatchPersonPhone
  <2>3. Begun(s)
    BY <2>1, PhonePatched
  <2>4. QED
    BY <2>2, <2>3, <1>1, RegisterSame, PeopleBegin
<1>7. CASE \E u \in Units, p \in {0} \cup DOMAIN people : Residents!RemoveResponsible(s, u, p)
  <2>1. PICK u \in Units, p \in {0} \cup DOMAIN people : Residents!RemoveResponsible(s, u, p)
    BY <1>7
  <2>2. UNCHANGED <<accounts, people, units, invites, crashed>> /\ links' \subseteq links
    BY <2>1 DEF Residents!RemoveResponsible
  <2>3. Begun(s)
    BY <2>1, ResponsibleRemoved DEF Begun
  <2>4. Registered' /\ Grows
    <3>1. /\ units' \in [Units -> Residents!Unit] /\ links' \subseteq Units \X (1..Len(people))
          /\ \A u2 \in Units : units'[u2].owner \in 0..Len(people) /\ units'[u2].financial \in 0..Len(people)
      BY <2>2, <1>1 DEF Registered
    <3>2. QED
      BY <3>1, <2>2, <1>1, RegisterUnits
  <2>5. QED
    BY <2>2, <2>3, <2>4, PeopleBegin
<1>8. QED
  BY <1>2, <1>3, <1>4, <1>5, <1>6, <1>7 DEF Residents!Requests

LEMMA AccountRegistered ==
  ASSUME ResidentParameters, PeopleInv, NEW e \in Emails, NEW ph \in Phones, Residents!Register(e, ph) PROVE PeopleInv'
<1>1. PICK row : row = [email |-> e, phone |-> ph]
  OBVIOUS
<1>2. /\ Len(accounts) < MaxAccounts /\ accounts' = Append(accounts, row)
      /\ UNCHANGED <<people, units, links, invites, calls, crashed>>
  BY <1>1 DEF Residents!Register
<1>3. Registered /\ crashed \in Nat /\ Len(accounts) \in Nat
  BY DEF PeopleInv, Registered
<1>4. row \in Residents!Account
  BY <1>1 DEF Residents!Account
<1>5. accounts' \in Seq(Residents!Account) /\ Len(accounts') = Len(accounts) + 1
  BY <1>2, <1>3, <1>4 DEF Registered
<1>6. Len(accounts) <= Len(accounts') /\ Len(accounts') <= MaxAccounts
  BY <1>2, <1>3, <1>5 DEF ResidentParameters
<1>7. Registered' /\ Grows
  BY <1>2, <1>3, <1>5, <1>6, RegisterAccounts
<1>8. QED
  BY <1>2, <1>3, <1>7, PeopleStay

LEMMA UnitChanged ==
  ASSUME PeopleInv, NEW u \in Units, NEW w \in Residents!Unit, units' = [units EXCEPT ![u] = w],
         w.owner \in 0..Len(people), w.financial \in 0..Len(people),
         UNCHANGED <<accounts, people, links, invites, calls, crashed>>
  PROVE  PeopleInv'
<1>1. Registered /\ crashed' \in Nat
  BY DEF PeopleInv
<1>2. /\ units' \in [Units -> Residents!Unit]
      /\ \A v \in Units : units'[v] = IF v = u THEN w ELSE units[v]
  BY <1>1 DEF Registered
<1>3. \A v \in Units : units'[v].owner \in 0..Len(people) /\ units'[v].financial \in 0..Len(people)
  BY <1>1, <1>2 DEF Registered
<1>4. links' \subseteq Units \X (1..Len(people))
  BY <1>1 DEF Registered
<1>5. Registered' /\ Grows
  BY <1>1, <1>2, <1>3, <1>4, RegisterUnits
<1>6. QED
  BY <1>1, <1>5, PeopleStay

\* A row that takes the place of another.
LEMMA RowReplaced ==
  ASSUME NEW T, NEW rows \in Seq(T), NEW i \in 1..Len(rows), NEW row \in T, NEW after,
         after = [rows EXCEPT ![i] = row]
  PROVE  /\ after \in Seq(T) /\ Len(after) = Len(rows)
         /\ \A j \in 1..Len(rows) : after[j] = IF j = i THEN row ELSE rows[j]
BY ExceptSeq

LEMMA InviteSettled ==
  ASSUME PeopleInv, NEW i \in DOMAIN invites, NEW state \in {"removed", "expired"},
         invites' = [invites EXCEPT ![i].state = state],
         UNCHANGED <<accounts, people, units, links, calls, crashed>>
  PROVE  PeopleInv'
<1>1. Registered /\ crashed' \in Nat /\ i \in 1..Len(invites)
  BY DEF PeopleInv, Registered
<1>2. PICK inv : inv = [invites[i] EXCEPT !.state = state]
  OBVIOUS
<1>3. invites \in Seq(Residents!Invite) /\ invites[i] \in Residents!Invite /\ Len(invites) \in Nat
  BY <1>1 DEF Registered
<1>4. inv \in Residents!Invite /\ inv.person = invites[i].person /\ invites' = [invites EXCEPT ![i] = inv]
  <2>1. state \in {"pending", "expired", "consumed", "removed"}
    OBVIOUS
  <2>2. inv \in Residents!Invite /\ inv.person = invites[i].person
    BY <2>1, <1>2, <1>3, InviteStates
  <2>3. QED
    BY <2>2, <1>2
<1>5. /\ invites' \in Seq(Residents!Invite) /\ Len(invites') = Len(invites)
      /\ \A j \in 1..Len(invites) : invites'[j] = IF j = i THEN inv ELSE invites[j]
  <2>1. PICK after : after = invites'
    OBVIOUS
  <2>2. after = [invites EXCEPT ![i] = inv]
    BY <2>1, <1>4
  <2>3. /\ after \in Seq(Residents!Invite) /\ Len(after) = Len(invites)
        /\ \A j \in 1..Len(invites) : after[j] = IF j = i THEN inv ELSE invites[j]
    BY <2>2, <1>1, <1>3, <1>4, RowReplaced
  <2>4. QED
    BY <2>1, <2>3
<1>6. \A j \in 1..Len(invites') : invites'[j].person \in 1..Len(people)
  BY <1>1, <1>4, <1>5 DEF Registered
<1>7. Registered' /\ Grows
  BY <1>1, <1>3, <1>5, <1>6, RegisterInvites
<1>8. QED
  BY <1>1, <1>7, PeopleStay

LEMMA PeopleInit == ASSUME ResidentParameters, Residents!Init PROVE PeopleInv
<1>1. /\ accounts = << >> /\ people = << >> /\ invites = << >> /\ links = {} /\ crashed = 0
      /\ units = [u \in Units |-> Residents!NoUnit] /\ calls = [s \in Slots |-> Residents!NoCall]
  BY DEF Residents!Init
<1>2. Residents!NoUnit \in Residents!Unit /\ Residents!NoUnit.owner = 0 /\ Residents!NoUnit.financial = 0
  BY DEF Residents!NoUnit, Residents!Unit, ResidentParameters
<1>3. accounts \in Seq(Residents!Account) /\ people \in Seq(Residents!Person) /\ invites \in Seq(Residents!Invite)
  BY <1>1
<1>4. Len(accounts) = 0 /\ Len(people) = 0 /\ Len(invites) = 0
  BY <1>1
<1>5. Registered
  BY <1>1, <1>2, <1>3, <1>4 DEF Registered, ResidentParameters
<1>6. PICK n : n = Residents!NoCall
  OBVIOUS
<1>7. n \in Call /\ Holds(n)
  BY <1>5, <1>6, NoCallHolds
<1>8. calls \in [Slots -> Call] /\ \A s \in Slots : calls[s] = n
  BY <1>1, <1>6, <1>7
<1>9. \A s \in Slots : Holds(calls[s])
  BY <1>7, <1>8
<1>10. QED
  BY <1>1, <1>5, <1>8, <1>9 DEF PeopleInv

LEMMA PeopleNext == ASSUME ResidentParameters, PeopleInv, [Residents!Next]_(Residents!peopleVars) PROVE PeopleInv'
<1>1. Registered /\ crashed \in Nat
  BY DEF PeopleInv
<1>2. ASSUME NEW e \in Emails, NEW ph \in Phones, Residents!Register(e, ph) PROVE PeopleInv'
  BY <1>2, AccountRegistered
<1>3. ASSUME NEW u \in Units, NEW p \in {0} \cup DOMAIN people, Residents!SetFinancialResponsible(u, p) PROVE PeopleInv'
  <2>1. PICK w : w = [units[u] EXCEPT !.financial = p]
    OBVIOUS
  <2>2. units[u] \in Residents!Unit /\ p \in 0..MaxPeople /\ p \in 0..Len(people) /\ units[u].owner \in 0..Len(people)
    <3>1. Len(people) \in Nat /\ Len(people) <= MaxPeople /\ DOMAIN people = 1..Len(people)
      BY <1>1 DEF Registered
    <3>2. QED
      BY <3>1, <1>1 DEF Registered, ResidentParameters
  <2>3. w \in Residents!Unit /\ w.owner \in 0..Len(people) /\ w.financial \in 0..Len(people)
    BY <2>1, <2>2 DEF Residents!Unit
  <2>4. units' = [units EXCEPT ![u] = w] /\ UNCHANGED <<accounts, people, links, invites, calls, crashed>>
    BY <2>1, <1>3 DEF Residents!SetFinancialResponsible
  <2>5. QED
    BY <2>3, <2>4, UnitChanged
<1>4. ASSUME NEW u \in Units, NEW ph \in Phones \cup {None}, Residents!SetPendingPhone(u, ph) PROVE PeopleInv'
  <2>1. PICK w : w = [units[u] EXCEPT !.pending = ph]
    OBVIOUS
  <2>2. units[u] \in Residents!Unit /\ units[u].owner \in 0..Len(people) /\ units[u].financial \in 0..Len(people)
    BY <1>1 DEF Registered
  <2>3. w \in Residents!Unit /\ w.owner \in 0..Len(people) /\ w.financial \in 0..Len(people)
    BY <2>1, <2>2 DEF Residents!Unit
  <2>4. units' = [units EXCEPT ![u] = w] /\ UNCHANGED <<accounts, people, links, invites, calls, crashed>>
    BY <2>1, <1>4 DEF Residents!SetPendingPhone
  <2>5. QED
    BY <2>3, <2>4, UnitChanged
<1>5. ASSUME NEW i \in DOMAIN invites, Residents!DeleteCondominiumInvitation(i) PROVE PeopleInv'
  BY <1>5, InviteSettled DEF Residents!DeleteCondominiumInvitation
<1>6. ASSUME NEW i \in DOMAIN invites, Residents!Expire(i) PROVE PeopleInv'
  BY <1>6, InviteSettled DEF Residents!Expire
<1>7. ASSUME NEW s \in Slots, Residents!Requests(s) PROVE PeopleInv'
  BY <1>7, RequestsHold
<1>8. ASSUME NEW s \in Slots, Residents!Steps(s) PROVE PeopleInv'
  BY <1>8, AccountsCreated, PeopleCreated, PeopleSaved, PersonLinked, UnitSaved, InvitesReplaced, InviteSent,
     PhoneConfirmed, InviteConsumed, PhoneGivenByStaff, UnitForgotten DEF Residents!Steps
<1>9. ASSUME NEW s \in Slots, Residents!Crash(s) PROVE PeopleInv'
  <2>1. /\ Residents!Ends(s) /\ crashed' = crashed + 1
        /\ UNCHANGED <<accounts, people, units, links, invites>>
    BY <1>9 DEF Residents!Crash
  <2>2. crashed' \in Nat
    BY <2>1, <1>1
  <2>3. QED
    BY <2>1, <2>2, <1>1, RegisterSame, PeopleEnd
<1>10. CASE UNCHANGED Residents!peopleVars
  <2>1. UNCHANGED <<accounts, people, units, links, invites>> /\ calls' = calls /\ crashed' = crashed
    BY <1>10 DEF Residents!peopleVars
  <2>2. QED
    BY <2>1, <1>1, RegisterSame, PeopleStay
<1>11. QED
  BY <1>2, <1>3, <1>4, <1>5, <1>6, <1>7, <1>8, <1>9, <1>10 DEF Residents!Next

\* No operation of the register and no step or end of a request disturbs PeopleInv.
LEMMA PeopleInvariant == ASSUME ResidentParameters PROVE Residents!Spec => []PeopleInv
<1>1. Residents!Init => PeopleInv
  BY PeopleInit
<1>2. PeopleInv /\ [Residents!Next]_(Residents!peopleVars) => PeopleInv'
  BY PeopleNext
<1>3. QED
  BY <1>1, <1>2, PTL DEF Residents!Spec

\* PeopleTypeOK: links, owners, responsible people and invitations only ever name people
\* that were saved, and people accounts, whatever requests overlap and wherever they are cut
\* short between the saves of accounts, people, units and invitations.
THEOREM PeopleTyped == ASSUME ResidentParameters PROVE Residents!Spec => []Residents!PeopleTypeOK
<1>1. PeopleInv => Residents!PeopleTypeOK
  <2>1. ASSUME Registered PROVE Residents!PeopleTypeOK
    <3>1. /\ \A a \in DOMAIN accounts : accounts[a] \in Residents!Account
          /\ \A p \in DOMAIN people : people[p] \in Residents!Person
          /\ \A i \in DOMAIN invites : invites[i] \in Residents!Invite
      BY <2>1 DEF Registered
    <3>2. Len(people) \in Nat /\ DOMAIN people = 1..Len(people)
      BY <2>1 DEF Registered
    <3>3. \A n \in 0..Len(people) : n \in {0} \cup DOMAIN people
      BY <3>2
    <3>4. links \subseteq Units \X DOMAIN people /\ units \in [Units -> Residents!Unit]
      BY <2>1, <3>2 DEF Registered
    <3>5. \A u \in Units : {units[u].owner, units[u].financial} \subseteq {0} \cup DOMAIN people
      BY <2>1, <3>3 DEF Registered
    <3>6. QED
      BY <3>1, <3>4, <3>5 DEF Residents!PeopleTypeOK
  <2>2. QED
    BY <2>1 DEF PeopleInv
<1>2. QED
  BY <1>1, PeopleInvariant, PTL

(***************************************************************************)
(* One request at a time.                                                  *)
(***************************************************************************)

LEMMA AcceptLengths ==
  /\ Len(JoinAccount) = 5 /\ Len(JoinPerson) = 4 /\ Len(JoinUnit) = 3 /\ Len(JoinLink) = 2 /\ Len(Consuming) = 1
  /\ Len(OwnAccount) = 4 /\ Len(OwnPerson) = 3 /\ Len(OwnUnit) = 2
  /\ Len(ConfirmPerson) = 6 /\ Len(ConfirmPhone) = 5 /\ Len(ConfirmUnit) = 4 /\ Len(ConfirmLink) = 3 /\ Len(ConfirmAgain) = 2
<1>1. Len(JoinAccount) = 5 /\ Len(JoinPerson) = 4 /\ Len(JoinUnit) = 3 /\ Len(JoinLink) = 2 /\ Len(Consuming) = 1
  BY DEF JoinAccount, JoinPerson, JoinUnit, JoinLink, Consuming
<1>2. Len(OwnAccount) = 4 /\ Len(OwnPerson) = 3 /\ Len(OwnUnit) = 2
  BY DEF OwnAccount, OwnPerson, OwnUnit
<1>3. Len(ConfirmPerson) = 6 /\ Len(ConfirmPhone) = 5 /\ Len(ConfirmUnit) = 4 /\ Len(ConfirmLink) = 3 /\ Len(ConfirmAgain) = 2
  BY DEF ConfirmPerson, ConfirmPhone, ConfirmUnit, ConfirmLink, ConfirmAgain
<1>4. QED
  BY <1>1, <1>2, <1>3

\* The next steps of an acceptance.
NextSteps(t) ==
    /\ Tail(t) # << >> => Head(Tail(t)) # "account"
    /\ Head(t) = "account" => t \notin AfterPerson /\ Tail(t) \notin AfterPerson \cup AfterUnit \cup AfterLink
    /\ Tail(t) \in AfterPerson => t \in AfterPerson \/ Head(t) = "person"
    /\ Tail(t) \in AfterUnit => t \in AfterUnit \/ Head(t) = "unit"
    /\ Tail(t) \in AfterLink => t \in AfterLink \/ Head(t) = "link" \/ t = OwnUnit
    /\ Tail(t) \in Unlinked => t \in Unlinked

LEMMA AcceptTails == ASSUME NEW t \in AcceptTodos PROVE NextSteps(t)
<1>1. CASE t = JoinAccount
  BY <1>1, AcceptSteps, ConfirmSteps, AcceptLengths DEF NextSteps, AfterPerson, AfterUnit, AfterLink, Unlinked
<1>2. CASE t = JoinPerson
  BY <1>2, AcceptSteps, ConfirmSteps, AcceptLengths DEF NextSteps, AfterPerson, AfterUnit, AfterLink, Unlinked
<1>3. CASE t = JoinUnit
  BY <1>3, AcceptSteps, ConfirmSteps, AcceptLengths DEF NextSteps, AfterPerson, AfterUnit, AfterLink, Unlinked
<1>4. CASE t = JoinLink
  BY <1>4, AcceptSteps, ConfirmSteps, AcceptLengths DEF NextSteps, AfterPerson, AfterUnit, AfterLink, Unlinked
<1>5. CASE t = Consuming
  BY <1>5, AcceptSteps, ConfirmSteps, AcceptLengths DEF NextSteps, AfterPerson, AfterUnit, AfterLink, Unlinked
<1>6. CASE t = OwnAccount
  BY <1>6, AcceptSteps, ConfirmSteps, AcceptLengths DEF NextSteps, AfterPerson, AfterUnit, AfterLink, Unlinked
<1>7. CASE t = OwnPerson
  BY <1>7, AcceptSteps, ConfirmSteps, AcceptLengths DEF NextSteps, AfterPerson, AfterUnit, AfterLink, Unlinked
<1>8. CASE t = OwnUnit
  BY <1>8, AcceptSteps, ConfirmSteps, AcceptLengths DEF NextSteps, AfterPerson, AfterUnit, AfterLink, Unlinked
<1>9. CASE t = ConfirmPerson
  BY <1>9, AcceptSteps, ConfirmSteps, AcceptLengths DEF NextSteps, AfterPerson, AfterUnit, AfterLink, Unlinked
<1>10. CASE t = ConfirmPhone
  BY <1>10, AcceptSteps, ConfirmSteps, AcceptLengths DEF NextSteps, AfterPerson, AfterUnit, AfterLink, Unlinked
<1>11. CASE t = ConfirmUnit
  BY <1>11, AcceptSteps, ConfirmSteps, AcceptLengths DEF NextSteps, AfterPerson, AfterUnit, AfterLink, Unlinked
<1>12. CASE t = ConfirmLink
  BY <1>12, AcceptSteps, ConfirmSteps, AcceptLengths DEF NextSteps, AfterPerson, AfterUnit, AfterLink, Unlinked
<1>13. CASE t = ConfirmAgain
  BY <1>13, AcceptSteps, ConfirmSteps, AcceptLengths DEF NextSteps, AfterPerson, AfterUnit, AfterLink, Unlinked
<1>14. QED
  BY <1>1, <1>2, <1>3, <1>4, <1>5, <1>6, <1>7, <1>8, <1>9, <1>10, <1>11, <1>12, <1>13 DEF AcceptTodos, AfterPerson

\* Requests do not overlap.
OneRequest == \A r, s \in Slots : r = s

AllLinked == \A u \in Units : units[u].financial # 0 => <<u, units[u].financial>> \in links
LinkedBut(c) ==
    \A u \in Units : units[u].financial # 0 => <<u, units[u].financial>> \in links \/ Forgetting(c, u)

LEMMA SerialMoves ==
  ASSUME PeopleInv, OneRequest, NEW s \in Slots, NEW c \in Call, calls' = [calls EXCEPT ![s] = c],
         Current(c)', Residents!OneOpenInvite', crashed' = 0 => LinkedBut(c)'
  PROVE  PeopleSerial'
<1>1. calls'[s] = c /\ \A v \in Slots : v = s
  BY DEF PeopleInv, OneRequest
<1>2. \A v \in Slots : calls'[v] = c
  BY <1>1
<1>3. \A v \in Slots : Current(calls[v])'
  <2>1. ASSUME NEW v \in Slots PROVE Current(calls[v])'
    <3>1. PICK d : d = calls'[v]
      OBVIOUS
    <3>2. Current(d)'
      BY <3>1, <1>2
    <3>3. QED
      BY <3>1, <3>2 DEF Current, Accepts, Replacing
  <2>2. QED
    BY <2>1
<1>4. ASSUME crashed' = 0, NEW u \in Units, units'[u].financial # 0
      PROVE  <<u, units'[u].financial>> \in links' \/ \E v \in Slots : Forgetting(calls[v], u)'
  <2>1. <<u, units'[u].financial>> \in links' \/ Forgetting(c, u)'
    BY <1>4 DEF LinkedBut
  <2>2. Forgetting(c, u)' => Forgetting(calls[s], u)'
    BY <1>1 DEF Forgetting
  <2>3. QED
    BY <2>1, <2>2
<1>5. QED
  BY <1>3, <1>4 DEF PeopleSerial

LEMMA SerialEnds ==
  ASSUME ResidentParameters, PeopleInv, OneRequest, NEW s \in Slots, Residents!Ends(s), Residents!OneOpenInvite',
         crashed' = 0 => AllLinked'
  PROVE  PeopleSerial'
<1>1. PICK c \in Call : c = Residents!NoCall /\ c.op = "none"
  BY NoCallHolds DEF PeopleInv
<1>2. Current(c)'
  BY <1>1 DEF Current
<1>3. calls' = [calls EXCEPT ![s] = c]
  BY <1>1 DEF Residents!Ends
<1>4. crashed' = 0 => LinkedBut(c)'
  BY DEF AllLinked, LinkedBut
<1>5. QED
  BY <1>1, <1>2, <1>3, <1>4, SerialMoves

LEMMA WhenLinked ==
  ASSUME OneRequest, PeopleSerial, NEW s \in Slots, calls[s].op # "unlink", crashed = 0 PROVE AllLinked
<1>1. \A v \in Slots : calls[v].op # "unlink"
  BY DEF OneRequest
<1>2. QED
  BY <1>1 DEF PeopleSerial, AllLinked, Forgetting

\* A request that goes on to its next step.
OnTo(q, c, r) ==
    /\ r.op = q.op /\ r.todo = Tail(q.todo) /\ r.unit = q.unit /\ r.unitRow = q.unitRow /\ r.related = q.related
    /\ r.owned = q.owned /\ r.invite = q.invite /\ r.account = q.account /\ r.email = q.email /\ r.phone = q.phone
    /\ r.person = c.person /\ r.row = c.row

LEMMA SerialGoOn ==
  ASSUME ResidentParameters, PeopleInv, OneRequest, NEW s \in Slots, NEW q \in Call, q = calls[s], q.todo # << >>,
         NEW c \in Call, After(q, c), Residents!Continues(s, c), Residents!OneOpenInvite',
         crashed' = 0 => AllLinked',
         ASSUME NEW r \in Call, OnTo(q, c, r), r.todo # << >> PROVE Current(r)'
  PROVE  PeopleSerial'
<1>1. q.op \in Ops /\ q.todo \in Todos(q.op) /\ c.todo = q.todo
  <2>1. Holds(q) /\ q.op \in Ops /\ c.todo = q.todo
    BY DEF PeopleInv, Call, After
  <2>2. QED
    BY <2>1 DEF Holds
<1>2. CASE Tail(q.todo) = << >>
  <2>1. Residents!Ends(s)
    BY <1>1, <1>2 DEF Residents!Continues, Residents!Ends
  <2>2. QED
    BY <2>1, SerialEnds
<1>3. CASE Tail(q.todo) # << >>
  <2>1. PICK r : r = [c EXCEPT !.todo = Tail(q.todo)]
    OBVIOUS
  <2>2. calls' = [calls EXCEPT ![s] = r]
    <3>1. [c EXCEPT !.todo = Tail(@)] = r
      BY <2>1, <1>1 DEF Call
    <3>2. QED
      BY <3>1, <1>1, <1>3 DEF Residents!Continues
  <2>3. Tail(q.todo) \in Programs
    BY <1>1, <1>3, TodosGoOn
  <2>4. r \in Call /\ OnTo(q, c, r)
    BY <2>1, <2>3 DEF Call, After, OnTo
  <2>5. Current(r)'
    BY <2>4, <1>3 DEF OnTo
  <2>6. crashed' = 0 => LinkedBut(r)'
    BY DEF AllLinked, LinkedBut
  <2>7. QED
    BY <2>2, <2>4, <2>5, <2>6, SerialMoves
<1>4. QED
  BY <1>2, <1>3

\* Invitations that are closed.
LEMMA OpenShrinks ==
  ASSUME Residents!OneOpenInvite, DOMAIN invites' = DOMAIN invites,
         \A i \in DOMAIN invites :
            /\ invites'[i].kind = invites[i].kind /\ invites'[i].email = invites[i].email
            /\ invites'[i].phone = invites[i].phone
            /\ invites'[i].state \in {"pending", "expired"} => invites[i].state \in {"pending", "expired"}
  PROVE  Residents!OneOpenInvite' /\ \A c : Replacing(c) => Replacing(c)'
<1>1. \A i \in Residents!Open' : i \in Residents!Open /\ invites'[i].kind = invites[i].kind
          /\ invites'[i].email = invites[i].email /\ invites'[i].phone = invites[i].phone
  BY DEF Residents!Open
<1>2. Residents!OneOpenInvite'
  BY <1>1 DEF Residents!OneOpenInvite
<1>3. ASSUME NEW c, Replacing(c) PROVE Replacing(c)'
  BY <1>1, <1>3 DEF Replacing
<1>4. QED
  BY <1>2, <1>3

LEMMA OpenSame == ASSUME Residents!OneOpenInvite, invites' = invites PROVE Residents!OneOpenInvite'
BY DEF Residents!OneOpenInvite, Residents!Open

\* The links an acceptance or an assignment counts on.
LinksHold(c) ==
    crashed = 0 /\ c.op \in {"accept", "assign"} =>
        (c.unitRow.financial # 0 => <<c.unit, c.unitRow.financial>> \in links)

LEMMA SerialAccounts ==
  ASSUME ResidentParameters, PeopleInv, PeopleSerial, OneRequest, NEW s \in Slots, Residents!CreateAccount(s)
  PROVE  PeopleSerial'
<1>1. PICK q \in Call : q = calls[s] /\ Holds(q) /\ Current(q)
  BY DEF PeopleInv, PeopleSerial
<1>2. PICK row : row = [email |-> q.email, phone |-> q.phone]
  OBVIOUS
<1>3. PICK n : n = Len(accounts) + 1
  OBVIOUS
<1>4. PICK c : c = [q EXCEPT !.row.account = n]
  OBVIOUS
<1>5. /\ q.todo # << >> /\ Head(q.todo) = "account" /\ Len(accounts) < MaxAccounts
      /\ Residents!DoneOrRefused(s, Residents!AccountFits(0, row), accounts' = Append(accounts, row), accounts, c)
      /\ UNCHANGED <<people, units, links, invites, requests, crashed>>
  BY <1>1, <1>2, <1>3, <1>4 DEF Residents!CreateAccount, Residents!Does
<1>6. Len(accounts) \in Nat /\ n \in 0..MaxAccounts /\ n # 0
  BY <1>3, <1>5 DEF PeopleInv, Registered, ResidentParameters
<1>7. q.op = "accept" /\ q.todo \in AcceptTodos /\ NextSteps(q.todo)
  <2>1. q.op \in Ops /\ q.todo \in Todos(q.op)
    BY <1>1 DEF Call, Holds
  <2>2. q.op = "accept"
    BY <2>1, <1>5, StepOwners
  <2>3. QED
    BY <2>1, <2>2, AcceptTails DEF Todos
<1>8. Residents!OneOpenInvite' /\ (crashed' = 0 => AllLinked')
  <2>1. crashed = 0 => AllLinked
    BY <1>1, <1>7, WhenLinked
  <2>2. QED
    BY <2>1, <1>5, OpenSame DEF AllLinked, PeopleSerial
<1>9. CASE Residents!Ends(s)
  BY <1>8, <1>9, SerialEnds
<1>10. CASE Residents!Continues(s, c)
  <2>1. q.row \in Residents!Person
    BY DEF Call
  <2>2. c \in Call /\ c.row.account = n /\ c.person = q.person /\ After(q, c)
    <3>1. PICK r : r = [q.row EXCEPT !.account = n]
      OBVIOUS
    <3>2. r \in Residents!Person /\ r.account = n
      BY <3>1, <2>1, <1>6 DEF Residents!Person
    <3>3. c = [q EXCEPT !.row = r]
      BY <3>1, <1>4
    <3>4. QED
      BY <3>2, <3>3 DEF Call, After
  <2>3. Accepts(q) /\ people[q.person].account = 0
    BY <1>1, <1>5, <1>7 DEF Current, Accepts
  <2>4. ASSUME NEW r \in Call, OnTo(q, c, r), r.todo # << >> PROVE Current(r)'
    <3>1. /\ r.op = "accept" /\ r.todo = Tail(q.todo) /\ r.person = q.person /\ r.row.account = n
          /\ r.unit = q.unit /\ r.unitRow = q.unitRow /\ r.related = q.related /\ r.invite = q.invite
      BY <2>2, <2>4, <1>7 DEF OnTo
    <3>2. /\ Head(r.todo) # "account" /\ r.todo \notin AfterPerson \cup AfterUnit \cup AfterLink
          /\ r.todo \in Unlinked => q.todo \in Unlinked
      BY <3>1, <2>4, <1>5, <1>7 DEF NextSteps
    <3>3. Accepts(r)'
      BY <3>1, <3>2, <2>3, <1>5, <1>6 DEF Accepts
    <3>4. people'[r.person].account = 0
      BY <3>1, <2>3, <1>5
    <3>5. LinksHold(r)'
      BY <3>1, <1>1, <1>5, <1>7 DEF LinksHold, Current
    <3>6. QED
      BY <3>1, <3>3, <3>4, <3>5 DEF Current, LinksHold
  <2>5. QED
    BY <2>2, <2>4, <1>1, <1>5, <1>8, <1>10, SerialGoOn
<1>11. QED
  BY <1>5, <1>9, <1>10 DEF Residents!DoneOrRefused

LEMMA SerialNewPeople ==
  ASSUME ResidentParameters, PeopleInv, PeopleSerial, OneRequest, NEW s \in Slots, Residents!CreatePerson(s)
  PROVE  PeopleSerial'
<1>1. PICK q \in Call : q = calls[s] /\ Holds(q) /\ Current(q)
  BY DEF PeopleInv, PeopleSerial
<1>2. PICK n : n = Len(people) + 1
  OBVIOUS
<1>3. PICK row : row = Residents!Filled(q.row, q)
  OBVIOUS
<1>4. PICK c : c = [q EXCEPT !.person = n, !.row = row]
  OBVIOUS
<1>5. /\ q.todo # << >> /\ Head(q.todo) = "new" /\ Len(people) < MaxPeople
      /\ Residents!DoneOrRefused(s, Residents!PersonFits(0, q.row), people' = Append(people, q.row), people, c)
      /\ UNCHANGED <<accounts, units, links, invites, requests, crashed>>
  BY <1>1, <1>2, <1>3, <1>4 DEF Residents!CreatePerson, Residents!Does
<1>6. people \in Seq(Residents!Person) /\ Len(people) \in Nat /\ n \in 0..MaxPeople
  BY <1>2, <1>5 DEF PeopleInv, Registered, ResidentParameters
<1>7. q.op \in {"assign", "unit", "condominium", "profile"} /\ Tail(q.todo) # InviteSend
  <2>1. q.op \in Ops /\ q.todo \in Todos(q.op)
    BY <1>1 DEF Call, Holds
  <2>2. q.op \in {"assign", "unit", "condominium", "profile"}
    BY <2>1, <1>5, StepOwners
  <2>3. CASE q.op = "assign"
    <3>1. Tail(q.todo) \in {AssignLink, AssignUnit}
      BY <2>1, <2>3, <1>5, AssignSteps DEF Todos, AssignTodos
    <3>2. QED
      BY <3>1, <2>2, AssignSteps, InviteSteps
  <2>4. CASE q.op \in {"unit", "condominium"}
    <3>1. Tail(q.todo) \in {InvitePerson, InviteReplace}
      BY <2>1, <2>4, <1>5, InviteSteps DEF Todos, SendTodos, InviteTodos
    <3>2. QED
      BY <3>1, <2>2, InviteSteps
  <2>5. CASE q.op = "profile"
    <3>1. Tail(q.todo) = << >>
      BY <2>1, <2>5, <1>5, OtherSteps DEF Todos
    <3>2. QED
      BY <3>1, <2>2, InviteSteps
  <2>6. QED
    BY <2>2, <2>3, <2>4, <2>5
<1>8. Residents!OneOpenInvite' /\ (crashed' = 0 => AllLinked')
  <2>1. crashed = 0 => AllLinked
    BY <1>1, <1>7, WhenLinked
  <2>2. QED
    BY <2>1, <1>5, OpenSame DEF AllLinked, PeopleSerial
<1>9. CASE Residents!Ends(s)
  BY <1>8, <1>9, SerialEnds
<1>10. CASE people' = Append(people, q.row) /\ Residents!Continues(s, c)
  <2>1. q.row \in Residents!Person
    BY DEF Call
  <2>2. row \in Residents!Person /\ row.account = q.row.account
    BY <2>1, <1>3, FilledIn
  <2>3. c \in Call /\ c.row = row /\ c.person = n /\ After(q, c)
    BY <2>2, <1>4, <1>6 DEF Call, After
  <2>4. people'[n] = q.row
    BY <2>1, <1>2, <1>6, <1>10
  <2>5. ASSUME NEW r \in Call, OnTo(q, c, r), r.todo # << >> PROVE Current(r)'
    <3>1. /\ r.op = q.op /\ r.todo = Tail(q.todo) /\ r.person = n /\ r.row = row
          /\ r.unit = q.unit /\ r.unitRow = q.unitRow
      BY <2>3, <2>5 DEF OnTo
    <3>2. people'[r.person].account = r.row.account
      BY <3>1, <2>2, <2>4
    <3>3. LinksHold(r)'
      BY <3>1, <1>1, <1>5 DEF LinksHold, Current
    <3>4. QED
      BY <3>1, <3>2, <3>3, <1>7 DEF Current, LinksHold
  <2>6. QED
    BY <2>3, <2>5, <1>1, <1>5, <1>8, <1>10, SerialGoOn
<1>11. QED
  BY <1>5, <1>9, <1>10 DEF Residents!DoneOrRefused

LEMMA SerialPeople ==
  ASSUME ResidentParameters, PeopleInv, PeopleSerial, OneRequest, NEW s \in Slots, Residents!SavePerson(s)
  PROVE  PeopleSerial'
<1>1. PICK q \in Call : q = calls[s] /\ Holds(q) /\ Current(q)
  BY DEF PeopleInv, PeopleSerial
<1>2. /\ q.todo # << >> /\ Head(q.todo) = "person"
      /\ Residents!DoneOrRefused(s, Residents!PersonFits(q.person, q.row),
                                 people' = [people EXCEPT ![q.person] = q.row], people, q)
      /\ UNCHANGED <<accounts, units, links, invites, requests, crashed>>
  BY <1>1 DEF Residents!SavePerson, Residents!Does
<1>3. q.op \in Ops /\ q.todo \in Todos(q.op) /\ q.op \notin {"none", "unlink"} /\ q.person \in 1..Len(people)
  <2>1. q.op \in Ops /\ q.todo \in Todos(q.op)
    BY <1>1 DEF Call, Holds
  <2>2. q.op \notin {"none", "unlink"}
    BY <2>1, <1>2, StepOwners
  <2>3. QED
    BY <2>1, <2>2, <1>1, <1>2 DEF Holds
<1>4. q.op = "accept" => q.todo \in AcceptTodos /\ NextSteps(q.todo)
  BY <1>3, AcceptTails DEF Todos
<1>5. Tail(q.todo) = InviteSend => q.op # "condominium"
  <2>1. SUFFICES ASSUME q.op = "condominium" PROVE Tail(q.todo) # InviteSend
    OBVIOUS
  <2>2. q.todo \in InviteTodos
    BY <2>1, <1>3 DEF Todos
  <2>3. Tail(q.todo) = InviteReplace
    BY <2>2, <1>2, InviteSteps DEF InviteTodos, SendTodos
  <2>4. QED
    BY <2>3, InviteSteps
<1>6. Residents!OneOpenInvite' /\ (crashed' = 0 => AllLinked')
  <2>1. crashed = 0 => AllLinked
    BY <1>1, <1>3, WhenLinked
  <2>2. QED
    BY <2>1, <1>2, OpenSame DEF AllLinked, PeopleSerial
<1>7. CASE Residents!Ends(s)
  BY <1>6, <1>7, SerialEnds
<1>8. CASE people' = [people EXCEPT ![q.person] = q.row] /\ Residents!Continues(s, q)
  <2>1. people'[q.person] = q.row
    BY <1>3, <1>8 DEF PeopleInv, Registered
  <2>2. ASSUME NEW r \in Call, OnTo(q, q, r), r.todo # << >> PROVE Current(r)'
    <3>1. /\ r.op = q.op /\ r.todo = Tail(q.todo) /\ r.person = q.person /\ r.row = q.row
          /\ r.unit = q.unit /\ r.unitRow = q.unitRow /\ r.related = q.related /\ r.invite = q.invite
      BY <2>2 DEF OnTo
    <3>2. people'[r.person].account = r.row.account
      BY <3>1, <2>1
    <3>3. ASSUME r.op = "accept" PROVE Accepts(r)'
      <4>1. /\ Head(r.todo) # "account"
            /\ r.todo \in AfterUnit => q.todo \in AfterUnit
            /\ r.todo \in AfterLink => q.todo \in AfterLink
            /\ r.todo \in Unlinked => q.todo \in Unlinked
        <5>1. Head(OwnUnit) = "unit"
          BY AcceptSteps
        <5>2. QED
          BY <5>1, <3>1, <3>3, <2>2, <1>2, <1>4 DEF NextSteps
      <4>2. Accepts(q) /\ q.row.account # 0
        BY <3>1, <3>3, <1>1, <1>2 DEF Current, Accepts
      <4>3. QED
        BY <4>1, <4>2, <3>1, <3>2, <1>2 DEF Accepts
    <3>4. LinksHold(r)'
      BY <3>1, <1>1, <1>2 DEF LinksHold, Current
    <3>5. QED
      BY <3>1, <3>2, <3>3, <3>4, <1>5 DEF Current, LinksHold
  <2>3. QED
    BY <2>2, <1>1, <1>2, <1>6, <1>8, SameAfter, SerialGoOn
<1>9. QED
  BY <1>2, <1>7, <1>8 DEF Residents!DoneOrRefused

LEMMA SerialLinks ==
  ASSUME ResidentParameters, PeopleInv, PeopleSerial, OneRequest, NEW s \in Slots, Residents!LinkPerson(s)
  PROVE  PeopleSerial'
<1>1. PICK q \in Call : q = calls[s] /\ Holds(q) /\ Current(q)
  BY DEF PeopleInv, PeopleSerial
<1>2. /\ q.todo # << >> /\ Head(q.todo) = "link"
      /\ links' = links \cup {<<q.unit, q.person>>} /\ Residents!Continues(s, q)
      /\ UNCHANGED <<accounts, people, units, invites, requests, crashed>>
  BY <1>1 DEF Residents!LinkPerson, Residents!Does
<1>3. q.op \in Ops /\ q.todo \in Todos(q.op) /\ q.op \in {"accept", "assign"}
  <2>1. q.op \in Ops /\ q.todo \in Todos(q.op)
    BY <1>1 DEF Call, Holds
  <2>2. QED
    BY <2>1, <1>2, StepOwners
<1>4. q.op = "accept" => q.todo \in AcceptTodos /\ NextSteps(q.todo)
  BY <1>3, AcceptTails DEF Todos
<1>5. Residents!OneOpenInvite' /\ (crashed' = 0 => AllLinked')
  <2>1. crashed = 0 => AllLinked
    BY <1>1, <1>3, WhenLinked
  <2>2. QED
    BY <2>1, <1>2, OpenSame DEF AllLinked, PeopleSerial
<1>6. ASSUME NEW r \in Call, OnTo(q, q, r), r.todo # << >> PROVE Current(r)'
  <2>1. /\ r.op = q.op /\ r.todo = Tail(q.todo) /\ r.person = q.person /\ r.row = q.row
        /\ r.unit = q.unit /\ r.unitRow = q.unitRow /\ r.related = q.related /\ r.invite = q.invite
    BY <1>6 DEF OnTo
  <2>2. people'[r.person].account \in {0, r.row.account}
    BY <2>1, <1>1, <1>2, <1>3 DEF Current
  <2>3. ASSUME r.op = "accept" PROVE Accepts(r)'
    <3>1. /\ Head(r.todo) # "account"
          /\ r.todo \in AfterPerson => q.todo \in AfterPerson
          /\ r.todo \in AfterUnit => q.todo \in AfterUnit
          /\ r.todo \in Unlinked => q.todo \in Unlinked
      BY <2>1, <2>3, <1>2, <1>4, <1>6 DEF NextSteps
    <3>2. Accepts(q) /\ q.row.account # 0
      BY <2>1, <2>3, <1>1, <1>2 DEF Current, Accepts
    <3>3. <<r.unit, r.person>> \in links'
      BY <2>1, <1>2
    <3>4. QED
      BY <3>1, <3>2, <3>3, <2>1, <1>2 DEF Accepts
  <2>4. LinksHold(r)'
    BY <2>1, <1>1, <1>2 DEF LinksHold, Current
  <2>5. QED
    BY <2>1, <2>2, <2>3, <2>4, <1>3 DEF Current, LinksHold
<1>7. QED
  BY <1>1, <1>2, <1>5, <1>6, SameAfter, SerialGoOn

LEMMA SerialUnits ==
  ASSUME ResidentParameters, PeopleInv, PeopleSerial, OneRequest, NEW s \in Slots, Residents!SaveUnit(s)
  PROVE  PeopleSerial'
<1>1. PICK q \in Call : q = calls[s] /\ Holds(q) /\ Current(q)
  BY DEF PeopleInv, PeopleSerial
<1>2. PICK w : w = Residents!UnitWritten(q)
  OBVIOUS
<1>3. /\ q.todo # << >> /\ Head(q.todo) = "unit"
      /\ Residents!DoneOrRefused(s, Residents!Orphans(q) = {}, units' = [units EXCEPT ![q.unit] = w], units, q)
      /\ UNCHANGED <<accounts, people, links, invites, requests, crashed>>
  BY <1>1, <1>2 DEF Residents!SaveUnit, Residents!Does
<1>4. q.op \in Ops /\ q.todo \in Todos(q.op) /\ q.op \in {"accept", "assign"} /\ q.unit \in Units
  <2>1. q.op \in Ops /\ q.todo \in Todos(q.op)
    BY <1>1 DEF Call, Holds
  <2>2. q.op \in {"accept", "assign"}
    BY <2>1, <1>3, StepOwners
  <2>3. QED
    BY <2>1, <2>2, <1>1 DEF Holds
<1>5. q.op = "accept" => q.todo \in AcceptTodos /\ NextSteps(q.todo)
  BY <1>4, AcceptTails DEF Todos
<1>6. w.financial = q.unitRow.financial /\ (~ q.related => w.owner = q.unitRow.owner)
  BY <1>1, <1>2, <1>3, <1>4, UnitKept DEF PeopleInv
<1>7. Residents!OneOpenInvite' /\ (crashed = 0 => AllLinked) /\ crashed' = crashed
  BY <1>1, <1>3, <1>4, WhenLinked, OpenSame DEF PeopleSerial
<1>8. CASE units' = units /\ Residents!Ends(s)
  <2>1. crashed' = 0 => AllLinked'
    BY <1>3, <1>7, <1>8 DEF AllLinked
  <2>2. QED
    BY <2>1, <1>7, <1>8, SerialEnds
<1>9. CASE units' = [units EXCEPT ![q.unit] = w] /\ Residents!Continues(s, q)
  <2>1. \A u \in Units : units'[u] = IF u = q.unit THEN w ELSE units[u]
    BY <1>4, <1>9 DEF PeopleInv, Registered
  <2>2. crashed = 0 => LinksHold(q)
    BY <1>1 DEF Current, LinksHold
  <2>3. crashed' = 0 => AllLinked'
    BY <2>1, <2>2, <1>3, <1>4, <1>6, <1>7 DEF AllLinked, LinksHold
  <2>4. ASSUME NEW r \in Call, OnTo(q, q, r), r.todo # << >> PROVE Current(r)'
    <3>1. /\ r.op = q.op /\ r.todo = Tail(q.todo) /\ r.person = q.person /\ r.row = q.row
          /\ r.unit = q.unit /\ r.unitRow = q.unitRow /\ r.related = q.related /\ r.invite = q.invite
      BY <2>4 DEF OnTo
    <3>2. people'[r.person].account \in {0, r.row.account}
      BY <3>1, <1>1, <1>3, <1>4 DEF Current
    <3>3. ASSUME r.op = "accept" PROVE Accepts(r)'
      <4>1. /\ Head(r.todo) # "account"
            /\ r.todo \in AfterPerson => q.todo \in AfterPerson
            /\ r.todo \in AfterLink => q.todo \in AfterLink \/ q.todo = OwnUnit
            /\ r.todo \in Unlinked => q.todo \in Unlinked
        BY <3>1, <3>3, <2>4, <1>3, <1>5 DEF NextSteps
      <4>2. Accepts(q) /\ q.row.account # 0
        BY <3>1, <3>3, <1>1, <1>3 DEF Current, Accepts
      <4>3. OwnUnit \in Unlinked
        BY DEF Unlinked
      <4>4. invites[q.invite].owner => units'[r.unit].owner = invites[q.invite].person
        BY <4>2, <3>1, <2>1, <1>4, <1>6 DEF Accepts
      <4>5. QED
        BY <4>1, <4>2, <4>3, <4>4, <3>1, <1>3 DEF Accepts
    <3>4. LinksHold(r)'
      BY <3>1, <1>1, <1>3 DEF LinksHold, Current
    <3>5. QED
      BY <3>1, <3>2, <3>3, <3>4, <1>4 DEF Current, LinksHold
  <2>5. QED
    BY <2>3, <2>4, <1>1, <1>3, <1>7, <1>9, SameAfter, SerialGoOn
<1>10. QED
  BY <1>3, <1>8, <1>9 DEF Residents!DoneOrRefused

LEMMA SerialReplaces ==
  ASSUME ResidentParameters, PeopleInv, PeopleSerial, OneRequest, NEW s \in Slots, Residents!ReplaceInvites(s)
  PROVE  PeopleSerial'
<1>1. PICK q \in Call : q = calls[s] /\ Holds(q) /\ Current(q)
  BY DEF PeopleInv, PeopleSerial
<1>2. PICK gone : gone = Residents!Replaced(q)
  OBVIOUS
<1>3. /\ q.todo # << >> /\ Head(q.todo) = "replace"
      /\ invites' = [i \in DOMAIN invites |->
                       IF i \in gone THEN [invites[i] EXCEPT !.state = "removed"] ELSE invites[i]]
      /\ Residents!Continues(s, q)
      /\ UNCHANGED <<accounts, people, units, links, requests, crashed>>
  BY <1>1, <1>2 DEF Residents!ReplaceInvites, Residents!Does
<1>4. q.op \in {"unit", "condominium"}
  <2>1. q.op \in Ops /\ q.todo \in Todos(q.op)
    BY <1>1 DEF Call, Holds
  <2>2. QED
    BY <2>1, <1>3, StepOwners
<1>5. /\ DOMAIN invites' = DOMAIN invites
      /\ \A i \in DOMAIN invites :
            /\ invites'[i].kind = invites[i].kind /\ invites'[i].email = invites[i].email
            /\ invites'[i].phone = invites[i].phone
            /\ invites'[i].state \in {"pending", "expired"} => i \notin gone /\ invites[i].state \in {"pending", "expired"}
  <2>1. \A i \in DOMAIN invites : invites[i] \in Residents!Invite
    BY DEF PeopleInv, Registered
  <2>2. QED
    BY <2>1, <1>3, InviteStates
<1>6. Residents!OneOpenInvite' /\ (crashed' = 0 => AllLinked')
  <2>1. crashed = 0 => AllLinked
    BY <1>1, <1>4, WhenLinked
  <2>2. Residents!OneOpenInvite'
    BY <1>5, OpenShrinks DEF PeopleSerial
  <2>3. QED
    BY <2>1, <2>2, <1>3 DEF AllLinked
<1>7. ASSUME NEW r \in Call, OnTo(q, q, r), r.todo # << >> PROVE Current(r)'
  <2>1. /\ r.op = q.op /\ r.person = q.person /\ r.row = q.row /\ r.email = q.email /\ r.phone = q.phone
    BY <1>7 DEF OnTo
  <2>2. people'[r.person].account \in {0, r.row.account}
    BY <2>1, <1>1, <1>3, <1>4 DEF Current
  <2>3. ASSUME r.op = "condominium" PROVE Replacing(r)'
    <3>1. ASSUME NEW i \in Residents!Open', invites'[i].kind = "condominium"
          PROVE  /\ r.email # None => invites'[i].email # r.email
                 /\ r.phone # None => invites'[i].phone # r.phone
      <4>1. /\ i \in DOMAIN invites /\ i \in Residents!Open /\ i \notin gone /\ invites[i].kind = "condominium"
            /\ invites'[i].email = invites[i].email /\ invites'[i].phone = invites[i].phone
        BY <3>1, <1>5 DEF Residents!Open
      <4>2. QED
        BY <4>1, <2>1, <2>3, <1>2 DEF Residents!Replaced
    <3>2. QED
      BY <3>1 DEF Replacing
  <2>4. QED
    BY <2>1, <2>2, <2>3, <1>4 DEF Current
<1>8. QED
  BY <1>1, <1>3, <1>6, <1>7, SameAfter, SerialGoOn

LEMMA SerialSends ==
  ASSUME ResidentParameters, PeopleInv, PeopleSerial, OneRequest, NEW s \in Slots, Residents!SendInvite(s)
  PROVE  PeopleSerial'
<1>1. PICK q \in Call : q = calls[s] /\ Holds(q) /\ Current(q)
  BY DEF PeopleInv, PeopleSerial
<1>2. PICK inv : inv = [kind |-> q.op, email |-> q.email, phone |-> IF q.op = "unit" THEN None ELSE q.phone,
                        person |-> q.person, unit |-> q.unit,
                        owner |-> q.op = "unit" /\ Residents!AsOwner(q.role),
                        responsible |-> q.op = "condominium" \/ Residents!AsResponsible(q.role),
                        state |-> "pending"]
  OBVIOUS
<1>3. /\ q.todo # << >> /\ Head(q.todo) = "send" /\ invites' = Append(invites, inv) /\ Residents!Continues(s, q)
      /\ UNCHANGED <<accounts, people, units, links, requests, crashed>>
  BY <1>1, <1>2 DEF Residents!SendInvite, Residents!Does
<1>4. q.op \in {"unit", "condominium"} /\ q.todo = InviteSend
  <2>1. q.op \in Ops /\ q.todo \in Todos(q.op)
    BY <1>1 DEF Call, Holds
  <2>2. QED
    BY <2>1, <1>3, StepOwners
<1>5. q.op = "condominium" => Replacing(q)
  BY <1>1, <1>4 DEF Current
<1>6. PICK n \in Nat : n = Len(invites) + 1 /\ DOMAIN invites = 1..Len(invites) /\ invites \in Seq(Residents!Invite)
  BY DEF PeopleInv, Registered
<1>7. inv.kind = q.op /\ inv.email = q.email /\ (q.op = "condominium" => inv.phone = q.phone)
  BY <1>2, <1>4
<1>8. DOMAIN invites' = 1..n /\ n \notin DOMAIN invites /\ invites'[n] = inv
      /\ \A i \in 1..n : i = n \/ (i \in DOMAIN invites /\ invites'[i] = invites[i])
  BY <1>3, <1>6
<1>9. \A i \in Residents!Open' : i = n \/ (i \in Residents!Open /\ invites'[i] = invites[i])
  BY <1>8 DEF Residents!Open
<1>10. Residents!OneOpenInvite'
  <2>1. ASSUME NEW i \in Residents!Open', NEW j \in Residents!Open', i # j,
               invites'[i].kind = "condominium", invites'[j].kind = "condominium"
        PROVE  /\ invites'[i].email # None => invites'[i].email # invites'[j].email
               /\ invites'[i].phone # None => invites'[i].phone # invites'[j].phone
    <3>1. CASE i = n
      <4>1. j \in Residents!Open /\ invites'[j] = invites[j]
        BY <3>1, <2>1, <1>9
      <4>2. QED
        BY <4>1, <3>1, <2>1, <1>5, <1>7, <1>8 DEF Replacing
    <3>2. CASE j = n
      <4>1. i \in Residents!Open /\ invites'[i] = invites[i]
        BY <3>2, <2>1, <1>9
      <4>2. QED
        BY <4>1, <3>2, <2>1, <1>5, <1>7, <1>8 DEF Replacing
    <3>3. CASE i # n /\ j # n
      BY <3>3, <2>1, <1>9 DEF PeopleSerial, Residents!OneOpenInvite
    <3>4. QED
      BY <3>1, <3>2, <3>3
  <2>2. QED
    BY <2>1 DEF Residents!OneOpenInvite
<1>11. crashed' = 0 => AllLinked'
  <2>1. crashed = 0 => AllLinked
    BY <1>1, <1>4, WhenLinked
  <2>2. QED
    BY <2>1, <1>3 DEF AllLinked
<1>12. Tail(q.todo) = << >>
  BY <1>4, InviteSteps
<1>13. Residents!Ends(s)
  BY <1>3, <1>12 DEF Residents!Continues, Residents!Ends
<1>14. QED
  BY <1>10, <1>11, <1>13, SerialEnds

\* A telephone that is stored disturbs nothing.
LEMMA SerialPhones ==
  ASSUME ResidentParameters, PeopleInv, PeopleSerial, OneRequest, NEW s \in Slots, NEW q \in Call, q = calls[s],
         q.todo # << >>, q.op \in {"accept", "phone"}, Head(q.todo) \in {"phone", "staff"},
         NEW c \in Call, After(q, c), c.person = q.person, c.row.account = q.row.account,
         Residents!Continues(s, c) \/ Residents!Ends(s), UNCHANGED <<people, units, links, invites, crashed>>
  PROVE  PeopleSerial'
<1>1. Holds(q) /\ Current(q) /\ q.op \in Ops /\ q.todo \in Todos(q.op)
  BY DEF PeopleInv, PeopleSerial, Call, Holds
<1>2. q.op = "accept" => q.todo \in AcceptTodos /\ NextSteps(q.todo)
  BY <1>1, AcceptTails DEF Todos
<1>3. Residents!OneOpenInvite' /\ (crashed' = 0 => AllLinked')
  <2>1. crashed = 0 => AllLinked
    BY WhenLinked
  <2>2. QED
    BY <2>1, OpenSame DEF AllLinked, PeopleSerial
<1>4. CASE Residents!Ends(s)
  BY <1>3, <1>4, SerialEnds
<1>5. CASE Residents!Continues(s, c)
  <2>1. ASSUME NEW r \in Call, OnTo(q, c, r), r.todo # << >> PROVE Current(r)'
    <3>1. /\ r.op = q.op /\ r.todo = Tail(q.todo) /\ r.person = q.person /\ r.row.account = q.row.account
          /\ r.unit = q.unit /\ r.unitRow = q.unitRow /\ r.related = q.related /\ r.invite = q.invite
      BY <2>1 DEF OnTo
    <3>2. people'[r.person].account \in {0, r.row.account}
      BY <3>1, <1>1 DEF Current
    <3>3. ASSUME r.op = "accept" PROVE Accepts(r)'
      <4>1. q.todo = ConfirmPhone /\ q.todo \in AfterPerson
        BY <3>1, <3>3, <1>1, StepOwners DEF AfterPerson
      <4>2. /\ Head(r.todo) # "account"
            /\ r.todo \in AfterUnit => q.todo \in AfterUnit
            /\ r.todo \in AfterLink => q.todo \in AfterLink \/ q.todo = OwnUnit
            /\ r.todo \in Unlinked => q.todo \in Unlinked
        BY <3>1, <3>3, <2>1, <1>2 DEF NextSteps
      <4>3. Accepts(q) /\ q.row.account # 0
        BY <3>1, <3>3, <1>1 DEF Current, Accepts
      <4>4. OwnUnit # ConfirmPhone
        BY AcceptLengths
      <4>5. QED
        BY <4>1, <4>2, <4>3, <4>4, <3>1 DEF Accepts
    <3>4. LinksHold(r)'
      BY <3>1, <1>1 DEF LinksHold, Current
    <3>5. QED
      BY <3>1, <3>2, <3>3, <3>4 DEF Current, LinksHold
  <2>2. QED
    BY <2>1, <1>3, <1>5, SerialGoOn
<1>6. QED
  BY <1>4, <1>5

LEMMA SerialConfirms ==
  ASSUME ResidentParameters, PeopleInv, PeopleSerial, OneRequest, NEW s \in Slots, Residents!ConfirmPhone(s)
  PROVE  PeopleSerial'
<1>1. PICK q \in Call : q = calls[s] /\ Holds(q)
  BY DEF PeopleInv
<1>2. PICK c : c = [q EXCEPT !.row.phone = q.phone]
  OBVIOUS
<1>3. /\ q.todo # << >> /\ Head(q.todo) = "phone" /\ (Residents!Continues(s, c) \/ Residents!Ends(s))
      /\ UNCHANGED <<people, units, links, invites, requests, crashed>>
  BY <1>1, <1>2 DEF Residents!ConfirmPhone, Residents!Does, Residents!DoneOrRefused
<1>4. q.op = "accept" /\ q.row \in Residents!Person /\ q.phone \in Phones \cup {None}
  <2>1. q.op \in Ops /\ q.todo \in Todos(q.op)
    BY <1>1 DEF Call, Holds
  <2>2. QED
    BY <2>1, <1>3, StepOwners DEF Call
<1>5. c \in Call /\ c.row.account = q.row.account /\ c.person = q.person /\ After(q, c)
  <2>1. PICK r : r = [q.row EXCEPT !.phone = q.phone]
    OBVIOUS
  <2>2. r \in Residents!Person /\ r.account = q.row.account
    BY <2>1, <1>4 DEF Residents!Person
  <2>3. c = [q EXCEPT !.row = r]
    BY <2>1, <1>2
  <2>4. QED
    BY <2>2, <2>3 DEF Call, After
<1>6. QED
  BY <1>1, <1>3, <1>4, <1>5, SerialPhones

LEMMA SerialStaff ==
  ASSUME ResidentParameters, PeopleInv, PeopleSerial, OneRequest, NEW s \in Slots, Residents!SetPhoneByStaff(s)
  PROVE  PeopleSerial'
<1>1. PICK q \in Call : q = calls[s] /\ Holds(q)
  BY DEF PeopleInv
<1>2. /\ q.todo # << >> /\ Head(q.todo) = "staff" /\ (Residents!Continues(s, q) \/ Residents!Ends(s))
      /\ UNCHANGED <<people, units, links, invites, requests, crashed>>
  BY <1>1 DEF Residents!SetPhoneByStaff, Residents!Does, Residents!DoneOrRefused
<1>3. q.op = "phone"
  <2>1. q.op \in Ops /\ q.todo \in Todos(q.op)
    BY <1>1 DEF Call, Holds
  <2>2. QED
    BY <2>1, <1>2, StepOwners
<1>4. QED
  BY <1>1, <1>2, <1>3, SameAfter, SerialPhones

LEMMA SerialConsumes ==
  ASSUME ResidentParameters, PeopleInv, PeopleSerial, OneRequest, NEW s \in Slots, Residents!Consume(s)
  PROVE  PeopleSerial'
<1>1. PICK q \in Call : q = calls[s] /\ Holds(q)
  BY DEF PeopleInv
<1>2. /\ q.todo # << >> /\ Head(q.todo) = "consume"
      /\ invites' = [invites EXCEPT ![q.invite].state = "consumed"] /\ Residents!Continues(s, q)
      /\ UNCHANGED <<accounts, people, units, links, requests, crashed>>
  BY <1>1 DEF Residents!Consume, Residents!Does
<1>3. q.op = "accept" /\ q.todo = Consuming
  <2>1. q.op \in Ops /\ q.todo \in Todos(q.op)
    BY <1>1 DEF Call, Holds
  <2>2. QED
    BY <2>1, <1>2, StepOwners
<1>4. Residents!OneOpenInvite'
  <2>1. q.invite \in DOMAIN invites /\ \A i \in DOMAIN invites : invites[i] \in Residents!Invite
    BY <1>1, <1>3 DEF PeopleInv, Registered, Holds
  <2>2. /\ DOMAIN invites' = DOMAIN invites
        /\ \A i \in DOMAIN invites :
              invites'[i] = IF i = q.invite THEN [invites[i] EXCEPT !.state = "consumed"] ELSE invites[i]
    BY <2>1, <1>2
  <2>3. \A i \in DOMAIN invites :
            /\ invites'[i].kind = invites[i].kind /\ invites'[i].email = invites[i].email
            /\ invites'[i].phone = invites[i].phone
            /\ invites'[i].state \in {"pending", "expired"} => invites[i].state \in {"pending", "expired"}
    <3>1. PICK inv : inv = [invites[q.invite] EXCEPT !.state = "consumed"]
      OBVIOUS
    <3>2. /\ inv.kind = invites[q.invite].kind /\ inv.email = invites[q.invite].email
          /\ inv.phone = invites[q.invite].phone /\ inv.state = "consumed"
      BY <3>1, <2>1, InviteStates
    <3>3. \A i \in DOMAIN invites : invites'[i] = IF i = q.invite THEN inv ELSE invites[i]
      BY <3>1, <2>2
    <3>4. QED
      BY <3>2, <3>3
  <2>4. QED
    BY <2>2, <2>3, OpenShrinks DEF PeopleSerial
<1>5. crashed' = 0 => AllLinked'
  <2>1. crashed = 0 => AllLinked
    BY <1>1, <1>3, WhenLinked
  <2>2. QED
    BY <2>1, <1>2 DEF AllLinked
<1>6. Residents!Ends(s)
  BY <1>2, <1>3, AcceptSteps DEF Residents!Continues, Residents!Ends
<1>7. QED
  BY <1>4, <1>5, <1>6, SerialEnds

LEMMA SerialForgets ==
  ASSUME ResidentParameters, PeopleInv, PeopleSerial, OneRequest, NEW s \in Slots, Residents!Forget(s)
  PROVE  PeopleSerial'
<1>1. PICK q \in Call : q = calls[s] /\ Holds(q)
  BY DEF PeopleInv
<1>2. PICK v : v = units[q.unit]
  OBVIOUS
<1>3. PICK w : w = [v EXCEPT !.financial = IF q.person \in {0, v.financial} THEN 0 ELSE @,
                             !.pending = IF q.person = 0 THEN None ELSE @]
  OBVIOUS
<1>4. /\ q.todo # << >> /\ Head(q.todo) = "forget"
      /\ units' = [units EXCEPT ![q.unit] = w] /\ Residents!Continues(s, q)
      /\ UNCHANGED <<accounts, people, links, invites, requests, crashed>>
  BY <1>1, <1>2, <1>3 DEF Residents!Forget, Residents!Does
<1>5. q.op = "unlink" /\ q.unit \in Units /\ q.todo = OnlyForget
  <2>1. q.op \in Ops /\ q.todo \in Todos(q.op)
    BY <1>1 DEF Call, Holds
  <2>2. q.op = "unlink"
    BY <2>1, <1>4, StepOwners
  <2>3. QED
    BY <2>1, <2>2, <1>1 DEF Holds, Todos
<1>6. w.financial = IF q.person \in {0, v.financial} THEN 0 ELSE v.financial
  <2>1. v \in Residents!Unit
    BY <1>2, <1>5 DEF PeopleInv, Registered
  <2>2. PICK f : f = IF q.person \in {0, v.financial} THEN 0 ELSE v.financial
    OBVIOUS
  <2>3. PICK p : p = IF q.person = 0 THEN None ELSE v.pending
    OBVIOUS
  <2>4. w = [v EXCEPT !.financial = f, !.pending = p]
    BY <2>2, <2>3, <1>3
  <2>5. w.financial = f
    BY <2>1, <2>4 DEF Residents!Unit
  <2>6. QED
    BY <2>2, <2>5
<1>7. crashed' = 0 => AllLinked'
  <2>1. \A u \in Units : units'[u] = IF u = q.unit THEN w ELSE units[u]
    BY <1>4, <1>5 DEF PeopleInv, Registered
  <2>2. \A z \in Slots : calls[z] = q
    BY <1>1 DEF OneRequest
  <2>3. ASSUME crashed = 0, NEW u \in Units, units'[u].financial # 0 PROVE <<u, units'[u].financial>> \in links
    <3>1. CASE u = q.unit
      <4>1. q.person \notin {0, v.financial} /\ units'[u].financial = v.financial
        BY <3>1, <2>1, <2>3, <1>6
      <4>2. <<u, v.financial>> \in links \/ \E z \in Slots : Forgetting(calls[z], u)
        BY <4>1, <3>1, <2>3, <1>2 DEF PeopleSerial
      <4>3. QED
        BY <4>1, <4>2, <3>1, <2>2, <1>2 DEF Forgetting
    <3>2. CASE u # q.unit
      <4>1. units'[u] = units[u]
        BY <3>2, <2>1
      <4>2. <<u, units[u].financial>> \in links \/ \E z \in Slots : Forgetting(calls[z], u)
        BY <4>1, <2>3 DEF PeopleSerial
      <4>3. QED
        BY <4>1, <4>2, <3>2, <2>2 DEF Forgetting
    <3>3. QED
      BY <3>1, <3>2
  <2>4. QED
    BY <2>3, <1>4 DEF AllLinked
<1>8. Residents!OneOpenInvite'
  BY <1>4, OpenSame DEF PeopleSerial
<1>9. Residents!Ends(s)
  BY <1>4, <1>5, OtherSteps DEF Residents!Continues, Residents!Ends
<1>10. QED
  BY <1>7, <1>8, <1>9, SerialEnds

LEMMA SerialBegins ==
  ASSUME PeopleInv, PeopleSerial, OneRequest, NEW s \in Slots, Begun(s),
         UNCHANGED <<people, units, links, invites, crashed>>
  PROVE  PeopleSerial'
<1>1. PICK c \in Call : calls' = [calls EXCEPT ![s] = c] /\ calls[s] = Residents!NoCall /\ Starting(c)
  BY DEF Begun
<1>2. calls[s].op # "unlink"
  BY <1>1 DEF Residents!NoCall
<1>3. crashed = 0 => AllLinked
  BY <1>2, WhenLinked
<1>4. Residents!OneOpenInvite' /\ (crashed' = 0 => LinkedBut(c)')
  BY <1>3, OpenSame DEF AllLinked, LinkedBut, PeopleSerial
<1>5. Current(c)'
  <2>1. c.op \notin {"none", "unlink"} /\ Head(c.todo) # "new" => people'[c.person].account \in {0, c.row.account}
    BY <1>1 DEF Starting
  <2>2. c.op = "accept" => Accepts(c)'
    BY <1>1 DEF Starting, Accepts
  <2>3. LinksHold(c)'
    <3>1. c.op \in {"accept", "assign"} => c.unit \in Units /\ c.unitRow.financial = units[c.unit].financial
      BY <1>1 DEF Starting, Holds
    <3>2. QED
      BY <3>1, <1>3 DEF LinksHold, AllLinked
  <2>4. QED
    BY <2>1, <2>2, <2>3, <1>1 DEF Current, LinksHold, Starting
<1>6. QED
  BY <1>1, <1>4, <1>5, SerialMoves

LEMMA SerialRemoves ==
  ASSUME ResidentParameters, PeopleInv, PeopleSerial, OneRequest, NEW s \in Slots, NEW u \in Units,
         NEW p \in {0} \cup DOMAIN people, Residents!RemoveResponsible(s, u, p)
  PROVE  PeopleSerial'
<1>1. PICK c \in Call : /\ calls' = [calls EXCEPT ![s] = c] /\ calls[s] = Residents!NoCall
                        /\ c.op = "unlink" /\ c.unit = u /\ c.person = p
  BY ResponsibleRemoved
<1>2. /\ links' = {l \in links : l[1] # u \/ (p # 0 /\ l[2] # p)}
      /\ UNCHANGED <<accounts, people, units, invites, crashed>>
  BY DEF Residents!RemoveResponsible
<1>3. calls[s].op # "unlink"
  BY <1>1 DEF Residents!NoCall
<1>4. crashed = 0 => AllLinked
  BY <1>3, WhenLinked
<1>5. ASSUME crashed = 0, NEW v \in Units, units[v].financial # 0
      PROVE  <<v, units[v].financial>> \in links' \/ Forgetting(c, v)
  <2>1. <<v, units[v].financial>> \in links
    BY <1>4, <1>5 DEF AllLinked
  <2>2. CASE v # u \/ (p # 0 /\ units[v].financial # p)
    BY <2>1, <2>2, <1>2
  <2>3. CASE v = u /\ (p = 0 \/ units[v].financial = p)
    BY <2>3, <1>1 DEF Forgetting
  <2>4. QED
    BY <2>2, <2>3
<1>6. crashed' = 0 => LinkedBut(c)'
  BY <1>2, <1>5 DEF LinkedBut, Forgetting
<1>7. Current(c)'
  BY <1>1 DEF Current
<1>8. Residents!OneOpenInvite'
  BY <1>2, OpenSame DEF PeopleSerial
<1>9. QED
  BY <1>1, <1>6, <1>7, <1>8, SerialMoves

\* A step that no slot takes.
LEMMA SerialStays ==
  ASSUME PeopleInv, PeopleSerial, UNCHANGED <<people, links, calls, crashed>>,
         \A u \in Units : units'[u].owner = units[u].owner,
         \A u \in Units : \/ units'[u].financial \in {0, units[u].financial}
                          \/ <<u, units'[u].financial>> \in links,
         DOMAIN invites' = DOMAIN invites,
         \A i \in DOMAIN invites :
            /\ invites'[i].kind = invites[i].kind /\ invites'[i].email = invites[i].email
            /\ invites'[i].phone = invites[i].phone /\ invites'[i].person = invites[i].person
            /\ invites'[i].unit = invites[i].unit /\ invites'[i].owner = invites[i].owner
            /\ invites'[i].responsible = invites[i].responsible
            /\ invites'[i].state \in {"pending", "expired"} => invites[i].state \in {"pending", "expired"}
  PROVE  PeopleSerial'
<1>1. Residents!OneOpenInvite' /\ \A c : Replacing(c) => Replacing(c)'
  BY OpenShrinks DEF PeopleSerial
<1>2. ASSUME NEW v \in Slots PROVE Current(calls[v])'
  <2>1. PICK c \in Call : c = calls[v] /\ Current(c) /\ Holds(c)
    BY DEF PeopleInv, PeopleSerial
  <2>2. c.op = "accept" => Accepts(c)'
    <3>1. SUFFICES ASSUME c.op = "accept" PROVE Accepts(c)'
      OBVIOUS
    <3>2. c.invite \in DOMAIN invites /\ c.unit \in Units /\ Accepts(c)
      BY <3>1, <2>1 DEF Holds, Current, PeopleInv, Registered
    <3>3. QED
      BY <3>2 DEF Accepts
  <2>3. LinksHold(c)'
    BY <2>1 DEF LinksHold, Current
  <2>4. Current(c)'
    BY <2>1, <2>2, <2>3, <1>1 DEF Current, LinksHold
  <2>5. QED
    BY <2>1, <2>4 DEF Current, Accepts, Replacing
<1>3. ASSUME crashed' = 0, NEW u \in Units, units'[u].financial # 0
      PROVE  <<u, units'[u].financial>> \in links' \/ \E v \in Slots : Forgetting(calls[v], u)'
  <2>1. CASE <<u, units'[u].financial>> \in links
    BY <2>1
  <2>2. CASE units'[u].financial = units[u].financial
    <3>1. <<u, units[u].financial>> \in links \/ \E v \in Slots : Forgetting(calls[v], u)
      BY <2>2, <1>3 DEF PeopleSerial
    <3>2. \A v \in Slots : Forgetting(calls[v], u) => Forgetting(calls[v], u)'
      BY <2>2 DEF Forgetting
    <3>3. QED
      BY <3>1, <3>2, <2>2
  <2>3. QED
    BY <2>1, <2>2, <1>3
<1>4. QED
  BY <1>1, <1>2, <1>3 DEF PeopleSerial

LEMMA SerialInit == ASSUME ResidentParameters, Residents!Init PROVE PeopleSerial
<1>1. /\ invites = << >> /\ crashed = 0
      /\ units = [u \in Units |-> Residents!NoUnit] /\ calls = [s \in Slots |-> Residents!NoCall]
  BY DEF Residents!Init
<1>2. Residents!OneOpenInvite
  BY <1>1 DEF Residents!OneOpenInvite, Residents!Open
<1>3. PICK n : n = Residents!NoCall /\ n.op = "none"
  <2>1. Residents!NoCall.op = "none"
    BY DEF Residents!NoCall
  <2>2. QED
    BY <2>1
<1>4. \A s \in Slots : Current(calls[s])
  BY <1>1, <1>3 DEF Current
<1>5. \A u \in Units : units[u].financial = 0
  BY <1>1 DEF Residents!NoUnit
<1>6. QED
  BY <1>2, <1>4, <1>5 DEF PeopleSerial

LEMMA SettledSame ==
  ASSUME PeopleInv, NEW i \in DOMAIN invites, NEW state \in {"removed", "expired"},
         invites' = [invites EXCEPT ![i].state = state], state = "expired" => invites[i].state = "pending"
  PROVE  /\ DOMAIN invites' = DOMAIN invites
         /\ \A j \in DOMAIN invites :
            /\ invites'[j].kind = invites[j].kind /\ invites'[j].email = invites[j].email
            /\ invites'[j].phone = invites[j].phone /\ invites'[j].person = invites[j].person
            /\ invites'[j].unit = invites[j].unit /\ invites'[j].owner = invites[j].owner
            /\ invites'[j].responsible = invites[j].responsible
            /\ invites'[j].state \in {"pending", "expired"} => invites[j].state \in {"pending", "expired"}
<1>1. PICK inv : inv = [invites[i] EXCEPT !.state = state]
  OBVIOUS
<1>2. invites[i] \in Residents!Invite
  BY DEF PeopleInv, Registered
<1>3. /\ inv.kind = invites[i].kind /\ inv.email = invites[i].email /\ inv.phone = invites[i].phone
      /\ inv.person = invites[i].person /\ inv.unit = invites[i].unit /\ inv.owner = invites[i].owner
      /\ inv.responsible = invites[i].responsible /\ inv.state = state
  BY <1>1, <1>2 DEF Residents!Invite
<1>4. DOMAIN invites' = DOMAIN invites /\ \A j \in DOMAIN invites : invites'[j] = IF j = i THEN inv ELSE invites[j]
  BY <1>1
<1>5. QED
  BY <1>3, <1>4

LEMMA SerialNext ==
  ASSUME ResidentParameters, OneRequest, PeopleInv, PeopleSerial, [Residents!Next]_(Residents!peopleVars)
  PROVE  PeopleSerial'
<1>1. Registered /\ units \in [Units -> Residents!Unit]
  BY DEF PeopleInv, Registered
<1>2. ASSUME NEW e \in Emails, NEW ph \in Phones, Residents!Register(e, ph) PROVE PeopleSerial'
  <2>1. UNCHANGED <<people, units, links, invites, calls, crashed>>
    BY <1>2 DEF Residents!Register
  <2>2. QED
    BY <2>1, SerialStays
<1>3. ASSUME NEW u \in Units, NEW p \in {0} \cup DOMAIN people, Residents!SetFinancialResponsible(u, p) PROVE PeopleSerial'
  <2>1. /\ units' = [units EXCEPT ![u].financial = p] /\ (p = 0 \/ <<u, p>> \in links)
        /\ UNCHANGED <<accounts, people, links, invites, calls, crashed>>
    BY <1>3 DEF Residents!SetFinancialResponsible, Residents!LinkedTo
  <2>2. PICK w : w = [units[u] EXCEPT !.financial = p]
    OBVIOUS
  <2>3. w.owner = units[u].owner /\ w.financial = p
    BY <2>2, <1>1 DEF Residents!Unit
  <2>4. \A v \in Units : units'[v] = IF v = u THEN w ELSE units[v]
    BY <2>1, <2>2, <1>1
  <2>5. /\ \A v \in Units : units'[v].owner = units[v].owner
        /\ \A v \in Units : units'[v].financial \in {0, units[v].financial} \/ <<v, units'[v].financial>> \in links
    BY <2>1, <2>3, <2>4
  <2>6. QED
    BY <2>1, <2>5, SerialStays
<1>4. ASSUME NEW u \in Units, NEW ph \in Phones \cup {None}, Residents!SetPendingPhone(u, ph) PROVE PeopleSerial'
  <2>1. /\ units' = [units EXCEPT ![u].pending = ph]
        /\ UNCHANGED <<accounts, people, links, invites, calls, crashed>>
    BY <1>4 DEF Residents!SetPendingPhone
  <2>2. PICK w : w = [units[u] EXCEPT !.pending = ph]
    OBVIOUS
  <2>3. w.owner = units[u].owner /\ w.financial = units[u].financial
    BY <2>2, <1>1 DEF Residents!Unit
  <2>4. \A v \in Units : units'[v] = IF v = u THEN w ELSE units[v]
    BY <2>1, <2>2, <1>1
  <2>5. /\ \A v \in Units : units'[v].owner = units[v].owner
        /\ \A v \in Units : units'[v].financial \in {0, units[v].financial} \/ <<v, units'[v].financial>> \in links
    BY <2>3, <2>4
  <2>6. QED
    BY <2>1, <2>5, SerialStays
<1>5. ASSUME NEW i \in DOMAIN invites, NEW state \in {"removed", "expired"},
             invites' = [invites EXCEPT ![i].state = state], state = "expired" => invites[i].state = "pending",
             UNCHANGED <<people, units, links, calls, crashed>>
      PROVE  PeopleSerial'
  <2>1. /\ DOMAIN invites' = DOMAIN invites
        /\ \A j \in DOMAIN invites :
            /\ invites'[j].kind = invites[j].kind /\ invites'[j].email = invites[j].email
            /\ invites'[j].phone = invites[j].phone /\ invites'[j].person = invites[j].person
            /\ invites'[j].unit = invites[j].unit /\ invites'[j].owner = invites[j].owner
            /\ invites'[j].responsible = invites[j].responsible
            /\ invites'[j].state \in {"pending", "expired"} => invites[j].state \in {"pending", "expired"}
    BY <1>5, SettledSame
  <2>2. QED
    BY <2>1, <1>5, SerialStays
<1>6. ASSUME NEW i \in DOMAIN invites, Residents!DeleteCondominiumInvitation(i) PROVE PeopleSerial'
  BY <1>5, <1>6 DEF Residents!DeleteCondominiumInvitation
<1>7. ASSUME NEW i \in DOMAIN invites, Residents!Expire(i) PROVE PeopleSerial'
  BY <1>5, <1>7 DEF Residents!Expire
<1>8. ASSUME NEW s \in Slots, Residents!Requests(s) PROVE PeopleSerial'
  <2>1. ASSUME NEW a \in DOMAIN accounts, NEW e \in Emails, NEW ph \in Phones, NEW named \in BOOLEAN,
               Residents!UpdateProfile(s, a, e, ph, named)
        PROVE  PeopleSerial'
    <3>1. UNCHANGED <<people, units, links, invites, crashed>>
      BY <2>1 DEF Residents!UpdateProfile
    <3>2. Begun(s) \/ calls' = calls
      BY <2>1, ProfileUpdated
    <3>3. CASE Begun(s)
      BY <3>1, <3>3, SerialBegins
    <3>4. CASE calls' = calls
      BY <3>1, <3>4, SerialStays
    <3>5. QED
      BY <3>2, <3>3, <3>4
  <2>2. ASSUME NEW u \in Units, NEW role \in Residents!Roles, NEW e \in Emails, NEW ph \in Phones \cup {None},
               Residents!AssignToUnit(s, u, role, e, ph)
        PROVE  PeopleSerial'
    <3>1. UNCHANGED <<people, units, links, invites, crashed>>
      BY <2>2 DEF Residents!AssignToUnit
    <3>2. Begun(s)
      BY <2>2, PersonAssigned, AccountAssigned, StrangerAssigned DEF Residents!AssignToUnit
    <3>3. QED
      BY <3>1, <3>2, SerialBegins
  <2>3. ASSUME NEW u \in Units, NEW e \in Emails \cup {None}, NEW ph \in Phones \cup {None},
               Residents!CreateCondominiumInvitation(s, u, e, ph)
        PROVE  PeopleSerial'
    <3>1. UNCHANGED <<people, units, links, invites, crashed>>
      BY <2>3 DEF Residents!CreateCondominiumInvitation
    <3>2. Begun(s)
      BY <2>3, CondominiumInvited
    <3>3. QED
      BY <3>1, <3>2, SerialBegins
  <2>4. ASSUME NEW i \in DOMAIN invites, NEW ph \in Phones,
               Residents!AcceptUnitInvitation(s, i, ph) \/ Residents!AcceptCondominiumInvitation(s, i, ph)
        PROVE  PeopleSerial'
    <3>1. UNCHANGED <<people, units, links, invites, crashed>>
      BY <2>4 DEF Residents!AcceptUnitInvitation, Residents!AcceptCondominiumInvitation
    <3>2. Begun(s)
      BY <2>4, InvitationAccepted
    <3>3. QED
      BY <3>1, <3>2, SerialBegins
  <2>5. ASSUME NEW u \in Units, NEW p \in DOMAIN people, NEW ph \in Phones \cup {None},
               Residents!PatchPersonPhone(s, u, p, ph)
        PROVE  PeopleSerial'
    <3>1. UNCHANGED <<people, units, links, invites, crashed>>
      BY <2>5 DEF Residents!PatchPersonPhone
    <3>2. Begun(s)
      BY <2>5, PhonePatched
    <3>3. QED
      BY <3>1, <3>2, SerialBegins
  <2>6. ASSUME NEW u \in Units, NEW p \in {0} \cup DOMAIN people, Residents!RemoveResponsible(s, u, p) PROVE PeopleSerial'
    BY <2>6, SerialRemoves
  <2>7. QED
    BY <2>1, <2>2, <2>3, <2>4, <2>5, <2>6, <1>8 DEF Residents!Requests
<1>9. ASSUME NEW s \in Slots, Residents!Steps(s) PROVE PeopleSerial'
  BY <1>9, SerialAccounts, SerialNewPeople, SerialPeople, SerialLinks, SerialUnits, SerialReplaces, SerialSends,
     SerialConfirms, SerialConsumes, SerialStaff, SerialForgets DEF Residents!Steps
<1>10. ASSUME NEW s \in Slots, Residents!Crash(s) PROVE PeopleSerial'
  <2>1. Residents!Ends(s) /\ crashed' = crashed + 1 /\ invites' = invites
    BY <1>10 DEF Residents!Crash
  <2>2. crashed' # 0
    BY <2>1 DEF PeopleInv
  <2>3. Residents!OneOpenInvite'
    BY <2>1, OpenSame DEF PeopleSerial
  <2>4. QED
    BY <2>1, <2>2, <2>3, SerialEnds
<1>11. CASE UNCHANGED Residents!peopleVars
  <2>1. UNCHANGED <<people, units, links, invites, calls, crashed>>
    BY <1>11 DEF Residents!peopleVars
  <2>2. QED
    BY <2>1, SerialStays
<1>12. QED
  BY <1>2, <1>3, <1>4, <1>6, <1>7, <1>8, <1>9, <1>10, <1>11 DEF Residents!Next

\* ... and none that finds no other request disturbs what a request loaded.
LEMMA SerialInvariant ==
  ASSUME ResidentParameters, OneRequest PROVE Residents!Spec => [](PeopleInv /\ PeopleSerial)
<1>1. Residents!Init => PeopleInv /\ PeopleSerial
  BY PeopleInit, SerialInit
<1>2. PeopleInv /\ PeopleSerial /\ [Residents!Next]_(Residents!peopleVars) => PeopleInv' /\ PeopleSerial'
  BY PeopleNext, SerialNext
<1>3. QED
  BY <1>1, <1>2, PTL DEF Residents!Spec

\* FinancialIsResponsible: when no request is running and none was cut short, the financial
\* responsible of a unit is one of its responsible people, though acceptances, assignments
\* and removals write the link and the unit in separate saves.
THEOREM ResponsibleAnswers ==
  ASSUME ResidentParameters, OneRequest PROVE Residents!Spec => []Residents!FinancialIsResponsible
<1>1. PeopleInv /\ PeopleSerial => Residents!FinancialIsResponsible
  <2>1. SUFFICES ASSUME PeopleSerial, \A s \in Slots : Residents!Idle(s), crashed = 0, NEW u \in Units,
                        units[u].financial # 0
                 PROVE  <<u, units[u].financial>> \in links
    BY DEF Residents!FinancialIsResponsible
  <2>2. \A s \in Slots : calls[s].op = "none"
    BY <2>1 DEF Residents!Idle, Residents!NoCall
  <2>3. QED
    BY <2>1, <2>2 DEF PeopleSerial, Forgetting
<1>2. QED
  BY <1>1, SerialInvariant, PTL

\* OneOpenInvite: a contact has at most one invitation to the condominium that can still be
\* accepted, even after an invitation that revoked the earlier ones and was then cut short.
THEOREM OneInvitationEach ==
  ASSUME ResidentParameters, OneRequest PROVE Residents!Spec => []Residents!OneOpenInvite
<1>1. PeopleInv /\ PeopleSerial => Residents!OneOpenInvite
  BY DEF PeopleSerial
<1>2. QED
  BY <1>1, SerialInvariant, PTL

\* The steps that write people, and those that write invitations.
LEMMA WhoWrites ==
  ASSUME Residents!Next
  PROVE  /\ people' = people \/ \E s \in Slots : Residents!CreatePerson(s) \/ Residents!SavePerson(s)
         /\ \/ invites' = invites
            \/ \E s \in Slots : Residents!ReplaceInvites(s) \/ Residents!SendInvite(s) \/ Residents!Consume(s)
            \/ \E i \in DOMAIN invites : Residents!DeleteCondominiumInvitation(i) \/ Residents!Expire(i)
<1>1. ASSUME NEW e \in Emails, NEW ph \in Phones, Residents!Register(e, ph) PROVE UNCHANGED <<people, invites>>
  BY <1>1 DEF Residents!Register
<1>2. ASSUME NEW u \in Units, NEW p \in {0} \cup DOMAIN people, Residents!SetFinancialResponsible(u, p)
      PROVE  UNCHANGED <<people, invites>>
  BY <1>2 DEF Residents!SetFinancialResponsible
<1>3. ASSUME NEW u \in Units, NEW ph \in Phones \cup {None}, Residents!SetPendingPhone(u, ph)
      PROVE  UNCHANGED <<people, invites>>
  BY <1>3 DEF Residents!SetPendingPhone
<1>4. ASSUME NEW i \in DOMAIN invites, Residents!DeleteCondominiumInvitation(i) \/ Residents!Expire(i)
      PROVE  people' = people
  BY <1>4 DEF Residents!DeleteCondominiumInvitation, Residents!Expire
<1>5. ASSUME NEW s \in Slots, Residents!Requests(s) PROVE UNCHANGED <<people, invites>>
  <2>1. ASSUME NEW a \in DOMAIN accounts, NEW e \in Emails, NEW ph \in Phones, NEW named \in BOOLEAN,
             Residents!UpdateProfile(s, a, e, ph, named)
       PROVE  UNCHANGED <<people, invites>>
    BY <2>1 DEF Residents!UpdateProfile
  <2>2. ASSUME NEW u \in Units, NEW role \in Residents!Roles, NEW e \in Emails, NEW ph \in Phones \cup {None},
             Residents!AssignToUnit(s, u, role, e, ph)
       PROVE  UNCHANGED <<people, invites>>
    BY <2>2 DEF Residents!AssignToUnit
  <2>3. ASSUME NEW u \in Units, NEW e \in Emails \cup {None}, NEW ph \in Phones \cup {None},
             Residents!CreateCondominiumInvitation(s, u, e, ph)
       PROVE  UNCHANGED <<people, invites>>
    BY <2>3 DEF Residents!CreateCondominiumInvitation
  <2>4. ASSUME NEW i \in DOMAIN invites, NEW ph \in Phones,
             Residents!AcceptUnitInvitation(s, i, ph)
       PROVE  UNCHANGED <<people, invites>>
    BY <2>4 DEF Residents!AcceptUnitInvitation
  <2>5. ASSUME NEW i \in DOMAIN invites, NEW ph \in Phones,
             Residents!AcceptCondominiumInvitation(s, i, ph)
       PROVE  UNCHANGED <<people, invites>>
    BY <2>5 DEF Residents!AcceptCondominiumInvitation
  <2>6. ASSUME NEW u \in Units, NEW p \in DOMAIN people, NEW ph \in Phones \cup {None},
             Residents!PatchPersonPhone(s, u, p, ph)
       PROVE  UNCHANGED <<people, invites>>
    BY <2>6 DEF Residents!PatchPersonPhone
  <2>7. ASSUME NEW u \in Units, NEW p \in {0} \cup DOMAIN people,
             Residents!RemoveResponsible(s, u, p)
       PROVE  UNCHANGED <<people, invites>>
    BY <2>7 DEF Residents!RemoveResponsible
  <2>8. QED
    BY <1>5, <2>1, <2>2, <2>3, <2>4, <2>5, <2>6, <2>7 DEF Residents!Requests
<1>6. ASSUME NEW s \in Slots, Residents!Crash(s) PROVE UNCHANGED <<people, invites>>
  BY <1>6 DEF Residents!Crash
<1>7. ASSUME NEW s \in Slots, Residents!CreateAccount(s) \/ Residents!LinkPerson(s) \/ Residents!SaveUnit(s)
                              \/ Residents!ConfirmPhone(s) \/ Residents!SetPhoneByStaff(s) \/ Residents!Forget(s)
      PROVE  UNCHANGED <<people, invites>>
  BY <1>7 DEF Residents!CreateAccount, Residents!LinkPerson, Residents!SaveUnit, Residents!ConfirmPhone,
              Residents!SetPhoneByStaff, Residents!Forget
<1>8. ASSUME NEW s \in Slots, Residents!CreatePerson(s) \/ Residents!SavePerson(s) PROVE invites' = invites
  BY <1>8 DEF Residents!CreatePerson, Residents!SavePerson
<1>9. ASSUME NEW s \in Slots, Residents!ReplaceInvites(s) \/ Residents!SendInvite(s) \/ Residents!Consume(s)
      PROVE  people' = people
  BY <1>9 DEF Residents!ReplaceInvites, Residents!SendInvite, Residents!Consume
<1>10. ASSUME NEW s \in Slots, Residents!Steps(s)
       PROVE  /\ people' = people \/ Residents!CreatePerson(s) \/ Residents!SavePerson(s)
              /\ \/ invites' = invites
                 \/ Residents!ReplaceInvites(s) \/ Residents!SendInvite(s) \/ Residents!Consume(s)
  BY <1>7, <1>8, <1>9, <1>10 DEF Residents!Steps
<1>11. QED
  BY <1>1, <1>2, <1>3, <1>4, <1>5, <1>6, <1>10 DEF Residents!Next

LEMMA AccountsStay ==
  ASSUME PeopleInv, PeopleSerial, [Residents!Next]_(Residents!peopleVars) PROVE Residents!AccountStays
<1>1. CASE people' = people
  BY <1>1 DEF Residents!AccountStays
<1>2. ASSUME NEW s \in Slots, Residents!CreatePerson(s) PROVE Residents!AccountStays
  <2>1. people' = people \/ people' = Append(people, calls[s].row)
    BY <1>2 DEF Residents!CreatePerson, Residents!DoneOrRefused
  <2>2. people \in Seq(Residents!Person)
    BY DEF PeopleInv, Registered
  <2>3. \A p \in DOMAIN people : people'[p] = people[p]
    BY <2>1, <2>2
  <2>4. QED
    BY <2>3 DEF Residents!AccountStays
<1>3. ASSUME NEW s \in Slots, Residents!SavePerson(s) PROVE Residents!AccountStays
  <2>1. PICK q \in Call : q = calls[s] /\ Holds(q) /\ Current(q)
    BY DEF PeopleInv, PeopleSerial
  <2>2. /\ q.todo # << >> /\ Head(q.todo) = "person"
        /\ people' = people \/ people' = [people EXCEPT ![q.person] = q.row]
    BY <2>1, <1>3 DEF Residents!SavePerson, Residents!Does, Residents!DoneOrRefused
  <2>3. people[q.person].account \in {0, q.row.account}
    <3>1. q.op \in Ops /\ q.todo \in Todos(q.op)
      BY <2>1 DEF Call, Holds
    <3>2. q.op \notin {"none", "unlink"}
      BY <3>1, <2>2, StepOwners
    <3>3. QED
      BY <3>2, <2>1, <2>2 DEF Current
  <2>4. \A p \in DOMAIN people : people'[p] = people[p] \/ (p = q.person /\ people'[p] = q.row)
    BY <2>2
  <2>5. QED
    BY <2>3, <2>4 DEF Residents!AccountStays
<1>4. QED
  BY <1>1, <1>2, <1>3, WhoWrites DEF Residents!peopleVars

LEMMA ConsumptionLinked ==
  ASSUME PeopleInv, PeopleSerial, [Residents!Next]_(Residents!peopleVars) PROVE Residents!ConsumptionLinks
<1>1. \A i \in DOMAIN invites : invites[i] \in Residents!Invite
  BY DEF PeopleInv, Registered
<1>2. CASE invites' = invites
  BY <1>2 DEF Residents!ConsumptionLinks
<1>3. ASSUME NEW s \in Slots, Residents!ReplaceInvites(s) PROVE Residents!ConsumptionLinks
  <2>1. invites' = [i \in DOMAIN invites |-> IF i \in Residents!Replaced(calls[s])
                                              THEN [invites[i] EXCEPT !.state = "removed"] ELSE invites[i]]
    BY <1>3 DEF Residents!ReplaceInvites
  <2>2. \A i \in DOMAIN invites : invites'[i] = invites[i] \/ invites'[i].state = "removed"
    BY <2>1, <1>1, InviteStates
  <2>3. QED
    BY <2>2 DEF Residents!ConsumptionLinks
<1>4. ASSUME NEW s \in Slots, Residents!SendInvite(s) PROVE Residents!ConsumptionLinks
  <2>1. PICK inv : invites' = Append(invites, inv)
    BY <1>4 DEF Residents!SendInvite
  <2>2. invites \in Seq(Residents!Invite)
    BY DEF PeopleInv, Registered
  <2>3. \A i \in DOMAIN invites : invites'[i] = invites[i]
    BY <2>1, <2>2
  <2>4. QED
    BY <2>3 DEF Residents!ConsumptionLinks
<1>5. ASSUME NEW i \in DOMAIN invites, Residents!DeleteCondominiumInvitation(i) \/ Residents!Expire(i)
      PROVE  Residents!ConsumptionLinks
  <2>1. PICK state \in {"removed", "expired"} : invites' = [invites EXCEPT ![i].state = state]
    BY <1>5 DEF Residents!DeleteCondominiumInvitation, Residents!Expire
  <2>2. \A j \in DOMAIN invites : invites'[j] = invites[j] \/ invites'[j].state = state
    <3>1. PICK inv : inv = [invites[i] EXCEPT !.state = state]
      OBVIOUS
    <3>2. inv.state = state
      BY <3>1, <1>1 DEF Residents!Invite
    <3>3. \A j \in DOMAIN invites : invites'[j] = IF j = i THEN inv ELSE invites[j]
      BY <3>1, <2>1
    <3>4. QED
      BY <3>2, <3>3
  <2>3. QED
    BY <2>1, <2>2 DEF Residents!ConsumptionLinks
<1>6. ASSUME NEW s \in Slots, Residents!Consume(s) PROVE Residents!ConsumptionLinks
  <2>1. PICK q \in Call : q = calls[s] /\ Holds(q) /\ Current(q)
    BY DEF PeopleInv, PeopleSerial
  <2>2. /\ q.todo # << >> /\ Head(q.todo) = "consume"
        /\ invites' = [invites EXCEPT ![q.invite].state = "consumed"]
        /\ UNCHANGED <<accounts, people, units, links, requests, crashed>>
    BY <2>1, <1>6 DEF Residents!Consume, Residents!Does
  <2>3. q.op = "accept" /\ q.todo = Consuming
    <3>1. q.op \in Ops /\ q.todo \in Todos(q.op)
      BY <2>1 DEF Call, Holds
    <3>2. QED
      BY <3>1, <2>2, StepOwners
  <2>4. Consuming \in AfterPerson /\ Consuming \in AfterUnit /\ Consuming \in AfterLink
    BY DEF AfterPerson, AfterUnit, AfterLink
  <2>5. \A j \in DOMAIN invites : j # q.invite => invites'[j] = invites[j]
    BY <2>2
  <2>6. /\ people[invites[q.invite].person].account # 0
        /\ invites[q.invite].owner => units[invites[q.invite].unit].owner = invites[q.invite].person
        /\ invites[q.invite].responsible => <<invites[q.invite].unit, invites[q.invite].person>> \in links
    BY <2>1, <2>3, <2>4 DEF Current, Accepts
  <2>7. QED
    BY <2>2, <2>5, <2>6 DEF Residents!ConsumptionLinks
<1>7. QED
  BY <1>2, <1>3, <1>4, <1>5, <1>6, WhoWrites DEF Residents!peopleVars

\* AccountKept: no invitation, assignment, profile or telephone moves a person that has an
\* account to another account.
THEOREM AccountKeptForGood ==
  ASSUME ResidentParameters, OneRequest PROVE Residents!Spec => Residents!AccountKept
<1>1. PeopleInv /\ PeopleSerial /\ [Residents!Next]_(Residents!peopleVars) => [Residents!AccountStays]_(Residents!peopleVars)
  BY AccountsStay
<1>2. QED
  BY <1>1, SerialInvariant, PTL DEF Residents!Spec, Residents!AccountKept

\* ConsumedIsLinked: the save that consumes an invitation finds the person with an account and
\* with the roles that the invitation gives in the unit, wherever earlier attempts to accept
\* it stopped.
THEOREM ConsumptionsLink ==
  ASSUME ResidentParameters, OneRequest PROVE Residents!Spec => Residents!ConsumedIsLinked
<1>1. PeopleInv /\ PeopleSerial /\ [Residents!Next]_(Residents!peopleVars) => [Residents!ConsumptionLinks]_(Residents!peopleVars)
  BY ConsumptionLinked
<1>2. QED
  BY <1>1, SerialInvariant, PTL DEF Residents!Spec, Residents!ConsumedIsLinked

================================================================================
