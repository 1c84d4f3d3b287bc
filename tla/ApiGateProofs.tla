--------------------------- MODULE ApiGateProofs ----------------------------
(***************************************************************************)
(* Proofs about ApiGate for any requests, tokens, clients, lifetimes and   *)
(* limits.                                                                 *)
(*                                                                         *)
(* That a window never holds more than Limit admitted requests is not      *)
(* inductive: the counter must be known to count them all, and its key to  *)
(* outlive the last one by a window.                                       *)
(***************************************************************************)
EXTENDS ApiGate, TLAPS

\* A request that is not idle has a token.
TokenInHand == \A r \in Requests : req[r].pc # "idle" => req[r].token # None

\* The key exists for one window after the last counted request, and without
\* a key the count is zero.
KeyLasts ==
    \A c \in Clients :
        /\ expire[c] > 0 => quiet[c] = Window - expire[c]
        /\ expire[c] = 0 => count[c] = 0

\* The counter counts the admitted requests of the window, all of which came
\* before the last one that was counted.
Counted(c, total) ==
    /\ RunningTotal(c, total)
    /\ \A k \in 0..Window : total[k] <= count[c]
    /\ \A k \in 0..Window : k <= Window - expire[c] => total[k] = 0

\* The inductive invariant: of the limiter, of the tokens and of both.
LimitInv ==
    /\ LimitTypeOK /\ KeyLasts
    /\ \A c \in Clients : \E total \in [0..Window -> 0..Limit] : Counted(c, total)

TokensInv == TokensTypeOK /\ TokenInHand

GateInv == TokensInv /\ LimitInv

-----------------------------------------------------------------------------
(* The rate limiter *)

\* Initially nobody has sent a request.
LEMMA InitLimit == LimitInit => LimitInv
<1>1. SUFFICES ASSUME LimitInit PROVE LimitInv
  OBVIOUS
<1>2. LimitTypeOK /\ KeyLasts
  BY <1>1, LimitAssumption DEF LimitInit, LimitTypeOK, KeyLasts, MaxCount, Age
<1>3. ASSUME NEW c \in Clients
      PROVE  \E total \in [0..Window -> 0..Limit] : Counted(c, total)
  <2> DEFINE zero == [k \in 0..Window |-> 0]
  <2>1. zero \in [0..Window -> 0..Limit]
    BY LimitAssumption
  <2>2. \A k \in Age : k \in 0..Window /\ k + 1 \in 0..Window
    BY LimitAssumption DEF Age
  <2>3. 0 \in 0..Window
    BY LimitAssumption
  <2>4. Counted(c, zero)
    BY <1>1, <2>2, <2>3 DEF LimitInit, Counted, RunningTotal
  <2>5. QED
    BY <2>1, <2>4
<1>4. QED
  BY <1>2, <1>3 DEF LimitInv

\* A step of one client leaves what is known of the others.
LEMMA OthersCounted ==
    ASSUME LimitInv, NEW c \in Clients, NEW d \in Clients, c # d,
           count'[d] = count[d], expire'[d] = expire[d], admitted'[d] = admitted[d]
    PROVE  \E total \in [0..Window -> 0..Limit] : Counted(d, total)'
<1>1. PICK total \in [0..Window -> 0..Limit] : Counted(d, total)
  BY DEF LimitInv
<1>2. Counted(d, total)'
  BY <1>1 DEF Counted, RunningTotal
<1>3. QED
  BY <1>2

\* What counting does to the counter of c and of the others.
LEMMA CountingTypes ==
    ASSUME LimitInv, NEW c \in Clients, IncrementWithReset(c)
    PROVE  /\ count' \in [Clients -> 0..MaxCount] /\ expire' \in [Clients -> 0..Window]
           /\ quiet' \in [Clients -> 0..Window]
           /\ count'[c] = NextCount(c) /\ expire'[c] = Window /\ quiet'[c] = 0
           /\ \A d \in Clients : d # c =>
                count'[d] = count[d] /\ expire'[d] = expire[d] /\ quiet'[d] = quiet[d]
           /\ KeyLasts'
<1>1. /\ count \in [Clients -> 0..MaxCount] /\ expire \in [Clients -> 0..Window]
      /\ quiet \in [Clients -> 0..Window]
  BY DEF LimitInv, LimitTypeOK
<1>2. NextCount(c) \in 0..MaxCount /\ 0 \in 0..Window /\ Window \in 0..Window
  BY <1>1, LimitAssumption DEF NextCount, MaxCount
<1>3. /\ count' \in [Clients -> 0..MaxCount] /\ expire' \in [Clients -> 0..Window]
      /\ quiet' \in [Clients -> 0..Window]
      /\ count'[c] = NextCount(c) /\ expire'[c] = Window /\ quiet'[c] = 0
      /\ \A d \in Clients : d # c =>
            count'[d] = count[d] /\ expire'[d] = expire[d] /\ quiet'[d] = quiet[d]
  BY <1>1, <1>2 DEF IncrementWithReset, Renewed
<1>4. KeyLasts'
  <2>1. ASSUME NEW d \in Clients
        PROVE  /\ expire'[d] > 0 => quiet'[d] = Window - expire'[d]
               /\ expire'[d] = 0 => count'[d] = 0
    <3>1. CASE d = c
      BY <1>3, <3>1, LimitAssumption
    <3>2. CASE d # c
      BY <1>3, <3>2 DEF LimitInv, KeyLasts
    <3>3. QED
      BY <3>1, <3>2
  <2>2. QED
    BY <2>1 DEF KeyLasts
<1>5. QED
  BY <1>3, <1>4

\* An admitted request adds one to the count and to every running total.
LEMMA StepAdmit ==
    ASSUME LimitInv, NEW c \in Clients, Admit(c)
    PROVE  LimitInv'
<1>1. /\ count' \in [Clients -> 0..MaxCount] /\ expire' \in [Clients -> 0..Window]
      /\ quiet' \in [Clients -> 0..Window]
      /\ count'[c] = NextCount(c) /\ expire'[c] = Window /\ quiet'[c] = 0
      /\ \A d \in Clients : d # c =>
            count'[d] = count[d] /\ expire'[d] = expire[d] /\ quiet'[d] = quiet[d]
      /\ KeyLasts'
  BY CountingTypes DEF Admit
<1>2. /\ admitted \in [Clients -> [Age -> Nat]] /\ 0 \in Age /\ count[c] \in 0..MaxCount
  <2>1. 0 \in Age
    BY LimitAssumption DEF Age
  <2>2. QED
    BY <2>1 DEF LimitInv, LimitTypeOK
<1>3. /\ admitted' \in [Clients -> [Age -> Nat]]
      /\ \A d \in Clients : d # c => admitted'[d] = admitted[d]
      /\ admitted'[c][0] = admitted[c][0] + 1
      /\ \A k \in Age : k # 0 => admitted'[c][k] = admitted[c][k]
  BY <1>2 DEF Admit
<1>4. NextCount(c) = count[c] + 1 /\ count[c] + 1 <= Limit
  BY <1>2, LimitAssumption DEF Admit, NextCount, MaxCount
<1>5. PICK total \in [0..Window -> 0..Limit] : Counted(c, total)
  BY DEF LimitInv
<1>6. PICK more : more = [k \in 0..Window |-> IF k = 0 THEN 0 ELSE total[k] + 1]
  OBVIOUS
<1>7. more \in [0..Window -> 0..Limit]
  <2>1. \A k \in 0..Window : total[k] + 1 <= Limit /\ total[k] \in Nat
    BY <1>2, <1>4, <1>5, LimitAssumption DEF Counted, MaxCount
  <2>2. QED
    BY <1>6, <2>1, LimitAssumption
<1>8. \A k \in Age : k \in 0..Window /\ k + 1 \in 0..Window /\ k + 1 # 0
  BY LimitAssumption DEF Age
<1>9. RunningTotal(c, more)'
  <2>1. ASSUME NEW k \in Age PROVE more[k + 1] = more[k] + admitted'[c][k]
    <3>1. /\ total[k + 1] = total[k] + admitted[c][k] /\ total[0] = 0 /\ admitted[c][k] \in Nat
          /\ total[k] \in Int
      BY <1>2, <1>5, <1>8 DEF Counted, RunningTotal
    <3>2. more[k + 1] = total[k + 1] + 1
      BY <1>6, <1>8
    <3>3. CASE k = 0
      BY <1>3, <1>6, <1>8, <3>1, <3>2, <3>3
    <3>4. CASE k # 0
      <4>1. more[k] = total[k] + 1 /\ admitted'[c][k] = admitted[c][k]
        BY <1>3, <1>6, <1>8, <3>4
      <4>2. QED
        BY <3>1, <3>2, <4>1
    <3>5. QED
      BY <3>3, <3>4
  <2>2. more[0] = 0
    BY <1>6, LimitAssumption
  <2>3. QED
    BY <2>1, <2>2 DEF RunningTotal
<1>10. Counted(c, more)'
  <2>1. \A k \in 0..Window : more[k] <= count'[c]
    BY <1>1, <1>2, <1>4, <1>5, <1>6, LimitAssumption DEF Counted
  <2>2. \A k \in 0..Window : k <= Window - expire'[c] => more[k] = 0
    BY <1>1, <1>6, LimitAssumption
  <2>3. QED
    BY <1>9, <2>1, <2>2 DEF Counted
<1>11. \A d \in Clients : \E t \in [0..Window -> 0..Limit] : Counted(d, t)'
  BY <1>1, <1>3, <1>7, <1>10, OthersCounted
<1>12. QED
  BY <1>1, <1>3, <1>11 DEF LimitInv, LimitTypeOK

\* A counted request that is not admitted leaves the running totals as they are.
LEMMA StepCountOnly ==
    ASSUME LimitInv, NEW c \in Clients, IncrementWithReset(c), UNCHANGED admitted
    PROVE  LimitInv'
<1>1. /\ count' \in [Clients -> 0..MaxCount] /\ expire' \in [Clients -> 0..Window]
      /\ quiet' \in [Clients -> 0..Window]
      /\ count'[c] = NextCount(c) /\ expire'[c] = Window /\ quiet'[c] = 0
      /\ \A d \in Clients : d # c =>
            count'[d] = count[d] /\ expire'[d] = expire[d] /\ quiet'[d] = quiet[d]
      /\ KeyLasts'
  BY CountingTypes
<1>2. admitted' \in [Clients -> [Age -> Nat]] /\ count[c] \in 0..MaxCount
  BY DEF LimitInv, LimitTypeOK
<1>3. count[c] <= count'[c]
  BY <1>1, <1>2, LimitAssumption DEF NextCount, MaxCount
<1>4. PICK total \in [0..Window -> 0..Limit] : Counted(c, total)
  BY DEF LimitInv
<1>5. Counted(c, total)'
  <2>1. \A k \in 0..Window : total[k] <= count'[c]
    <3>1. \A k \in 0..Window : total[k] \in Int /\ total[k] <= count[c]
      BY <1>4 DEF Counted
    <3>2. count[c] \in Int /\ count'[c] \in Int
      BY <1>1, <1>2, LimitAssumption DEF MaxCount
    <3>3. QED
      BY <1>3, <3>1, <3>2
  <2>2. \A k \in 0..Window : k <= Window - expire'[c] => total[k] = 0
    BY <1>1, <1>4, LimitAssumption DEF Counted, RunningTotal
  <2>3. RunningTotal(c, total)'
    BY <1>4 DEF Counted, RunningTotal
  <2>4. QED
    BY <2>1, <2>2, <2>3 DEF Counted
<1>6. \A d \in Clients : \E t \in [0..Window -> 0..Limit] : Counted(d, t)'
  BY <1>1, <1>4, <1>5, OthersCounted
<1>7. QED
  BY <1>1, <1>2, <1>6 DEF LimitInv, LimitTypeOK

\* Without a step of the limiter nothing changes.
LEMMA LimitUnchanged ==
    ASSUME LimitInv, UNCHANGED limitVars
    PROVE  LimitInv'
<1>1. LimitTypeOK' /\ KeyLasts'
  BY DEF LimitInv, LimitTypeOK, KeyLasts, limitVars
<1>2. ASSUME NEW c \in Clients
      PROVE  \E total \in [0..Window -> 0..Limit] : Counted(c, total)'
  <2>1. PICK total \in [0..Window -> 0..Limit] : Counted(c, total)
    BY DEF LimitInv
  <2>2. Counted(c, total)'
    BY <2>1 DEF Counted, RunningTotal, limitVars
  <2>3. QED
    BY <2>2
<1>3. QED
  BY <1>1, <1>2 DEF LimitInv

\* A tick moves the running totals by one place; when it drops the key, the
\* requests it counted are all a window old.
LEMMA StepLimitTick ==
    ASSUME LimitInv, LimitTick
    PROVE  LimitInv'
<1>1. /\ count \in [Clients -> 0..MaxCount] /\ expire \in [Clients -> 0..Window]
      /\ admitted \in [Clients -> [Age -> Nat]] /\ quiet \in [Clients -> 0..Window]
  BY DEF LimitInv, LimitTypeOK
<1>2. \A k \in Age : k # 0 => k - 1 \in Age
  BY LimitAssumption DEF Age
<1>3. LimitTypeOK'
  <2>1. count' \in [Clients -> 0..MaxCount]
    BY <1>1, LimitAssumption DEF LimitTick, MaxCount
  <2>2. expire' \in [Clients -> 0..Window] /\ quiet' \in [Clients -> 0..Window]
    BY <1>1, LimitAssumption DEF LimitTick
  <2>3. admitted' \in [Clients -> [Age -> Nat]]
    BY <1>1, <1>2 DEF LimitTick
  <2>4. QED
    BY <2>1, <2>2, <2>3 DEF LimitTypeOK
<1>4. KeyLasts'
  BY <1>1, LimitAssumption DEF LimitInv, KeyLasts, LimitTick, MaxCount
<1>5. ASSUME NEW c \in Clients
      PROVE  \E total \in [0..Window -> 0..Limit] : Counted(c, total)'
  <2>1. PICK total \in [0..Window -> 0..Limit] : Counted(c, total)
    BY DEF LimitInv
  <2>2. PICK older : older = [k \in 0..Window |-> IF k = 0 THEN 0 ELSE total[k - 1]]
    OBVIOUS
  <2>3. \A k \in 0..Window : k # 0 => k - 1 \in 0..Window
    BY LimitAssumption
  <2>4. older \in [0..Window -> 0..Limit]
    BY <2>2, <2>3, LimitAssumption
  <2>5. older[0] = 0
    BY <2>2, LimitAssumption
  <2>6. ASSUME NEW k \in Age PROVE older[k + 1] = older[k] + admitted'[c][k]
    <3>1. k \in 0..Window /\ k + 1 \in 0..Window /\ k + 1 # 0 /\ (k + 1) - 1 = k /\ (k - 1) + 1 = k
      BY LimitAssumption DEF Age
    <3>2. older[k + 1] = total[k]
      BY <2>2, <3>1
    <3>3. admitted'[c][k] = IF k = 0 THEN 0 ELSE admitted[c][k - 1]
      BY DEF LimitTick
    <3>4. CASE k = 0
      BY <2>1, <2>5, <3>2, <3>3, <3>4 DEF Counted, RunningTotal
    <3>5. CASE k # 0
      <4>1. older[k] = total[k - 1]
        BY <2>2, <3>1, <3>5
      <4>2. total[k] = total[k - 1] + admitted[c][k - 1]
        BY <1>2, <2>1, <3>1, <3>5 DEF Counted, RunningTotal
      <4>3. QED
        BY <3>2, <3>3, <3>5, <4>1, <4>2
    <3>6. QED
      BY <3>4, <3>5
  <2>7. RunningTotal(c, older)'
    BY <2>5, <2>6 DEF RunningTotal
  <2>8. /\ count'[c] = (IF expire[c] = 1 THEN 0 ELSE count[c])
        /\ expire'[c] = (IF expire[c] > 0 THEN expire[c] - 1 ELSE 0)
        /\ expire[c] \in 0..Window /\ count[c] \in 0..MaxCount
        /\ expire[c] = 0 => count[c] = 0
    BY <1>1 DEF LimitTick, LimitInv, KeyLasts
  <2>9. ASSUME NEW k \in 0..Window
        PROVE  older[k] <= count'[c] /\ (k <= Window - expire'[c] => older[k] = 0)
    <3>1. CASE k = 0
      BY <2>5, <2>8, <3>1, LimitAssumption DEF MaxCount
    <3>2. CASE k # 0
      <4>1. older[k] = total[k - 1] /\ k - 1 \in 0..Window
        BY <2>2, <2>3, <3>2
      <4>2. /\ total[k - 1] \in 0..Limit /\ total[k - 1] <= count[c]
            /\ k - 1 <= Window - expire[c] => total[k - 1] = 0
        BY <2>1, <4>1 DEF Counted
      <4>3. /\ Window \in Nat /\ Limit \in Nat /\ k \in Nat /\ k <= Window /\ k >= 1
            /\ expire[c] \in Nat /\ count[c] \in Nat /\ total[k - 1] \in Nat
        BY <2>8, <3>2, <4>2, LimitAssumption DEF MaxCount
      <4>4. CASE expire[c] = 0
        <5>1. count'[c] = 0 /\ total[k - 1] = 0
          BY <2>8, <4>2, <4>3, <4>4
        <5>2. QED
          BY <4>1, <5>1
      <4>5. CASE expire[c] = 1
        <5>1. count'[c] = 0 /\ total[k - 1] = 0
          BY <2>8, <4>2, <4>3, <4>5
        <5>2. QED
          BY <4>1, <5>1
      <4>6. CASE expire[c] > 1
        <5>1. count'[c] = count[c] /\ expire'[c] = expire[c] - 1
          BY <2>8, <4>3, <4>6
        <5>2. k <= Window - expire'[c] => k - 1 <= Window - expire[c]
          BY <4>3, <5>1
        <5>3. QED
          BY <4>1, <4>2, <5>1, <5>2
      <4>7. QED
        BY <4>3, <4>4, <4>5, <4>6
    <3>3. QED
      BY <3>1, <3>2
  <2>10. Counted(c, older)'
    BY <2>7, <2>9 DEF Counted
  <2>11. QED
    BY <2>4, <2>10
<1>6. QED
  BY <1>3, <1>4, <1>5 DEF LimitInv

\* The handler of the rate limiter.
LEMMA StepRateLimited ==
    ASSUME LimitInv, NEW r \in Requests, RateLimited(r)
    PROVE  LimitInv'
<1>1. RateKey(r) \in Clients
  BY GateAssumption DEF RateKey, LocalsUserID
<1>2. CASE Admit(RateKey(r))
  BY <1>1, <1>2, StepAdmit
<1>3. CASE Reject(RateKey(r))
  BY <1>1, <1>3, StepCountOnly DEF Reject
<1>4. CASE FailOpen(RateKey(r))
  BY <1>1, <1>4, StepCountOnly, LimitUnchanged DEF FailOpen, limitVars
<1>5. QED
  BY <1>2, <1>3, <1>4 DEF RateLimited

-----------------------------------------------------------------------------
(* The tokens *)

\* Initially every request is idle.
LEMMA InitTokens == TokensInit => TokensInv
<1>1. SUFFICES ASSUME TokensInit PROVE TokensInv
  OBVIOUS
<1>2. Idle \in Request
  BY TokensAssumption DEF Idle, Request
<1>3. TokensTypeOK
  <2>1. life \in [Tokens -> -1..Forever]
    <3>1. Lives \subseteq -1..Forever
      BY TokensAssumption
    <3>2. QED
      BY <1>1, <3>1 DEF TokensInit
  <2>2. cache \in [Tokens -> 0..CacheTTL]
    BY <1>1, TokensAssumption DEF TokensInit
  <2>3. revoked \in [Tokens -> BOOLEAN] /\ active \in BOOLEAN
    BY <1>1 DEF TokensInit
  <2>4. QED
    BY <1>1, <1>2, <2>1, <2>2, <2>3 DEF TokensInit, TokensTypeOK
<1>4. TokenInHand
  BY <1>1 DEF TokensInit, TokenInHand, Idle
<1>5. QED
  BY <1>3, <1>4 DEF TokensInv

\* Replacing the locals of one request.
LEMMA BecomeTypes ==
    ASSUME TokensInv, NEW r \in Requests, NEW q \in Request,
           q.pc # "idle" => q.token # None,
           req' = [req EXCEPT ![r] = q]
    PROVE  req' \in [Requests -> Request] /\ TokenInHand'
<1>1. req \in [Requests -> Request]
  BY DEF TokensInv, TokensTypeOK
<1>2. req' \in [Requests -> Request] /\ req'[r] = q /\ \A o \in Requests : o # r => req'[o] = req[o]
  BY <1>1
<1>3. TokenInHand'
  BY <1>2 DEF TokensInv, TokenInHand
<1>4. QED
  BY <1>2, <1>3

\* The locals a step may leave behind.
LEMMA LocalTypes ==
    ASSUME TokensInv, NEW r \in Requests
    PROVE  /\ Idle \in Request /\ Idle.pc = "idle"
           /\ req[r] \in Request /\ req \in [Requests -> Request]
           /\ req[r].pc # "idle" => req[r].token \in Tokens
<1>1. Idle \in Request /\ Idle.pc = "idle"
  BY TokensAssumption DEF Idle, Request
<1>2. req[r] \in Request /\ req \in [Requests -> Request]
  BY DEF TokensInv, TokensTypeOK
<1>3. req[r].token \in Tokens \cup {None}
  BY <1>2 DEF Request
<1>4. QED
  BY <1>1, <1>2, <1>3 DEF TokensInv, TokenInHand

\* Answering a request keeps the types.
LEMMA RefuseTypes ==
    ASSUME TokensInv, NEW r \in Requests, Refuse(r)
    PROVE  req' \in [Requests -> Request] /\ TokenInHand'
BY LocalTypes, BecomeTypes DEF Refuse, Become

\* Moving a request that has a token to another point of its program.
LEMMA GotoTypes ==
    ASSUME TokensInv, NEW r \in Requests, req[r].pc # "idle",
           NEW pc \in {"evict", "select", "authorized"}, Goto(r, pc)
    PROVE  req' \in [Requests -> Request] /\ TokenInHand'
<1>1. req[r] \in Request /\ req[r].token \in Tokens /\ req \in [Requests -> Request]
  BY LocalTypes
<1>2. PICK q : q = [req[r] EXCEPT !.pc = pc]
  OBVIOUS
<1>3. q \in Request
  BY <1>1, <1>2 DEF Request
<1>4. q.token = req[r].token
  BY <1>1, <1>2 DEF Request
<1>5. req' = [req EXCEPT ![r] = q]
  BY <1>1, <1>2 DEF Goto
<1>6. q.token # None
  BY <1>1, <1>4, TokensAssumption
<1>7. QED
  BY <1>3, <1>5, <1>6, BecomeTypes

\* A request arrives.
LEMMA StepArrive ==
    ASSUME TokensInv, NEW r \in Requests, Authenticate(r)
    PROVE  TokensInv'
<1>1. PICK t \in Tokens : Become(r, [Idle EXCEPT !.pc = "get", !.token = t])
  BY DEF Authenticate
<1>2. PICK q : q = [Idle EXCEPT !.pc = "get", !.token = t]
  OBVIOUS
<1>3. q \in Request
  <2>1. Idle \in Request
    BY LocalTypes
  <2>2. QED
    BY <1>2, <2>1 DEF Request
<1>4. q.token # None
  BY <1>2, TokensAssumption DEF Idle
<1>5. req' \in [Requests -> Request] /\ TokenInHand'
  BY <1>1, <1>2, <1>3, <1>4, BecomeTypes DEF Become
<1>6. QED
  BY <1>5 DEF TokensInv, TokensTypeOK, Authenticate

\* Cache.Get.
LEMMA StepCacheGet ==
    ASSUME TokensInv, NEW r \in Requests, CacheGet(r)
    PROVE  TokensInv'
<1>1. req[r].pc = "get" /\ req[r].pc # "idle" /\ req[r].token \in Tokens
  BY LocalTypes DEF CacheGet
<1>2. cache \in [Tokens -> 0..CacheTTL]
  BY DEF TokensInv, TokensTypeOK
<1>3. cache' \in [Tokens -> 0..CacheTTL]
  BY <1>1, <1>2 DEF CacheGet, HitTTL
<1>4. \/ Goto(r, "evict") \/ Goto(r, "authorized") \/ Goto(r, "select") \/ Refuse(r)
  BY DEF CacheGet
<1>5. req' \in [Requests -> Request] /\ TokenInHand'
  BY <1>1, <1>4, GotoTypes, RefuseTypes
<1>6. QED
  BY <1>3, <1>5 DEF TokensInv, TokensTypeOK, CacheGet

\* Cache.Delete.
LEMMA StepEvict ==
    ASSUME TokensInv, NEW r \in Requests, Evict(r)
    PROVE  TokensInv'
<1>1. cache \in [Tokens -> 0..CacheTTL] /\ 0 \in 0..CacheTTL
  BY TokensAssumption DEF TokensInv, TokensTypeOK
<1>2. cache' \in [Tokens -> 0..CacheTTL]
  BY <1>1 DEF Evict
<1>3. req' \in [Requests -> Request] /\ TokenInHand'
  BY RefuseTypes DEF Evict
<1>4. QED
  BY <1>2, <1>3 DEF TokensInv, TokensTypeOK, Evict

\* What the row says of a token is a truth value.
LEMMA LiveRowType ==
    ASSUME TokensInv, NEW t \in Tokens
    PROVE  LiveRow(t) \in BOOLEAN
BY DEF LiveRow

\* The SELECT.
LEMMA StepLookupSelect ==
    ASSUME TokensInv, NEW r \in Requests, LookupSelect(r)
    PROVE  TokensInv'
<1>1. req[r] \in Request /\ req[r].token \in Tokens /\ req \in [Requests -> Request]
  BY LocalTypes DEF LookupSelect
<1>2. req' \in [Requests -> Request] /\ TokenInHand'
  <2>1. CASE req' = [req EXCEPT ![r].pc = "check", ![r].live = LiveRow(req[r].token)]
    <3>1. PICK row : row = LiveRow(req[r].token)
      OBVIOUS
    <3>2. row \in BOOLEAN
      BY <1>1, <3>1, LiveRowType
    <3>3. PICK q : q = [req[r] EXCEPT !.pc = "check", !.live = row]
      OBVIOUS
    <3>4. q \in Request /\ q.token = req[r].token
      BY <1>1, <3>2, <3>3 DEF Request
    <3>5. req' = [req EXCEPT ![r] = q]
      BY <1>1, <2>1, <3>1, <3>3
    <3>6. q.token # None
      BY <1>1, <3>4, TokensAssumption
    <3>7. QED
      BY <3>4, <3>5, <3>6, BecomeTypes
  <2>2. CASE Refuse(r)
    BY <2>2, RefuseTypes
  <2>3. QED
    BY <2>1, <2>2 DEF LookupSelect
<1>3. QED
  BY <1>2 DEF TokensInv, TokensTypeOK, LookupSelect

\* The checks on the row.
LEMMA StepLookupCheck ==
    ASSUME TokensInv, NEW r \in Requests, LookupCheck(r)
    PROVE  TokensInv'
<1>1. /\ req[r] \in Request /\ req[r].token \in Tokens /\ req \in [Requests -> Request]
      /\ req[r].pc # "idle"
  BY LocalTypes DEF LookupCheck
<1>2. req' \in [Requests -> Request] /\ TokenInHand'
  <2>1. CASE /\ EntryTTL(req[r].token) > 0
             /\ req' = [req EXCEPT ![r].pc = "set", ![r].ttl = EntryTTL(req[r].token)]
    <3>1. PICK ttl : ttl = EntryTTL(req[r].token)
      OBVIOUS
    <3>2. life[req[r].token] \in -1..Forever
      BY <1>1 DEF TokensInv, TokensTypeOK
    <3>3. ttl \in 0..CacheTTL
      BY <2>1, <3>1, <3>2, TokensAssumption DEF EntryTTL
    <3>4. PICK q : q = [req[r] EXCEPT !.pc = "set", !.ttl = ttl]
      OBVIOUS
    <3>5. q \in Request /\ q.token = req[r].token
      BY <1>1, <3>3, <3>4 DEF Request
    <3>6. req' = [req EXCEPT ![r] = q]
      BY <1>1, <2>1, <3>1, <3>4
    <3>7. q.token # None
      BY <1>1, <3>5, TokensAssumption
    <3>8. QED
      BY <3>5, <3>6, <3>7, BecomeTypes
  <2>2. CASE Goto(r, "authorized")
    BY <1>1, <2>2, GotoTypes
  <2>3. CASE Refuse(r)
    BY <2>3, RefuseTypes
  <2>4. QED
    BY <2>1, <2>2, <2>3 DEF LookupCheck
<1>3. QED
  BY <1>2 DEF TokensInv, TokensTypeOK, LookupCheck

\* Cache.Set.
LEMMA StepCacheSet ==
    ASSUME TokensInv, NEW r \in Requests, CacheSet(r)
    PROVE  TokensInv'
<1>1. req[r] \in Request /\ req[r].pc # "idle" /\ req[r].token \in Tokens
  BY LocalTypes DEF CacheSet
<1>2. req[r].ttl \in 0..CacheTTL /\ cache \in [Tokens -> 0..CacheTTL]
  BY <1>1 DEF Request, TokensInv, TokensTypeOK
<1>3. cache' \in [Tokens -> 0..CacheTTL]
  BY <1>2 DEF CacheSet
<1>4. req' \in [Requests -> Request] /\ TokenInHand'
  BY <1>1, GotoTypes DEF CacheSet
<1>5. QED
  BY <1>3, <1>4 DEF TokensInv, TokensTypeOK, CacheSet

\* The steps that no request takes.
LEMMA StepAdminister ==
    ASSUME TokensInv, Administer
    PROVE  TokensInv'
<1>1. /\ revoked \in [Tokens -> BOOLEAN] /\ active \in BOOLEAN
      /\ cache \in [Tokens -> 0..CacheTTL] /\ 0 \in 0..CacheTTL
  BY TokensAssumption DEF TokensInv, TokensTypeOK
<1>2. CASE SetAccount
  BY <1>1, <1>2 DEF SetAccount, TokensInv, TokensTypeOK, TokenInHand
<1>3. ASSUME NEW t \in Tokens, Revoke(t) PROVE TokensInv'
  BY <1>1, <1>3 DEF Revoke, TokensInv, TokensTypeOK, TokenInHand
<1>4. ASSUME NEW t \in Tokens, Invalidate(t) PROVE TokensInv'
  BY <1>1, <1>4 DEF Invalidate, TokensInv, TokensTypeOK, TokenInHand
<1>5. QED
  BY <1>2, <1>3, <1>4 DEF Administer

\* A tick leaves an expired token expired, and brings a valid one nearer its end.
LEMMA LifeAfterTick ==
    ASSUME TokensInv, TokensTick, NEW t \in Tokens
    PROVE  life'[t] \in -1..Forever /\ (life[t] < 0 => life'[t] < 0)
<1>1. life[t] \in -1..Forever
  BY DEF TokensInv, TokensTypeOK
<1>2. CASE life[t] = Forever
  <2>1. life'[t] = Forever
    BY <1>2, TokensAssumption DEF TokensTick
  <2>2. QED
    BY <1>2, <2>1, TokensAssumption
<1>3. CASE life[t] < Forever /\ life[t] >= 0
  <2>1. life'[t] = life[t] - 1
    BY <1>1, <1>3, TokensAssumption DEF TokensTick
  <2>2. QED
    BY <1>1, <1>3, <2>1, TokensAssumption
<1>4. CASE life[t] = -1
  <2>1. life'[t] = -1
    BY <1>4, TokensAssumption DEF TokensTick
  <2>2. QED
    BY <2>1, TokensAssumption
<1>5. QED
  BY <1>1, <1>2, <1>3, <1>4, TokensAssumption

\* The clock.
LEMMA StepTokensTick ==
    ASSUME TokensInv, TokensTick
    PROVE  TokensInv'
<1>1. life' \in [Tokens -> -1..Forever]
  <2>1. PICK f : life' = [t \in Tokens |-> f[t]]
    BY DEF TokensTick
  <2>2. QED
    BY <2>1, LifeAfterTick
<1>2. cache' \in [Tokens -> 0..CacheTTL]
  BY TokensAssumption DEF TokensTick, Decrement, TokensInv, TokensTypeOK
<1>3. QED
  BY <1>1, <1>2 DEF TokensTick, TokensInv, TokensTypeOK, TokenInHand

\* Every step of the gate preserves the invariant of the tokens.
LEMMA TokensStep == TokensInv /\ [GateNext]_gateVars => TokensInv'
<1>1. SUFFICES ASSUME TokensInv, [GateNext]_gateVars PROVE TokensInv'
  OBVIOUS
<1>2. ASSUME NEW r \in Requests, Arrive(r) PROVE TokensInv'
  BY <1>1, <1>2, StepArrive DEF Arrive
<1>3. ASSUME NEW r \in Requests, RequireAuth(r) PROVE TokensInv'
  BY <1>1, <1>3, StepCacheGet, StepEvict, StepLookupSelect, StepLookupCheck, StepCacheSet
     DEF RequireAuth, TokenStep
<1>4. ASSUME NEW r \in Requests, RateLimited(r) PROVE TokensInv'
  <2>1. req' \in [Requests -> Request] /\ TokenInHand'
    BY <1>1, <1>4, RefuseTypes DEF RateLimited, Refuse
  <2>2. QED
    BY <1>1, <1>4, <2>1 DEF RateLimited, TokensInv, TokensTypeOK
<1>5. CASE Administer
  BY <1>1, <1>5, StepAdminister
<1>6. CASE Tick
  BY <1>1, <1>6, StepTokensTick DEF Tick
<1>7. CASE UNCHANGED gateVars
  BY <1>1, <1>7 DEF gateVars, tokenVars, TokensInv, TokensTypeOK, TokenInHand
<1>8. QED
  BY <1>1, <1>2, <1>3, <1>4, <1>5, <1>6, <1>7 DEF GateNext

\* Every step of the gate preserves the invariant of the rate limiter.
LEMMA LimitStep == LimitInv /\ [GateNext]_gateVars => LimitInv'
<1>1. SUFFICES ASSUME LimitInv, [GateNext]_gateVars PROVE LimitInv'
  OBVIOUS
<1>2. ASSUME NEW r \in Requests, Arrive(r) \/ RequireAuth(r) PROVE LimitInv'
  BY <1>1, <1>2, LimitUnchanged DEF Arrive, RequireAuth
<1>3. ASSUME NEW r \in Requests, RateLimited(r) PROVE LimitInv'
  BY <1>1, <1>3, StepRateLimited
<1>4. CASE Administer
  BY <1>1, <1>4, LimitUnchanged DEF Administer
<1>5. CASE Tick
  BY <1>1, <1>5, StepLimitTick DEF Tick
<1>6. CASE UNCHANGED gateVars
  BY <1>1, <1>6, LimitUnchanged DEF gateVars
<1>7. QED
  BY <1>1, <1>2, <1>3, <1>4, <1>5, <1>6 DEF GateNext

-----------------------------------------------------------------------------
(* A token that has ended stays ended *)

\* A step of request r that leaves t out of the cache, does not authorize r with
\* t, and leaves r without anything of t to write or use, keeps t ended.
LEMMA EndedByRequest ==
    ASSUME TokensInv, NEW t \in Tokens, Ended(t), NEW r \in Requests,
           revoked' = revoked, life' = life, cache'[t] = 0,
           \A o \in Requests : o # r => req'[o] = req[o],
           ~Carries(r, t)', ~Authorizes(r, t)
    PROVE  Ended(t)' /\ \A o \in Requests : ~Authorizes(o, t)
<1>1. Over(t)'
  BY DEF Ended, Over, IsExpired
<1>2. \A o \in Requests : o # r => ~Carries(o, t)' /\ ~Authorizes(o, t)
  BY DEF Ended, Carries, Authorizes, IsExpired
<1>3. QED
  BY <1>1, <1>2 DEF Ended

\* What a step that only moves r, or answers it, does to the requests.
LEMMA RequestMoved ==
    ASSUME TokensInv, NEW r \in Requests
    PROVE  /\ \A pc \in {"evict", "select", "authorized"} : Goto(r, pc) =>
                /\ req'[r].pc = pc /\ req'[r].token = req[r].token
                /\ \A o \in Requests : o # r => req'[o] = req[o]
           /\ Refuse(r) =>
                /\ req'[r].pc = "idle"
                /\ \A o \in Requests : o # r => req'[o] = req[o]
<1>1. req[r] \in Request /\ req \in [Requests -> Request]
  BY LocalTypes
<1>2. ASSUME NEW pc \in {"evict", "select", "authorized"}, Goto(r, pc)
      PROVE  /\ req'[r].pc = pc /\ req'[r].token = req[r].token
             /\ \A o \in Requests : o # r => req'[o] = req[o]
  BY <1>1, <1>2 DEF Goto, Request
<1>3. ASSUME Refuse(r)
      PROVE  /\ req'[r].pc = "idle"
             /\ \A o \in Requests : o # r => req'[o] = req[o]
  BY <1>1, <1>3 DEF Refuse, Become, Idle
<1>4. QED
  BY <1>2, <1>3

\* A request that is answered has nothing to write and is not authorized.
LEMMA EndedByRefusal ==
    ASSUME TokensInv, NEW t \in Tokens, Ended(t), NEW r \in Requests,
           revoked' = revoked, life' = life, cache'[t] = 0, Refuse(r)
    PROVE  Ended(t)' /\ \A o \in Requests : ~Authorizes(o, t)
<1>1. req'[r].pc = "idle" /\ \A o \in Requests : o # r => req'[o] = req[o]
  BY RequestMoved
<1>2. ~Carries(r, t)' /\ ~Authorizes(r, t)
  BY <1>1 DEF Carries, Authorizes
<1>3. QED
  BY <1>1, <1>2, EndedByRequest

\* A request that moves to a point where it holds nothing of t.
LEMMA EndedByGoto ==
    ASSUME TokensInv, NEW t \in Tokens, Ended(t), NEW r \in Requests,
           revoked' = revoked, life' = life, cache'[t] = 0,
           NEW pc \in {"evict", "select", "authorized"}, Goto(r, pc),
           pc = "authorized" => req[r].token # t
    PROVE  Ended(t)' /\ \A o \in Requests : ~Authorizes(o, t)
<1>1. /\ req'[r].pc = pc /\ req'[r].token = req[r].token
      /\ \A o \in Requests : o # r => req'[o] = req[o]
  BY RequestMoved
<1>2. ~Carries(r, t)' /\ ~Authorizes(r, t)
  BY <1>1 DEF Carries, Authorizes
<1>3. QED
  BY <1>1, <1>2, EndedByRequest

\* A request arrives.
LEMMA EndedByArrival ==
    ASSUME TokensInv, NEW t \in Tokens, Ended(t), NEW r \in Requests, Authenticate(r)
    PROVE  Ended(t)' /\ \A o \in Requests : ~Authorizes(o, t)
<1>1. req \in [Requests -> Request]
  BY LocalTypes
<1>2. req'[r].pc = "get" /\ \A o \in Requests : o # r => req'[o] = req[o]
  BY <1>1 DEF Authenticate, Become, Idle
<1>3. ~Carries(r, t)' /\ ~Authorizes(r, t)
  BY <1>2 DEF Carries, Authorizes
<1>4. cache'[t] = 0 /\ revoked' = revoked /\ life' = life
  BY DEF Authenticate, Ended
<1>5. QED
  BY <1>2, <1>3, <1>4, EndedByRequest

\* The cache holds no entry of t, so a hit is one of another token.
LEMMA EndedByCacheGet ==
    ASSUME TokensInv, NEW t \in Tokens, Ended(t), NEW r \in Requests, CacheGet(r)
    PROVE  Ended(t)' /\ \A o \in Requests : ~Authorizes(o, t)
<1>1. cache[t] = 0 /\ revoked' = revoked /\ life' = life
  BY DEF CacheGet, Ended
<1>2. cache \in [Tokens -> 0..CacheTTL] /\ req[r].token \in Tokens
  BY LocalTypes DEF CacheGet, TokensInv, TokensTypeOK
<1>3. cache'[t] = 0
  BY <1>1, <1>2 DEF CacheGet, HitTTL
<1>4. CASE /\ cache[req[r].token] > 0
           /\ Goto(r, IF IsExpired(req[r].token) THEN "evict" ELSE "authorized")
  <2>1. req[r].token # t
    BY <1>1, <1>4
  <2>2. Goto(r, "evict") \/ Goto(r, "authorized")
    BY <1>4
  <2>3. QED
    BY <1>1, <1>3, <2>1, <2>2, EndedByGoto
<1>5. CASE Goto(r, "select")
  BY <1>1, <1>3, <1>5, EndedByGoto
<1>6. CASE Refuse(r)
  BY <1>1, <1>3, <1>6, EndedByRefusal
<1>7. QED
  BY <1>4, <1>5, <1>6 DEF CacheGet

\* Evicting only empties the cache.
LEMMA EndedByEvict ==
    ASSUME TokensInv, NEW t \in Tokens, Ended(t), NEW r \in Requests, Evict(r)
    PROVE  Ended(t)' /\ \A o \in Requests : ~Authorizes(o, t)
<1>1. cache[t] = 0 /\ cache \in [Tokens -> 0..CacheTTL]
  BY DEF Ended, TokensInv, TokensTypeOK
<1>2. cache'[t] = 0 /\ revoked' = revoked /\ life' = life /\ Refuse(r)
  BY <1>1 DEF Evict
<1>3. QED
  BY <1>2, EndedByRefusal

\* A row that is read after t is over says so: it is revoked, or the check that
\* follows finds it expired.
LEMMA EndedByLookupSelect ==
    ASSUME TokensInv, NEW t \in Tokens, Ended(t), NEW r \in Requests, LookupSelect(r)
    PROVE  Ended(t)' /\ \A o \in Requests : ~Authorizes(o, t)
<1>1. req[r] \in Request /\ req \in [Requests -> Request]
  BY LocalTypes
<1>2. cache'[t] = 0 /\ revoked' = revoked /\ life' = life
  BY DEF LookupSelect, Ended
<1>3. CASE Refuse(r)
  BY <1>2, <1>3, EndedByRefusal
<1>4. CASE req' = [req EXCEPT ![r].pc = "check", ![r].live = LiveRow(req[r].token)]
  <2>1. PICK row : row = LiveRow(req[r].token)
    OBVIOUS
  <2>2. /\ req'[r].pc = "check" /\ req'[r].token = req[r].token /\ req'[r].live = row
        /\ \A o \in Requests : o # r => req'[o] = req[o]
    BY <1>1, <1>4, <2>1 DEF Request
  <2>3. ASSUME req[r].token = t, ~IsExpired(t) PROVE ~row
    BY <2>1, <2>3 DEF Ended, Over, LiveRow
  <2>4. IsExpired(t)' <=> IsExpired(t)
    BY <1>2 DEF IsExpired
  <2>5. ~Carries(r, t)'
    BY <2>2, <2>3, <2>4 DEF Carries
  <2>6. ~Authorizes(r, t)
    BY <2>2 DEF Authorizes
  <2>7. QED
    BY <1>2, <2>2, <2>5, <2>6, EndedByRequest
<1>5. QED
  BY <1>3, <1>4 DEF LookupSelect

\* A request that passes the check with t would have carried it.
LEMMA EndedByLookupCheck ==
    ASSUME TokensInv, NEW t \in Tokens, Ended(t), NEW r \in Requests, LookupCheck(r)
    PROVE  Ended(t)' /\ \A o \in Requests : ~Authorizes(o, t)
<1>1. req[r] \in Request /\ req \in [Requests -> Request]
  BY LocalTypes
<1>2. cache'[t] = 0 /\ revoked' = revoked /\ life' = life /\ req[r].pc = "check"
  BY DEF LookupCheck, Ended
<1>3. CASE Refuse(r)
  BY <1>2, <1>3, EndedByRefusal
<1>4. CASE req[r].live /\ ~IsExpired(req[r].token)
  <2>1. req[r].token # t
    BY <1>2, <1>4 DEF Ended, Carries
  <2>2. CASE Goto(r, "authorized")
    BY <1>2, <2>1, <2>2, EndedByGoto
  <2>3. CASE req' = [req EXCEPT ![r].pc = "set", ![r].ttl = EntryTTL(req[r].token)]
    <3>1. /\ req'[r].pc = "set" /\ req'[r].token = req[r].token
          /\ \A o \in Requests : o # r => req'[o] = req[o]
      BY <1>1, <2>3 DEF Request
    <3>2. ~Carries(r, t)' /\ ~Authorizes(r, t)
      BY <2>1, <3>1 DEF Carries, Authorizes
    <3>3. QED
      BY <1>2, <3>1, <3>2, EndedByRequest
  <2>4. QED
    BY <1>3, <1>4, <2>2, <2>3 DEF LookupCheck
<1>5. QED
  BY <1>3, <1>4 DEF LookupCheck

\* A late Cache.Set is one of a token that somebody carried.
LEMMA EndedByCacheSet ==
    ASSUME TokensInv, NEW t \in Tokens, Ended(t), NEW r \in Requests, CacheSet(r)
    PROVE  Ended(t)' /\ \A o \in Requests : ~Authorizes(o, t)
<1>1. req[r].token # t
  BY DEF CacheSet, Ended, Carries
<1>2. cache[t] = 0 /\ cache \in [Tokens -> 0..CacheTTL]
  BY DEF Ended, TokensInv, TokensTypeOK
<1>3. cache'[t] = 0 /\ revoked' = revoked /\ life' = life /\ Goto(r, "authorized")
  BY <1>1, <1>2 DEF CacheSet
<1>4. QED
  BY <1>1, <1>3, EndedByGoto

\* A token that is over stays over, and what a request holds does not become
\* valid, when an administrator acts or time passes.
LEMMA EndedByOthers ==
    ASSUME TokensInv, NEW t \in Tokens, Ended(t), Administer \/ Tick
    PROVE  Ended(t)' /\ \A o \in Requests : ~Authorizes(o, t)
<1>1. req' = req
  BY DEF Administer, SetAccount, Revoke, Invalidate, Tick, TokensTick
<1>2. cache'[t] = 0
  <2>1. cache[t] = 0 /\ cache \in [Tokens -> 0..CacheTTL]
    BY DEF Ended, TokensInv, TokensTypeOK
  <2>2. CASE Administer
    BY <2>1, <2>2 DEF Administer, SetAccount, Revoke, Invalidate
  <2>3. CASE Tick
    BY <2>1, <2>3 DEF Tick, TokensTick, Decrement
  <2>4. QED
    BY <2>2, <2>3
<1>3. life[t] < 0 => life'[t] < 0
  <2>1. CASE Administer
    BY <2>1 DEF Administer, SetAccount, Revoke, Invalidate
  <2>2. CASE Tick
    BY <2>2, LifeAfterTick DEF Tick
  <2>3. QED
    BY <2>1, <2>2
<1>4. revoked[t] => revoked'[t]
  <2>1. revoked \in [Tokens -> BOOLEAN]
    BY DEF TokensInv, TokensTypeOK
  <2>2. QED
    BY <2>1 DEF Administer, SetAccount, Revoke, Invalidate, Tick, TokensTick
<1>5. Over(t)'
  BY <1>3, <1>4 DEF Ended, Over, IsExpired
<1>6. \A o \in Requests : ~Carries(o, t)' /\ ~Authorizes(o, t)
  BY <1>1, <1>3 DEF Ended, Carries, Authorizes, IsExpired
<1>7. QED
  BY <1>2, <1>5, <1>6 DEF Ended

\* No step of the gate revives a token that has ended.
LEMMA EndedStep ==
    ASSUME TokensInv, NEW t \in Tokens, Ended(t), [GateNext]_gateVars
    PROVE  Ended(t)' /\ \A o \in Requests : ~Authorizes(o, t)
<1>1. ASSUME NEW r \in Requests, Arrive(r)
      PROVE  Ended(t)' /\ \A o \in Requests : ~Authorizes(o, t)
  BY <1>1, EndedByArrival DEF Arrive
<1>2. ASSUME NEW r \in Requests, RequireAuth(r)
      PROVE  Ended(t)' /\ \A o \in Requests : ~Authorizes(o, t)
  BY <1>2, EndedByCacheGet, EndedByEvict, EndedByLookupSelect, EndedByLookupCheck,
     EndedByCacheSet DEF RequireAuth, TokenStep
<1>3. ASSUME NEW r \in Requests, RateLimited(r)
      PROVE  Ended(t)' /\ \A o \in Requests : ~Authorizes(o, t)
  <2>1. cache'[t] = 0 /\ revoked' = revoked /\ life' = life /\ Refuse(r)
    BY <1>3 DEF RateLimited, Refuse, Ended
  <2>2. QED
    BY <2>1, EndedByRefusal
<1>4. CASE Administer \/ Tick
  BY <1>4, EndedByOthers
<1>5. CASE UNCHANGED gateVars
  BY <1>5 DEF gateVars, tokenVars, Ended, Over, Carries, Authorizes, IsExpired
<1>6. QED
  BY <1>1, <1>2, <1>3, <1>4, <1>5 DEF GateNext

-----------------------------------------------------------------------------
(* Theorems *)

\* The inductive invariant of the gate: the types, a token in every request that
\* is under way, and a counter that outlives what it has counted.
THEOREM GateInvHolds == GateSpec => []GateInv
<1>1. GateInit => GateInv
  BY InitTokens, InitLimit DEF GateInit, GateInv
<1>2. GateInv /\ [GateNext]_gateVars => GateInv'
  BY TokensStep, LimitStep DEF GateInv
<1>3. QED
  BY <1>1, <1>2, PTL DEF GateSpec

\* Type correctness of the token validation: every TTL lies within
\* apiTokenCacheTTL, every lifetime within that of the row.
THEOREM TokensTypeCorrect == GateSpec => []TokensTypeOK
<1>1. GateInv => TokensTypeOK
  BY DEF GateInv, TokensInv
<1>2. QED
  BY <1>1, GateInvHolds, PTL

\* Type correctness of the rate limiter: no key outlives a window.
THEOREM LimitTypeCorrect == GateSpec => []LimitTypeOK
<1>1. GateInv => LimitTypeOK
  BY DEF GateInv, LimitInv
<1>2. QED
  BY <1>1, GateInvHolds, PTL

\* The rate limit is one of a sliding window: no period of length Window holds
\* more than Limit requests of a client that the counter admitted, whatever
\* Limit and Window are and however the requests are spread.
THEOREM WindowIsSliding == GateSpec => []SlidingWindow
<1>1. GateInv => SlidingWindow
  BY DEF GateInv, LimitInv, SlidingWindow, Counted
<1>2. QED
  BY <1>1, GateInvHolds, PTL

\* A client that has been quiet for a window finds an empty counter: rejected
\* requests do not shut it out for longer.
THEOREM QuietClientsAreAdmitted == GateSpec => []QuietClientAdmitted
<1>1. ASSUME GateInv PROVE QuietClientAdmitted
  <2>1. ASSUME NEW c \in Clients, quiet[c] >= Window PROVE count[c] = 0
    <3>1. expire[c] \in 0..Window /\ quiet[c] \in 0..Window
      BY <1>1 DEF GateInv, LimitInv, LimitTypeOK
    <3>2. /\ expire[c] > 0 => quiet[c] = Window - expire[c]
          /\ expire[c] = 0 => count[c] = 0
      BY <1>1 DEF GateInv, LimitInv, KeyLasts
    <3>3. QED
      BY <2>1, <3>1, <3>2, LimitAssumption
  <2>2. QED
    BY <2>1 DEF QuietClientAdmitted
<1>2. QED
  BY <1>1, GateInvHolds, PTL

\* Once a token is over, out of the cache and in no request's hands, no order of
\* lookups, late Cache.Set calls and invalidations authorizes a request with it
\* or caches it again.
THEOREM RefusalIsFinal == GateSpec => RefusalFinal
<1>1. GateInv /\ [GateNext]_gateVars =>
        [\A t \in Tokens : Ended(t) =>
            Ended(t)' /\ \A r \in Requests : ~Authorizes(r, t)]_tokenVars
  BY EndedStep DEF GateInv
<1>2. QED
  BY <1>1, GateInvHolds, PTL DEF GateSpec, RefusalFinal
=============================================================================
