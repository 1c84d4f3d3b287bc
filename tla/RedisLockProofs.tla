-------------------------- MODULE RedisLockProofs ---------------------------
(***************************************************************************)
(* Proofs about RedisLock for any sets of clients and tokens and any TTLs, *)
(* whether or not Redis loses keys.                                        *)
(*                                                                         *)
(* MutualExclusion is not inductive: that nobody else deletes the key      *)
(* during a grant rests on tokens being distinct, and that the key lasts   *)
(* as long as the grant on the grant never exceeding its TTL.              *)
(***************************************************************************)
EXTENDS RedisLock, TLAPS

\* A client has a token exactly while it is in a call or holds the lock.
TokenWhileBusy == \A c \in Clients : client[c].token = None <=> client[c].pc = "idle"

\* randomToken never returns what another client has.
TokensDistinct ==
    \A c, d \in Clients : client[c].token = client[d].token /\ client[c].token # None => c = d

\* A grant is backed by the key in Redis, for at least as long as it lasts.
GrantsBacked ==
    \A c \in Clients : Covered(c) =>
        client[c].pc = "held" /\ token = client[c].token /\ lease[c] <= expire

\* The inductive invariant.
LockInv == LockTypeOK /\ TokenWhileBusy /\ TokensDistinct /\ GrantsBacked

USE DEF Client, Idle, LockTypeOK, LockInv, TokenWhileBusy, TokensDistinct, GrantsBacked,
        Covered, TTLs

-----------------------------------------------------------------------------

\* Initially there are no grants and no tokens in use.
LEMMA InitLock == LockInit => LockInv
BY LockAssumption DEF LockInit

\* A free key means that no grant is running, so SET NX overwrites nobody's.
LEMMA FreeKeyNoGrant ==
    ASSUME LockInv, token = None
    PROVE  \A d \in Clients : ~Covered(d)
BY LockAssumption

\* A client that owns the key is the only one with a grant.
LEMMA OwnerAlone ==
    ASSUME LockInv, NEW c \in Clients, client[c].pc = "held", Owns(c)
    PROVE  \A d \in Clients : d # c => ~Covered(d)
BY LockAssumption DEF Owns

\* Begin takes a token nobody has.
LEMMA StepBegin ==
    ASSUME LockInv, NEW c \in Clients, Begin(c)
    PROVE  LockInv'
<1>1. PICK t \in Tokens, pc \in {"acquire", "try"} :
        Fresh(t) /\ client' = [client EXCEPT ![c] = [pc |-> pc, token |-> t]]
  BY DEF Begin
<1>2. UNCHANGED <<token, expire, lease, orphaned>> /\ client[c].pc = "idle"
  BY DEF Begin
<1>3. LockTypeOK'
  BY <1>1, <1>2
<1>4. TokenWhileBusy'
  BY <1>1, <1>2, LockAssumption
<1>5. TokensDistinct'
  BY <1>1, <1>2 DEF Fresh
<1>6. GrantsBacked'
  BY <1>1, <1>2
<1>7. QED
  BY <1>3, <1>4, <1>5, <1>6

\* A grant begins with the key; no other is running.
LEMMA StepGranted ==
    ASSUME LockInv, NEW c \in Clients, Granted(c)
    PROVE  LockInv'
<1>1. \A d \in Clients : ~Covered(d)
  BY FreeKeyNoGrant DEF Granted, Available
<1>2. client[c].token \in Tokens
  BY DEF Granted
<1>3. PICK ttl \in 1..MaxTTL : Store(c, ttl) /\ lease' = [lease EXCEPT ![c] = ttl]
  BY DEF Granted
<1>4. LockTypeOK'
  BY <1>2, <1>3, LockAssumption DEF Granted, Store, Goto, Lifetime
<1>5. TokenWhileBusy' /\ TokensDistinct'
  BY <1>2, LockAssumption DEF Granted, Goto
<1>6. GrantsBacked'
  <2>1. ASSUME NEW d \in Clients, Covered(d)' PROVE d = c
    BY <1>1, <1>3, <2>1 DEF Granted
  <2>2. client'[c].pc = "held" /\ token' = client'[c].token /\ lease'[c] <= expire'
    BY <1>3, LockAssumption DEF Granted, Store, Goto, Lifetime
  <2>3. QED
    BY <2>1, <2>2
<1>7. QED
  BY <1>4, <1>5, <1>6

\* A failing SET NX may create the key, but only where there was none.
LEMMA StepAcquireFails ==
    ASSUME LockInv, NEW c \in Clients, AcquireFails(c)
    PROVE  LockInv'
<1>1. client[c].token \in Tokens /\ ~Covered(c)
  BY DEF AcquireFails
<1>2. LockTypeOK'
  BY <1>1, LockAssumption DEF AcquireFails, Store, Return, Lifetime
<1>3. TokenWhileBusy' /\ TokensDistinct'
  BY <1>1, LockAssumption DEF AcquireFails, Return
<1>4. CASE Available(c)
  <2>1. \A d \in Clients : ~Covered(d)
    BY <1>4, FreeKeyNoGrant DEF Available
  <2>2. GrantsBacked'
    BY <2>1 DEF AcquireFails
  <2>3. QED
    BY <1>2, <1>3, <2>2
<1>5. CASE UNCHANGED <<token, expire>>
  <2>1. GrantsBacked'
    BY <1>1, <1>5 DEF AcquireFails, Return
  <2>2. QED
    BY <1>2, <1>3, <2>1
<1>6. QED
  BY <1>4, <1>5 DEF AcquireFails

\* A client that returns without a grant disturbs nobody.
LEMMA ReturnKeeps ==
    ASSUME LockInv, NEW c \in Clients, Return(c), UNCHANGED <<token, expire>>,
           lease' \in [Clients -> 0..MaxTTL], orphaned' \subseteq Clients, ~Covered(c)',
           \A d \in Clients : d # c => lease'[d] = lease[d] /\ (d \in orphaned' <=> d \in orphaned)
    PROVE  LockInv'
<1>1. LockTypeOK'
  BY DEF Return
<1>2. TokenWhileBusy' /\ TokensDistinct'
  BY LockAssumption DEF Return
<1>3. GrantsBacked'
  BY DEF Return
<1>4. QED
  BY <1>1, <1>2, <1>3

\* Nor does one that goes on trying.
LEMMA GotoKeeps ==
    ASSUME LockInv, NEW c \in Clients, NEW pc \in {"acquire", "wait"}, Goto(c, pc),
           client[c].pc \notin {"idle", "held"}, UNCHANGED <<token, expire, lease, orphaned>>
    PROVE  LockInv'
<1>1. LockTypeOK'
  BY DEF Goto
<1>2. TokenWhileBusy' /\ TokensDistinct'
  BY LockAssumption DEF Goto
<1>3. GrantsBacked'
  BY DEF Goto
<1>4. QED
  BY <1>1, <1>2, <1>3

\* Refusals, waits, crashes: the key is left alone.
LEMMA StepLocal ==
    ASSUME LockInv, NEW c \in Clients, Refused(c) \/ Wait(c) \/ Die(c)
    PROVE  LockInv'
<1>1. ASSUME client[c].pc \in {"acquire", "try", "wait"} PROVE ~Covered(c)
  BY <1>1
<1>2. CASE Refused(c)
  BY <1>1, <1>2, ReturnKeeps, GotoKeeps DEF Refused
<1>3. CASE Wait(c)
  BY <1>1, <1>3, ReturnKeeps, GotoKeeps DEF Wait
<1>4. CASE Die(c)
  <2>1. /\ lease' \in [Clients -> 0..MaxTTL] /\ lease'[c] = 0
        /\ \A d \in Clients : d # c => lease'[d] = lease[d]
    BY <1>4, LockAssumption DEF Die
  <2>2. QED
    BY <1>4, <2>1, ReturnKeeps DEF Die
<1>5. QED
  BY <1>2, <1>3, <1>4

\* Release deletes the key only when no other grant is running.
LEMMA StepRelease ==
    ASSUME LockInv, NEW c \in Clients, Release(c)
    PROVE  LockInv'
<1>1. LockTypeOK' /\ TokenWhileBusy' /\ TokensDistinct'
  BY LockAssumption DEF Release, Return
<1>2. CASE Owns(c) /\ token' = None /\ expire' = 0
  <2>1. \A d \in Clients : d # c => ~Covered(d)
    BY <1>2, OwnerAlone DEF Release
  <2>2. GrantsBacked'
    BY <2>1 DEF Release
  <2>3. QED
    BY <1>1, <2>2
<1>3. CASE UNCHANGED <<token, expire>>
  <2>1. GrantsBacked'
    BY <1>3 DEF Release, Return
  <2>2. QED
    BY <1>1, <2>1
<1>4. QED
  BY <1>2, <1>3 DEF Release

\* Extend sets the TTL of the only client that has a grant, or shortens what
\* its caller relies on.
LEMMA StepExtend ==
    ASSUME LockInv, NEW c \in Clients, Extend(c)
    PROVE  LockInv'
<1>1. TokenWhileBusy' /\ TokensDistinct'
  BY DEF Extend
<1>2. ASSUME NEW ttl \in 1..MaxTTL, Owns(c), expire' = ttl, NEW left \in 0..MaxTTL, left <= ttl,
             lease' = [lease EXCEPT ![c] = left]
      PROVE  LockTypeOK' /\ GrantsBacked'
  <2>1. \A d \in Clients : d # c => ~Covered(d)
    BY <1>2, OwnerAlone DEF Extend
  <2>2. LockTypeOK'
    BY <1>2, LockAssumption DEF Extend
  <2>3. GrantsBacked'
    BY <1>2, <2>1 DEF Extend, Owns
  <2>4. QED
    BY <2>2, <2>3
<1>3. ASSUME NEW ttl \in 1..MaxTTL, UNCHANGED expire, NEW left \in 0..MaxTTL, left <= lease[c],
             lease' = [lease EXCEPT ![c] = left]
      PROVE  LockTypeOK' /\ GrantsBacked'
  <2>1. LockTypeOK'
    BY <1>3 DEF Extend
  <2>2. ASSUME NEW d \in Clients, Covered(d)'
        PROVE  (client[d].pc = "held" /\ token = client[d].token /\ lease[d] <= expire)'
    <3>1. lease'[d] <= lease[d] /\ lease'[d] \in Int /\ lease[d] \in Int /\ expire \in Int
      BY <1>3, LockAssumption
    <3>2. Covered(d)
      BY <2>2, <3>1 DEF Extend
    <3>3. QED
      BY <1>3, <3>1, <3>2 DEF Extend
  <2>3. QED
    BY <2>1, <2>2
<1>4. ASSUME NEW ttl \in 1..MaxTTL
      PROVE  Lesser(lease[c], ttl) \in 0..MaxTTL
             /\ Lesser(lease[c], ttl) <= ttl /\ Lesser(lease[c], ttl) <= lease[c]
  BY LockAssumption DEF Lesser
<1>5. QED
  BY <1>1, <1>2, <1>3, <1>4 DEF Extend

\* The key goes only when the grant it backs has run out too.
LEMMA StepTick ==
    ASSUME LockInv, Tick
    PROVE  LockInv'
<1>1. LockTypeOK'
  BY LockAssumption DEF Tick, Left
<1>2. TokenWhileBusy' /\ TokensDistinct'
  BY DEF Tick
<1>3. GrantsBacked'
  <2>1. SUFFICES ASSUME NEW c \in Clients, Covered(c)'
                 PROVE  (client[c].pc = "held" /\ token = client[c].token /\ lease[c] <= expire)'
    OBVIOUS
  <2>2. lease'[c] = lease[c] - 1 /\ lease[c] > 1 /\ c \notin orphaned
    BY <2>1 DEF Tick, Left
  <2>3. client[c].pc = "held" /\ token = client[c].token /\ lease[c] <= expire
    BY <2>2
  <2>4. token' = token /\ expire' = expire - 1 /\ client' = client
    BY <2>2, <2>3 DEF Tick, Left
  <2>5. QED
    BY <2>2, <2>3, <2>4
<1>4. QED
  BY <1>1, <1>2, <1>3

\* A lost key leaves no grant covered.
LEMMA StepLoseKey ==
    ASSUME LockInv, LoseKey
    PROVE  LockInv' /\ \A c \in Clients : ~Covered(c)'
<1>1. \A c \in Clients : ~Covered(c)'
  BY DEF LoseKey
<1>2. LockTypeOK' /\ TokenWhileBusy' /\ TokensDistinct'
  BY LockAssumption DEF LoseKey
<1>3. QED
  BY <1>1, <1>2

\* Every step keeps the invariant.
LEMMA StepLock == LockInv /\ [LockNext]_lockVars => LockInv'
<1>1. SUFFICES ASSUME LockInv, [LockNext]_lockVars PROVE LockInv'
  OBVIOUS
<1>2. CASE UNCHANGED lockVars
  BY <1>1, <1>2 DEF lockVars
<1>3. CASE Tick \/ LoseKey
  BY <1>1, <1>3, StepTick, StepLoseKey
<1>4. ASSUME NEW c \in Clients,
             \/ Begin(c) \/ Granted(c) \/ AcquireFails(c) \/ Refused(c) \/ Wait(c)
             \/ Release(c) \/ Extend(c) \/ Die(c)
      PROVE  LockInv'
  <2> HIDE DEF LockInv
  <2> QED
    BY <1>1, <1>4, StepBegin, StepGranted, StepAcquireFails, StepLocal, StepRelease, StepExtend
<1>5. QED
  BY <1>1, <1>2, <1>3, <1>4 DEF LockNext

\* The invariant holds in every behaviour.
THEOREM LockInvHolds == LockSpec => []LockInv
<1>1. QED
  BY InitLock, StepLock, PTL DEF LockSpec

\* Two grants at a time would both be backed by the one key.
LEMMA InvExclusive == LockInv => MutualExclusion
BY LockAssumption DEF MutualExclusion

\* The lock is type-correct.
THEOREM LockTypeCorrect == LockSpec => []LockTypeOK
<1>1. LockInv => LockTypeOK
  OBVIOUS
<1>2. QED
  BY <1>1, LockInvHolds, PTL

\* No two clients are covered by a grant at the same time, however many there
\* are and whatever fails.
THEOREM LocksExclude == LockSpec => []MutualExclusion
<1>1. QED
  BY InvExclusive, LockInvHolds, PTL

-----------------------------------------------------------------------------
(* Nobody touches the key of another's grant *)

\* While client d is covered by its grant and does nothing, a step of another
\* client leaves the key as it is.
LEMMA OtherKeepsToken ==
    ASSUME LockInv, NEW c \in Clients, NEW d \in Clients, c # d, Covered(d),
           \/ Begin(c) \/ Granted(c) \/ AcquireFails(c) \/ Refused(c) \/ Wait(c)
           \/ Release(c) \/ Extend(c) \/ Die(c)
    PROVE  token' = token
<1>1. token # None
  BY FreeKeyNoGrant
<1>2. client[c].pc = "held" => ~Owns(c)
  BY OwnerAlone
<1>3. QED
  BY <1>1, <1>2 DEF Begin, Granted, Available, AcquireFails, Refused, Wait, Release, Extend, Die

\* Nor does the client itself, unless it changes its state.
LEMMA SelfKeepsToken ==
    ASSUME LockInv, NEW d \in Clients, Covered(d), client'[d] = client[d],
           \/ Begin(d) \/ Granted(d) \/ AcquireFails(d) \/ Refused(d) \/ Wait(d)
           \/ Release(d) \/ Extend(d) \/ Die(d)
    PROVE  token' = token
<1>1. client[d].pc = "held"
  OBVIOUS
<1>2. ~Release(d)
  BY <1>1 DEF Release, Return
<1>3. QED
  BY <1>1, <1>2 DEF Begin, Granted, AcquireFails, Refused, Wait, Extend, Die

\* A late Release or Extend, a crash or a lost reply of one client never takes
\* the key from another that is covered by its grant.
THEOREM OthersAreKeptOut == LockSpec => OthersKeepOut
<1>1. LockInv /\ [LockNext]_lockVars =>
        [\A c \in Clients : Covered(c) /\ client'[c] = client[c] =>
            \/ token' = token
            \/ expire = 1 /\ lease[c] = 1
            \/ c \in orphaned']_lockVars
  <2>1. SUFFICES ASSUME LockInv, LockNext, NEW d \in Clients, Covered(d),
                        client'[d] = client[d]
                 PROVE  token' = token \/ (expire = 1 /\ lease[d] = 1) \/ d \in orphaned'
    OBVIOUS
  <2>2. CASE Tick \/ LoseKey
    BY <2>1, <2>2 DEF Tick, LoseKey
  <2>3. ASSUME NEW c \in Clients,
               \/ Begin(c) \/ Granted(c) \/ AcquireFails(c) \/ Refused(c) \/ Wait(c)
               \/ Release(c) \/ Extend(c) \/ Die(c)
        PROVE  token' = token
    <3> HIDE DEF LockInv
    <3>1. CASE c = d
      BY <2>1, <2>3, <3>1, SelfKeepsToken
    <3>2. CASE c # d
      BY <2>1, <2>3, <3>2, OtherKeepsToken
    <3>3. QED
      BY <3>1, <3>2
  <2>4. QED
    BY <2>1, <2>2, <2>3 DEF LockNext
<1>2. QED
  BY <1>1, LockInvHolds, PTL DEF LockSpec, OthersKeepOut

-----------------------------------------------------------------------------
(* The lock implements the lease *)

\* Owner is the client that is covered by a grant.
LEMMA OwnerIs ==
    ASSUME MutualExclusion
    PROVE  /\ \A c \in Clients : Covered(c) => Owner = c
           /\ (\A c \in Clients : ~Covered(c)) => Owner = None
BY DEF Owner, MutualExclusion

\* A step ends a grant, begins one where there was none, or changes no owner.
LEMMA StepLease ==
    ASSUME LockInv, LockInv', LockNext
    PROVE  \/ Promise!End
           \/ \E c \in Clients : Promise!Grant(c)
           \/ Owner' = Owner
<1>1. MutualExclusion /\ MutualExclusion'
  BY InvExclusive, LockAssumption DEF MutualExclusion
<1>2. /\ \A c \in Clients : Covered(c) => Owner = c
      /\ (\A c \in Clients : ~Covered(c)) => Owner = None
  BY <1>1, OwnerIs
<1>3. /\ \A c \in Clients : Covered(c)' => Owner' = c
      /\ (\A c \in Clients : ~Covered(c)') => Owner' = None
  BY <1>1 DEF Owner, MutualExclusion
<1>4. ASSUME NEW c \in Clients, NEW d \in Clients, Covered(c), Covered(d)'
      PROVE  c = d
  <2>1. CASE Covered(d)
    BY <1>1, <1>4, <2>1 DEF MutualExclusion
  <2>2. CASE ~Covered(d) /\ c # d
    <3>1. \A b \in Clients : ~Granted(b)
      BY <1>4, FreeKeyNoGrant DEF Granted, Available
    <3>2. client[d].pc = "held" => ~Owns(d)
      BY <1>4, <2>2, OwnerAlone
    <3>3. lease'[d] \in Int /\ lease[d] \in Int
      BY LockAssumption
    <3>4. Extend(d) => lease'[d] <= lease[d]
      BY <3>2, <3>3, LockAssumption DEF Extend, Lesser
    <3>5. \A b \in Clients : b # d /\ Extend(b) => lease'[d] = lease[d]
      BY DEF Extend
    <3>6. \A b \in Clients : Release(b) \/ Die(b) => lease'[d] <= lease[d] /\ (b = d => lease'[d] = 0)
      BY DEF Release, Die
    <3>7. Tick \/ LoseKey => lease'[d] <= lease[d] /\ orphaned \subseteq orphaned'
      BY DEF Tick, Left, LoseKey
    <3>8. lease'[d] <= lease[d]
      BY <3>1, <3>3, <3>4, <3>5, <3>6, <3>7
      DEF LockNext, Begin, AcquireFails, Refused, Wait
    <3>9. d \in orphaned => d \in orphaned' \/ lease'[d] = 0
      BY <3>1, <3>6, <3>7
      DEF LockNext, Begin, AcquireFails, Refused, Wait, Extend, Release, Die
    <3>10. QED
      BY <1>4, <2>2, <3>3, <3>8, <3>9
  <2>3. QED
    BY <2>1, <2>2
<1>5. QED
  BY <1>2, <1>3, <1>4, LockAssumption DEF Promise!End, Promise!Grant

\* The Redis lock keeps what package lock promises: a key passes from one owner
\* to another only after the first grant has ended.
THEOREM LockImplementsLease == LockSpec => ImplementsLease
<1>1. LockInit => Promise!LeaseInit
  BY LockAssumption DEF LockInit, Promise!LeaseInit, Owner
<1>2. LockInv /\ LockInv' /\ [LockNext]_lockVars =>
        [Promise!End \/ \E c \in Clients : Promise!Grant(c)]_Owner
  <2>1. CASE UNCHANGED lockVars
    BY <2>1 DEF lockVars, Owner
  <2>2. QED
    BY <2>1, StepLease
<1>3. QED
  BY <1>1, <1>2, LockInvHolds, PTL DEF LockSpec, ImplementsLease, Promise!LeaseSpec
=============================================================================
