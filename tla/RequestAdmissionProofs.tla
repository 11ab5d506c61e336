----------------------- MODULE RequestAdmissionProofs -----------------------
(***************************************************************************)
(* Proofs about RequestAdmission, for every number of requests, rate       *)
(* windows, limits and leases: a slot belongs to a live token of the       *)
(* present epoch, the windows count a request at most once, and the        *)
(* concurrency set of a route's user implements LeasePool.                 *)
(***************************************************************************)
EXTENDS RequestAdmission, FiniteSetTheorems, TLAPS

\* The marker is that of the present epoch or gone; what requests, tokens and
\* late calls carry is an epoch they read, and no later one.
EpochsAreRead ==
    /\ epoch \in Nat \ {0} /\ marker \in {0, epoch}
    /\ \A q \in Requests :
         /\ session[q].epoch <= epoch /\ (session[q].pc # "idle" => session[q].epoch > 0)
         /\ token[q].epoch <= epoch /\ (token[q].status # "none" => token[q].epoch > 0)
         /\ late[q] # NoCall =>
               /\ late[q].call # "none" /\ late[q].epoch \in 1 .. epoch
               /\ session[q].pc # "idle"

\* A request that was given a token and has it no more asks for it with an epoch
\* that is over, if it asks at all.
IssuedOnce ==
    /\ issued \subseteq Requests
    /\ \A q \in issued :
         /\ session[q].pc # "idle"
         /\ token[q].status = "none" =>
               /\ session[q].pc = "arrived" => session[q].epoch < epoch \/ marker = 0
               /\ late[q].call = "acquire" => late[q].epoch < epoch \/ marker = 0

\* Who is not done has a try of Finalize left.
TriesAreLeft == \A q \in Requests : session[q].pc # "done" => session[q].tries < Tries

IInv == TypeOK /\ SlotHasItsToken /\ RatesHold /\ EpochsAreRead /\ IssuedOnce /\ TriesAreLeft

Hypotheses == AdmissionAssumption /\ IsFiniteSet(Requests)

-----------------------------------------------------------------------------
(* The largest limit.                                                      *)

\* A finite set of naturals that is not empty has a largest element: as many
\* numbers from 1 on are within one of its elements.
LEMMA LargestExists ==
    ASSUME NEW S \in SUBSET Nat, IsFiniteSet(S), S # {}
    PROVE  \E m \in S : \A n \in S : n <= m
<1> DEFINE B == {1 .. n : n \in S}
           f == [n \in S |-> 1 .. n]
           C == UNION B
           m == Cardinality(C)
<1>1. IsFiniteSet(B)
  <2>1. f \in Surjection(S, B)
    BY DEF Surjection
  <2> QED BY <2>1, FS_Surjection
<1>2. \A b \in B : IsFiniteSet(b)
    BY FS_Interval
<1> HIDE DEF B
<1>3. IsFiniteSet(C)
    BY <1>1, <1>2, FS_UNION
<1>4. m \in Nat
    BY <1>3, FS_CardinalityType
<1>5. ASSUME NEW n \in S PROVE n <= m
  <2>1. 1 .. n \subseteq C
    BY <1>5 DEF B
  <2> HIDE DEF C
  <2>2. Cardinality(1 .. n) <= m
    BY <1>3, <2>1, FS_Subset
  <2>3. n \in Nat /\ Cardinality(1 .. n) = n
    BY FS_Interval
  <2> QED BY <2>2, <2>3
<1>6. m \in S
  <2>1. SUFFICES ASSUME m \notin S PROVE FALSE
    OBVIOUS
  <2> DEFINE k == m - 1
  <2>2. \A n \in S : n \in Nat /\ n <= k
    <3> HIDE DEF m
    <3> QED BY <1>4, <1>5, <2>1
  <2>3. k \in Nat
    <3>1. PICK n \in S : TRUE
      OBVIOUS
    <3> HIDE DEF m
    <3>2. n \in Nat /\ n <= k
      BY <2>2, <3>1
    <3> QED BY <1>4, <3>2
  <2>4. C \subseteq 1 .. k
    <3> HIDE DEF k
    <3> QED BY <2>2, <2>3 DEF B
  <2>5. m <= k
    <3> HIDE DEF C, k
    <3>1. IsFiniteSet(1 .. k) /\ Cardinality(1 .. k) = k
      BY <2>3, FS_Interval
    <3> QED BY <2>4, <3>1, FS_Subset
  <2> HIDE DEF m
  <2> QED BY <1>4, <2>5
<1> HIDE DEF m
<1> QED BY <1>5, <1>6

\* Every revision's limit is within the largest.
LEMMA WithinLargest ==
    ASSUME AdmissionAssumption
    PROVE  /\ LargestLimit \in Nat
           /\ \A i \in 1 .. Len(Limits) : Limits[i] <= LargestLimit
<1> DEFINE D == 1 .. Len(Limits)
           S == {Limits[i] : i \in D}
           f == [i \in D |-> Limits[i]]
<1>1. Len(Limits) \in Nat /\ S \subseteq Nat /\ S # {}
    BY DEF AdmissionAssumption
<1>2. IsFiniteSet(S)
  <2>1. f \in Surjection(D, S)
    BY DEF Surjection
  <2>2. IsFiniteSet(D)
    BY <1>1, FS_Interval
  <2> HIDE DEF D, S, f
  <2> QED BY <2>1, <2>2, FS_Surjection
<1>3. \E m \in S : \A n \in S : n <= m
  <2> HIDE DEF S
  <2> QED BY <1>1, <1>2, LargestExists
<1>4. LargestLimit \in S /\ \A i \in D : Limits[i] <= LargestLimit
    BY <1>3 DEF LargestLimit
<1> QED BY <1>1, <1>4

-----------------------------------------------------------------------------
(* What Redis makes of one call.                                           *)

\* A call that may be made for q with epoch e: an admission of a request that
\* has spent its token comes with an epoch that is over.
MayCall(q, call, e) ==
    /\ call \in {"acquire", "renew", "finish"} /\ e \in 1 .. epoch /\ session[q].pc # "idle"
    /\ call = "acquire" /\ q \in issued /\ token[q].status = "none" => e < epoch \/ marker = 0

RedisTypes ==
    /\ token \in [Requests -> [status: {"none", "active", "finished"}, epoch: Nat]]
    /\ slot \in [Requests -> 0 .. LeaseTTL]
    /\ count \in [Windows -> Nat]

TokenEpochs ==
    \A q \in Requests :
        token[q].epoch <= epoch /\ (token[q].status # "none" => token[q].epoch > 0)

\* The tokens are issued once: who has spent one had it before.
Issues(q) ==
    /\ issued \subseteq issued' /\ issued' \subseteq issued \cup {q}
    /\ \A p \in issued' : token'[p].status = "none" => p \in issued /\ token[p].status = "none"

\* The concurrency set gives tickets back or takes one, in the words of LeasePool.
Pooled ==
    \/ Active' \subseteq Active /\ issued' = issued
    \/ \E q \in Requests :
         /\ q \notin issued /\ issued' = issued \cup {q}
         /\ Cardinality(Active) < LargestLimit /\ Active' = Active \cup {q}

RunKeeps(q) ==
    RedisTypes' /\ SlotHasItsToken' /\ RatesHold' /\ TokenEpochs' /\ Issues(q) /\ Pooled

LEMMA RedisRests ==
    ASSUME IInv, NEW q \in Requests, UNCHANGED redis, UNCHANGED <<marker, epoch>>
    PROVE  RunKeeps(q)
<1>1. token' = token /\ slot' = slot /\ count' = count /\ issued' = issued
    BY DEF redis
<1>2. RedisTypes' /\ TokenEpochs'
    BY <1>1 DEF IInv, TypeOK, RedisTypes, TokenEpochs, EpochsAreRead
<1>3. SlotHasItsToken' /\ RatesHold'
    BY <1>1 DEF IInv, SlotHasItsToken, RatesHold
<1>4. Issues(q) /\ Pooled
    BY <1>1 DEF Issues, Pooled, Active
<1> QED BY <1>2, <1>3, <1>4 DEF RunKeeps

LEMMA AcquireKeeps ==
    ASSUME Hypotheses, IInv, NEW q \in Requests, NEW e, MayCall(q, "acquire", e),
           DoAcquire(q, e), UNCHANGED <<marker, epoch>>
    PROVE  RunKeeps(q)
<1>1. CASE AcquireReply(q, e) # "allowed"
    BY <1>1, RedisRests DEF DoAcquire
<1>2. CASE AcquireReply(q, e) = "allowed"
  <2>t. /\ token \in [Requests -> [status: {"none", "active", "finished"}, epoch: Nat]]
        /\ slot \in [Requests -> 0 .. LeaseTTL] /\ count \in [Windows -> Nat]
        /\ LeaseTTL \in Nat /\ LeaseTTL > 0 /\ RateLimit \in [Windows -> Nat] /\ epoch \in Nat
        /\ rev \in 1 .. Len(Limits)
    <3>1. /\ token \in [Requests -> [status: {"none", "active", "finished"}, epoch: Nat]]
          /\ slot \in [Requests -> 0 .. LeaseTTL] /\ count \in [Windows -> Nat]
          /\ marker \in 0 .. epoch /\ rev \in 1 .. Len(Limits)
      BY DEF IInv, TypeOK
    <3>2. LeaseTTL \in Nat /\ LeaseTTL > 0 /\ RateLimit \in [Windows -> Nat]
      BY DEF Hypotheses, AdmissionAssumption
    <3>3. epoch \in Nat
      BY DEF IInv, EpochsAreRead, TypeOK
    <3> QED BY <3>1, <3>2, <3>3
  <2>1. /\ marker = e /\ token[q].status = "none"
        /\ \A w \in Windows : RateLimit[w] > 0 => count[w] < RateLimit[w]
        /\ Cardinality(Active) < Limits[rev]
    <3>1. marker = e
      BY <1>2 DEF AcquireReply
    <3>2. token[q].status \in {"none", "active", "finished"}
      BY <2>t
    <3>3. token[q].status = "none"
      BY <1>2, <3>1, <3>2 DEF AcquireReply
    <3>4. ~\E w \in Windows : RateLimit[w] > 0 /\ count[w] >= RateLimit[w]
      BY <1>2, <3>1, <3>3 DEF AcquireReply
    <3>5. ~(Cardinality(Active) >= Limits[rev])
      BY <1>2, <3>1, <3>3, <3>4 DEF AcquireReply
    <3>6. Cardinality(Active) \in Nat /\ Limits[rev] \in Nat
      <4>1. Active \subseteq Requests
        BY DEF Active
      <4>2. IsFiniteSet(Active)
        BY <4>1, FS_Subset DEF Hypotheses
      <4> QED BY <2>t, <4>2, FS_CardinalityType DEF Hypotheses, AdmissionAssumption
    <3> QED BY <2>t, <3>1, <3>3, <3>4, <3>5, <3>6
  <2>2. /\ count' = [w \in Windows |-> count[w] + 1] /\ slot' = [slot EXCEPT ![q] = LeaseTTL]
        /\ token' = [token EXCEPT ![q] = [status |-> "active", epoch |-> e]]
        /\ issued' = issued \cup {q} /\ marker' = marker /\ epoch' = epoch
    BY <1>2 DEF DoAcquire
  <2>3. e \in Nat /\ e > 0 /\ e <= epoch
    BY <2>t DEF MayCall
  <2>4. q \notin issued
    BY <2>1, <2>3 DEF MayCall, IInv, EpochsAreRead
  <2>5. RedisTypes' /\ TokenEpochs'
    <3>1. RedisTypes'
      BY <2>t, <2>2, <2>3 DEF RedisTypes
    <3>2. TokenEpochs'
      BY <2>t, <2>2, <2>3 DEF TokenEpochs, IInv, EpochsAreRead
    <3> QED BY <3>1, <3>2
  <2>6. SlotHasItsToken'
    BY <2>t, <2>1, <2>2 DEF IInv, SlotHasItsToken
  <2>7. RatesHold'
    <3>1. IsFiniteSet(issued)
      BY FS_Subset DEF IInv, IssuedOnce, Hypotheses
    <3>2. Cardinality(issued') = Cardinality(issued) + 1 /\ Cardinality(issued) \in Nat
      BY <2>2, <2>4, <3>1, FS_AddElement, FS_CardinalityType
    <3> QED BY <2>t, <2>1, <2>2, <3>2 DEF IInv, RatesHold
  <2>8. Issues(q)
    BY <2>t, <2>2 DEF Issues
  <2>9. Pooled
    <3>1. Active' = Active \cup {q}
      BY <2>t, <2>2 DEF Active
    <3>2. Limits[rev] <= LargestLimit /\ LargestLimit \in Nat /\ Limits[rev] \in Nat
      BY <2>t, WithinLargest DEF Hypotheses, AdmissionAssumption
    <3>3. Cardinality(Active) \in Nat
      <4>1. Active \subseteq Requests
        BY DEF Active
      <4>2. IsFiniteSet(Active)
        BY <4>1, FS_Subset DEF Hypotheses
      <4> QED BY <4>2, FS_CardinalityType
    <3> QED BY <2>1, <2>2, <2>4, <3>1, <3>2, <3>3 DEF Pooled
  <2> QED BY <2>5, <2>6, <2>7, <2>8, <2>9 DEF RunKeeps
<1> QED BY <1>1, <1>2

LEMMA RenewKeeps ==
    ASSUME Hypotheses, IInv, NEW q \in Requests, NEW e, DoRenew(q, e), UNCHANGED <<marker, epoch>>
    PROVE  RunKeeps(q)
<1>1. CASE ~(Known(q, e) /\ token[q].status = "active" /\ slot[q] > 0)
    BY <1>1, RedisRests DEF DoRenew
<1>2. CASE Known(q, e) /\ token[q].status = "active" /\ slot[q] > 0
  <2>1. /\ slot' = [slot EXCEPT ![q] = LeaseTTL] /\ token' = token /\ count' = count
        /\ issued' = issued /\ marker' = marker /\ epoch' = epoch
    BY <1>2 DEF DoRenew
  <2>2. slot \in [Requests -> 0 .. LeaseTTL] /\ LeaseTTL \in Nat /\ LeaseTTL > 0
    BY DEF IInv, TypeOK, Hypotheses, AdmissionAssumption
  <2>3. RedisTypes' /\ TokenEpochs'
    BY <2>1, <2>2 DEF IInv, TypeOK, RedisTypes, TokenEpochs, EpochsAreRead
  <2>4. SlotHasItsToken'
    BY <1>2, <2>1, <2>2 DEF IInv, SlotHasItsToken
  <2>5. RatesHold'
    BY <2>1 DEF IInv, RatesHold
  <2>6. Active' = Active
    BY <1>2, <2>1, <2>2 DEF Active
  <2>7. Issues(q) /\ Pooled
    BY <2>1, <2>6 DEF Issues, Pooled
  <2> QED BY <2>3, <2>4, <2>5, <2>7 DEF RunKeeps
<1> QED BY <1>1, <1>2

LEMMA FinishKeeps ==
    ASSUME Hypotheses, IInv, NEW q \in Requests, NEW e, DoFinish(q, e), UNCHANGED <<marker, epoch>>
    PROVE  RunKeeps(q)
<1>1. CASE ~(Known(q, e) /\ token[q].status = "active")
    BY <1>1, RedisRests DEF DoFinish
<1>2. CASE Known(q, e) /\ token[q].status = "active"
  <2>1. /\ slot' = [slot EXCEPT ![q] = 0] /\ token' = [token EXCEPT ![q].status = "finished"]
        /\ count' = count /\ issued' = issued /\ marker' = marker /\ epoch' = epoch
    BY <1>2 DEF DoFinish
  <2>2. /\ token \in [Requests -> [status: {"none", "active", "finished"}, epoch: Nat]]
        /\ slot \in [Requests -> 0 .. LeaseTTL] /\ LeaseTTL \in Nat
    BY DEF IInv, TypeOK, Hypotheses, AdmissionAssumption
  <2>3. /\ \A p \in Requests \ {q} : token'[p] = token[p] /\ slot'[p] = slot[p]
        /\ slot'[q] = 0 /\ token'[q].status = "finished" /\ token'[q].epoch = token[q].epoch
    BY <2>1, <2>2
  <2>4. RedisTypes'
    <3>1. token' \in [Requests -> [status: {"none", "active", "finished"}, epoch: Nat]]
      BY <2>1, <2>2
    <3>2. slot' \in [Requests -> 0 .. LeaseTTL]
      BY <2>1, <2>2
    <3>3. count' \in [Windows -> Nat]
      BY <2>1 DEF IInv, TypeOK
    <3> QED BY <3>1, <3>2, <3>3 DEF RedisTypes
  <2>5. TokenEpochs'
    BY <1>2, <2>1, <2>3 DEF TokenEpochs, IInv, EpochsAreRead
  <2>6. SlotHasItsToken' /\ RatesHold'
    BY <2>1, <2>3 DEF IInv, SlotHasItsToken, RatesHold
  <2>7. Active' \subseteq Active
    BY <2>3 DEF Active
  <2>8. Issues(q) /\ Pooled
    BY <2>1, <2>3, <2>7 DEF Issues, Pooled, IInv, IssuedOnce
  <2> QED BY <2>4, <2>5, <2>6, <2>8 DEF RunKeeps
<1> QED BY <1>1, <1>2

LEMMA AnyRunKeeps ==
    ASSUME Hypotheses, IInv, NEW q \in Requests, NEW call, NEW e, MayCall(q, call, e),
           Run(q, call, e), UNCHANGED <<marker, epoch>>
    PROVE  RunKeeps(q)
<1>1. CASE call = "acquire"
    BY <1>1, AcquireKeeps DEF Run
<1>2. CASE call = "renew"
    BY <1>2, RenewKeeps DEF Run
<1>3. CASE call = "finish"
    BY <1>3, FinishKeeps DEF Run
<1> QED BY <1>1, <1>2, <1>3 DEF MayCall

-----------------------------------------------------------------------------
(* The steps.                                                              *)

\* The request's own side, while Redis does at most what one call of it does.
LEMMA RequestSteps ==
    ASSUME Hypotheses, IInv, NEW q \in Requests, RunKeeps(q),
           UNCHANGED <<marker, epoch, rev, gate>>,
           session' \in [Requests -> [pc: Sessions, epoch: Nat, rev: 1 .. Len(Limits), tries: 0 .. Tries]],
           late' \in [Requests -> [call: {"none", "acquire", "renew", "finish"}, epoch: Nat]],
           \A p \in Requests \ {q} : session'[p] = session[p] /\ late'[p] = late[p],
           session'[q].pc # "idle", session'[q].epoch \in 1 .. epoch,
           session'[q].pc # "done" => session'[q].tries < Tries,
           session'[q].pc = "arrived" =>
               session[q].pc = "idle" \/ (session[q].pc = "arrived" /\ session'[q].epoch = session[q].epoch),
           late'[q] = NoCall \/ late'[q] = late[q] \/ MayCall(q, late'[q].call, late'[q].epoch)
    PROVE  IInv' /\ Pooled
<1>1. /\ RedisTypes' /\ SlotHasItsToken' /\ RatesHold' /\ TokenEpochs' /\ Issues(q) /\ Pooled
      /\ marker' = marker /\ epoch' = epoch /\ rev' = rev /\ gate' = gate
    BY DEF RunKeeps
<1>2. TypeOK'
    BY <1>1 DEF IInv, TypeOK, RedisTypes
<1>3. EpochsAreRead'
  <2>1. ASSUME NEW p \in Requests
        PROVE  /\ session'[p].epoch <= epoch /\ (session'[p].pc # "idle" => session'[p].epoch > 0)
               /\ late'[p] # NoCall =>
                     /\ late'[p].call # "none" /\ late'[p].epoch \in 1 .. epoch
                     /\ session'[p].pc # "idle"
    <3>1. CASE p = q
      <4>1. epoch \in Nat
        BY DEF IInv, EpochsAreRead
      <4>2. session'[p].epoch <= epoch /\ session'[p].epoch > 0 /\ session'[p].pc # "idle"
        BY <3>1, <4>1
      <4>3. late'[p] # NoCall => late'[p].call # "none" /\ late'[p].epoch \in 1 .. epoch
        BY <3>1 DEF IInv, EpochsAreRead, MayCall
      <4> QED BY <4>2, <4>3
    <3>2. CASE p # q
        BY <3>2 DEF IInv, EpochsAreRead
    <3> QED BY <3>1, <3>2
  <2> QED BY <1>1, <2>1 DEF EpochsAreRead, TokenEpochs, IInv
<1>4. IssuedOnce'
  <2>1. issued' \subseteq Requests
    BY <1>1 DEF Issues, IInv, IssuedOnce
  <2>2. ASSUME NEW p \in issued'
        PROVE  /\ session'[p].pc # "idle"
               /\ token'[p].status = "none" =>
                    /\ session'[p].pc = "arrived" => session'[p].epoch < epoch \/ marker = 0
                    /\ late'[p].call = "acquire" => late'[p].epoch < epoch \/ marker = 0
    <3>1. token'[p].status = "none" => p \in issued /\ token[p].status = "none"
      BY <1>1 DEF Issues
    <3>2. p # q => p \in issued
      BY <1>1 DEF Issues
    <3>3. CASE p # q
      BY <2>1, <3>1, <3>2, <3>3 DEF IInv, IssuedOnce
    <3>4. CASE p = q
      <4>1. p \in issued => session[p].pc # "idle"
        BY DEF IInv, IssuedOnce
      <4>2. ASSUME token'[p].status = "none", session'[p].pc = "arrived"
            PROVE  session'[p].epoch < epoch \/ marker = 0
        <5>1. session[p].pc = "arrived" /\ session'[p].epoch = session[p].epoch
          BY <3>1, <3>4, <4>1, <4>2
        <5> QED BY <3>1, <4>2, <5>1 DEF IInv, IssuedOnce
      <4>3. ASSUME token'[p].status = "none", late'[p].call = "acquire"
            PROVE  late'[p].epoch < epoch \/ marker = 0
        <5>1. p \in issued /\ token[p].status = "none"
          BY <3>1, <4>3
        <5>2. CASE late'[q] = late[q]
          BY <3>4, <4>3, <5>1, <5>2 DEF IInv, IssuedOnce
        <5>3. CASE late'[q] = NoCall
          BY <3>4, <4>3, <5>3 DEF NoCall
        <5>4. CASE MayCall(q, late'[q].call, late'[q].epoch)
          BY <3>4, <4>3, <5>1, <5>4 DEF MayCall
        <5> QED BY <5>2, <5>3, <5>4
      <4> QED BY <3>4, <4>2, <4>3
    <3> QED BY <3>3, <3>4
  <2> QED BY <1>1, <2>1, <2>2 DEF IssuedOnce
<1>5. TriesAreLeft'
    BY DEF IInv, TriesAreLeft
<1> QED BY <1>1, <1>2, <1>3, <1>4, <1>5 DEF IInv

\* A call of the request's own, whatever becomes of it.
LEMMA CallKeeps ==
    ASSUME Hypotheses, IInv, NEW q \in Requests, NEW call, NEW e, MayCall(q, call, e),
           NEW outcome \in Outcomes, Call(q, call, e, outcome), UNCHANGED <<marker, epoch>>
    PROVE  /\ RunKeeps(q)
           /\ late' \in [Requests -> [call: {"none", "acquire", "renew", "finish"}, epoch: Nat]]
           /\ \A p \in Requests \ {q} : late'[p] = late[p]
           /\ late'[q] = late[q] \/ MayCall(q, late'[q].call, late'[q].epoch)
<1>0. /\ late \in [Requests -> [call: {"none", "acquire", "renew", "finish"}, epoch: Nat]]
      /\ epoch \in Nat
    BY DEF IInv, TypeOK, EpochsAreRead
<1>1. RunKeeps(q)
  <2>1. CASE outcome \in {"answered", "lost"}
    BY <2>1, AnyRunKeeps DEF Call
  <2>2. CASE outcome \notin {"answered", "lost"}
    BY <2>2, RedisRests DEF Call
  <2> QED BY <2>1, <2>2
<1>2. CASE outcome = "late"
  <2>1. late' = [late EXCEPT ![q] = [call |-> call, epoch |-> e]]
    BY <1>2 DEF Call
  <2>2. call \in {"acquire", "renew", "finish"} /\ e \in Nat
    BY <1>0 DEF MayCall
  <2>3. late'[q].call = call /\ late'[q].epoch = e
    BY <1>0, <2>1
  <2>4. late' \in [Requests -> [call: {"none", "acquire", "renew", "finish"}, epoch: Nat]]
    BY <1>0, <2>1, <2>2
  <2>5. \A p \in Requests \ {q} : late'[p] = late[p]
    BY <1>0, <2>1
  <2> QED BY <1>1, <2>3, <2>4, <2>5
<1>3. CASE outcome # "late"
    BY <1>0, <1>1, <1>3 DEF Call
<1> QED BY <1>2, <1>3

\* A request that is not idle may renew and finish with the present epoch.
LEMMA OwnCalls ==
    ASSUME IInv, NEW q \in Requests, session[q].pc # "idle"
    PROVE  /\ \A call \in {"renew", "finish"} : MayCall(q, call, epoch)
           /\ session[q].pc = "arrived" => MayCall(q, "acquire", session[q].epoch)
           /\ session[q].epoch \in 1 .. epoch
<1>1. /\ session[q].epoch \in Nat /\ epoch \in Nat /\ epoch > 0 /\ session[q].epoch <= epoch
      /\ session[q].epoch > 0
    BY DEF IInv, TypeOK, EpochsAreRead
<1> QED BY <1>1 DEF MayCall, IInv, IssuedOnce

SessionType == [pc: Sessions, epoch: Nat, rev: 1 .. Len(Limits), tries: 0 .. Tries]

LEMMA SessionFields ==
    ASSUME Hypotheses, IInv, NEW q \in Requests
    PROVE  /\ session[q] \in SessionType
           /\ \A pc \in Sessions : [session[q] EXCEPT !.pc = pc] \in SessionType
           /\ \A n \in 0 .. Tries : [session[q] EXCEPT !.tries = n] \in SessionType
           /\ late[q] \in [call: {"none", "acquire", "renew", "finish"}, epoch: Nat]
           /\ \A s \in SessionType :
                /\ [session EXCEPT ![q] = s] \in [Requests -> SessionType]
                /\ [session EXCEPT ![q] = s][q] = s
                /\ \A p \in Requests \ {q} : [session EXCEPT ![q] = s][p] = session[p]
    BY DEF IInv, TypeOK, SessionType

\* A request moves on without a call.
LEMMA MovesQuietly ==
    ASSUME Hypotheses, IInv, NEW q \in Requests, NEW s \in SessionType,
           session' = [session EXCEPT ![q] = s], s.pc # "idle", s.epoch \in 1 .. epoch,
           s.pc = "arrived" => session[q].pc = "idle",
           s.pc # "done" => s.tries < Tries,
           UNCHANGED <<redis, marker, epoch, rev, gate, late>>
    PROVE  IInv' /\ Pooled
<1>1. /\ session' \in [Requests -> SessionType] /\ session'[q] = s
      /\ \A p \in Requests \ {q} : session'[p] = session[p]
    BY SessionFields
<1>2. /\ late' \in [Requests -> [call: {"none", "acquire", "renew", "finish"}, epoch: Nat]]
      /\ \A p \in Requests \ {q} : late'[p] = late[p]
      /\ late'[q] = late[q]
    BY DEF IInv, TypeOK
<1>3. RunKeeps(q)
    BY RedisRests
<1> QED BY <1>1, <1>2, <1>3, RequestSteps DEF SessionType

\* A request calls, and then stands where s says.
LEMMA MovesCalling ==
    ASSUME Hypotheses, IInv, NEW q \in Requests, NEW s \in SessionType, NEW call, NEW e,
           NEW outcome \in Outcomes, MayCall(q, call, e), Call(q, call, e, outcome),
           session' = [session EXCEPT ![q] = s], s.pc # "idle", s.epoch \in 1 .. epoch,
           s.pc = "arrived" => session[q].pc = "arrived" /\ s.epoch = session[q].epoch,
           s.pc # "done" => s.tries < Tries,
           UNCHANGED <<marker, epoch, rev, gate>>
    PROVE  IInv' /\ Pooled
<1>1. /\ session' \in [Requests -> SessionType] /\ session'[q] = s
      /\ \A p \in Requests \ {q} : session'[p] = session[p]
    BY SessionFields
<1>2. /\ RunKeeps(q)
      /\ late' \in [Requests -> [call: {"none", "acquire", "renew", "finish"}, epoch: Nat]]
      /\ \A p \in Requests \ {q} : late'[p] = late[p]
      /\ late'[q] = late[q] \/ MayCall(q, late'[q].call, late'[q].epoch)
    BY CallKeeps
<1> QED BY <1>1, <1>2, RequestSteps DEF SessionType

LEMMA EnterSession ==
    ASSUME Hypotheses, IInv, NEW q \in Requests, NEW pc \in Sessions, Enter(q, pc)
    PROVE  \E s \in SessionType :
             /\ session' = [session EXCEPT ![q] = s] /\ s.pc = pc
             /\ s.epoch = session[q].epoch /\ s.tries = session[q].tries
<1> DEFINE s == [session[q] EXCEPT !.pc = pc]
<1>1. s \in SessionType /\ session[q] \in SessionType
    BY SessionFields
<1>2. s.pc = pc /\ s.epoch = session[q].epoch /\ s.tries = session[q].tries
    BY <1>1 DEF SessionType
<1>3. session' = [session EXCEPT ![q] = s]
    BY DEF Enter
<1> QED BY <1>1, <1>2, <1>3

LEMMA ArriveKeeps ==
    ASSUME Hypotheses, IInv, NEW q \in Requests, Arrive(q) PROVE IInv' /\ Pooled
<1> DEFINE a == [session[q] EXCEPT !.pc = "arrived"]
           b == [a EXCEPT !.epoch = epoch]
           s == [b EXCEPT !.rev = rev]
<1>1. /\ session[q].pc = "idle" /\ UNCHANGED <<redis, marker, epoch, rev, gate, late>>
      /\ session' = [session EXCEPT ![q].pc = "arrived", ![q].epoch = epoch, ![q].rev = rev]
    BY DEF Arrive
<1>2. session[q] \in SessionType /\ epoch \in Nat /\ epoch > 0 /\ rev \in 1 .. Len(Limits)
    BY SessionFields DEF IInv, EpochsAreRead, TypeOK
<1>3. session' = [session EXCEPT ![q] = s]
    BY <1>1, <1>2 DEF SessionType
<1>4. s \in SessionType /\ s.pc = "arrived" /\ s.epoch = epoch /\ s.tries = session[q].tries
    BY <1>2 DEF SessionType, Sessions
<1> HIDE DEF s
<1>5. s.epoch \in 1 .. epoch /\ s.tries < Tries
    BY <1>1, <1>2, <1>4 DEF IInv, TriesAreLeft
<1> QED BY <1>1, <1>3, <1>4, <1>5, MovesQuietly

LEMMA AcquireStepKeeps ==
    ASSUME Hypotheses, IInv, NEW q \in Requests, NEW outcome \in Outcomes, NEW again \in BOOLEAN,
           Acquire(q, outcome, again)
    PROVE  IInv' /\ Pooled
<1>1. /\ session[q].pc = "arrived" /\ Call(q, "acquire", session[q].epoch, outcome)
      /\ UNCHANGED <<marker, epoch, rev, gate>>
    BY DEF Acquire
<1>2. PICK pc \in {"serving", "done", "arrived"} : Enter(q, pc)
    BY DEF Acquire
<1>3. PICK s \in SessionType :
        /\ session' = [session EXCEPT ![q] = s] /\ s.pc = pc
        /\ s.epoch = session[q].epoch /\ s.tries = session[q].tries
    BY <1>2, EnterSession DEF Sessions
<1>4. /\ MayCall(q, "acquire", session[q].epoch) /\ session[q].epoch \in 1 .. epoch
      /\ s.tries < Tries
    BY <1>1, <1>3, OwnCalls DEF IInv, TriesAreLeft
<1> QED BY <1>1, <1>3, <1>4, MovesCalling

LEMMA RenewStepKeeps ==
    ASSUME Hypotheses, IInv, NEW q \in Requests, NEW outcome \in Outcomes, Renew(q, outcome)
    PROVE  IInv' /\ Pooled
<1>1. /\ session[q].pc = "serving" /\ Call(q, "renew", epoch, outcome)
      /\ UNCHANGED <<marker, epoch, rev, gate, session>>
    BY DEF Renew
<1>2. session[q] \in SessionType /\ session' = [session EXCEPT ![q] = session[q]]
    BY <1>1, SessionFields DEF IInv, TypeOK
<1>3. /\ MayCall(q, "renew", epoch) /\ session[q].epoch \in 1 .. epoch
      /\ session[q].tries < Tries
    BY <1>1, OwnCalls DEF IInv, TriesAreLeft
<1> QED BY <1>1, <1>2, <1>3, MovesCalling

LEMMA FinalizeKeeps ==
    ASSUME Hypotheses, IInv, NEW q \in Requests, NEW outcome \in Outcomes, Finalize(q, outcome)
    PROVE  IInv' /\ Pooled
<1> DEFINE pc == IF outcome = "answered" \/ session[q].tries + 1 = Tries THEN "done"
                 ELSE session[q].pc
           a == [session[q] EXCEPT !.tries = session[q].tries + 1]
           s == [a EXCEPT !.pc = pc]
<1>1. /\ session[q].pc = "finalizing" /\ Call(q, "finish", epoch, outcome)
      /\ UNCHANGED <<marker, epoch, rev, gate>>
      /\ session' = [session EXCEPT ![q].tries = @ + 1,
            ![q].pc = IF outcome = "answered" \/ session[q].tries + 1 = Tries THEN "done" ELSE @]
    BY DEF Finalize
<1>2. session[q] \in SessionType /\ session[q].tries < Tries /\ Tries \in Nat
    BY <1>1, SessionFields DEF IInv, TriesAreLeft, Hypotheses, AdmissionAssumption
<1>3. pc \in {"done", "finalizing"} /\ pc \in Sessions /\ session[q].tries + 1 \in 0 .. Tries
    BY <1>1, <1>2 DEF Sessions, SessionType
<1>4. session' = [session EXCEPT ![q] = s]
    BY <1>1, <1>2 DEF SessionType
<1>5. pc # "done" => session[q].tries + 1 < Tries
    BY <1>2 DEF SessionType
<1> HIDE DEF pc
<1>6. a \in SessionType /\ a.tries = session[q].tries + 1 /\ a.epoch = session[q].epoch
    BY <1>2, <1>3, SessionFields DEF SessionType
<1> HIDE DEF a
<1>7. s \in SessionType /\ s.pc = pc /\ s.tries = a.tries /\ s.epoch = a.epoch
    BY <1>3, <1>6 DEF SessionType
<1> HIDE DEF s
<1>8. MayCall(q, "finish", epoch) /\ session[q].epoch \in 1 .. epoch
    BY <1>1, OwnCalls
<1>9. /\ s.pc # "idle" /\ s.pc # "arrived" /\ s.epoch \in 1 .. epoch
      /\ s.pc # "done" => s.tries < Tries
    BY <1>3, <1>5, <1>6, <1>7, <1>8
<1> QED BY <1>1, <1>4, <1>7, <1>8, <1>9, MovesCalling

LEMMA StopRenewerKeeps ==
    ASSUME Hypotheses, IInv, NEW q \in Requests, StopRenewer(q) PROVE IInv' /\ Pooled
<1>1. /\ session[q].pc = "serving" /\ Enter(q, "finalizing")
      /\ UNCHANGED <<redis, marker, epoch, rev, gate, late>>
    BY DEF StopRenewer
<1>2. PICK s \in SessionType :
        /\ session' = [session EXCEPT ![q] = s] /\ s.pc = "finalizing"
        /\ s.epoch = session[q].epoch /\ s.tries = session[q].tries
    BY <1>1, EnterSession DEF Sessions
<1>3. s.epoch \in 1 .. epoch /\ s.tries < Tries
    BY <1>1, <1>2, OwnCalls DEF IInv, TriesAreLeft
<1> QED BY <1>1, <1>2, <1>3, MovesQuietly

LEMMA CrashKeeps ==
    ASSUME Hypotheses, IInv, NEW q \in Requests, Crash(q) PROVE IInv' /\ Pooled
<1>1. /\ session[q].pc \in {"arrived", "serving", "finalizing"} /\ Enter(q, "done")
      /\ UNCHANGED <<redis, marker, epoch, rev, gate, late>>
    BY DEF Crash
<1>2. PICK s \in SessionType :
        /\ session' = [session EXCEPT ![q] = s] /\ s.pc = "done" /\ s.epoch = session[q].epoch
    BY <1>1, EnterSession DEF Sessions
<1>3. s.epoch \in 1 .. epoch
    BY <1>1, <1>2, OwnCalls
<1> QED BY <1>1, <1>2, <1>3, MovesQuietly

LEMMA RunLateKeeps ==
    ASSUME Hypotheses, IInv, NEW q \in Requests, RunLate(q) PROVE IInv' /\ Pooled
<1>1. /\ late[q] # NoCall /\ Run(q, late[q].call, late[q].epoch)
      /\ late' = [late EXCEPT ![q] = NoCall] /\ UNCHANGED <<marker, epoch, rev, gate>>
      /\ session' = session
    BY DEF RunLate
<1>2. late \in [Requests -> [call: {"none", "acquire", "renew", "finish"}, epoch: Nat]]
    BY DEF IInv, TypeOK
<1>3. MayCall(q, late[q].call, late[q].epoch) /\ session[q].pc # "idle"
    BY <1>1, <1>2 DEF MayCall, IInv, EpochsAreRead, IssuedOnce
<1>4. RunKeeps(q)
    BY <1>1, <1>3, AnyRunKeeps
<1>5. /\ late' \in [Requests -> [call: {"none", "acquire", "renew", "finish"}, epoch: Nat]]
      /\ late'[q] = NoCall /\ \A p \in Requests \ {q} : late'[p] = late[p]
    BY <1>1, <1>2 DEF NoCall
<1>6. /\ session' \in [Requests -> SessionType] /\ session'[q].epoch \in 1 .. epoch
      /\ session'[q].pc # "done" => session'[q].tries < Tries
    BY <1>1, <1>3, OwnCalls DEF IInv, TypeOK, SessionType, TriesAreLeft
<1> QED BY <1>1, <1>3, <1>4, <1>5, <1>6, RequestSteps DEF SessionType

LEMMA TokenExpiresKeeps ==
    ASSUME Hypotheses, IInv, NEW q \in Requests, TokenExpires(q) PROVE IInv' /\ Pooled
<1>1. /\ token[q].status = "finished" \/ slot[q] = 0
      /\ session[q].pc = "done" /\ late[q] = NoCall /\ token' = [token EXCEPT ![q] = NoToken]
      /\ slot' = slot /\ count' = count /\ issued' = issued /\ marker' = marker /\ epoch' = epoch
      /\ rev' = rev /\ gate' = gate /\ session' = session /\ late' = late
    BY DEF TokenExpires
<1>2. /\ token \in [Requests -> [status: {"none", "active", "finished"}, epoch: Nat]]
      /\ slot \in [Requests -> 0 .. LeaseTTL]
    BY DEF IInv, TypeOK
<1>3. /\ token'[q] = NoToken /\ NoToken.status = "none" /\ NoToken.epoch = 0
      /\ \A p \in Requests \ {q} : token'[p] = token[p]
    BY <1>1, <1>2 DEF NoToken
<1>4. token' \in [Requests -> [status: {"none", "active", "finished"}, epoch: Nat]]
    BY <1>1, <1>2 DEF NoToken
<1>5. TypeOK'
    BY <1>1, <1>4 DEF IInv, TypeOK
<1>6. ~(slot[q] > 0)
    BY <1>1, <1>2 DEF IInv, SlotHasItsToken
<1>7. SlotHasItsToken' /\ RatesHold' /\ TriesAreLeft'
    BY <1>1, <1>3, <1>6 DEF IInv, SlotHasItsToken, RatesHold, TriesAreLeft
<1>8. EpochsAreRead'
    BY <1>1, <1>3 DEF IInv, EpochsAreRead
<1>9. IssuedOnce'
    BY <1>1, <1>3 DEF IInv, IssuedOnce, NoCall
<1>10. Pooled
    BY <1>1 DEF Pooled, Active
<1> QED BY <1>5, <1>7, <1>8, <1>9, <1>10 DEF IInv

\* Time and operators touch neither tokens nor sessions.
LEMMA OthersKeep ==
    ASSUME Hypotheses, IInv, UNCHANGED <<token, issued, marker, epoch, session, late>>,
           rev' \in 1 .. Len(Limits), gate' \in BOOLEAN,
           slot' \in [Requests -> 0 .. LeaseTTL], \A q \in Requests : slot'[q] > 0 => slot[q] > 0,
           count' \in [Windows -> Nat], \A w \in Windows : count'[w] <= count[w]
    PROVE  IInv' /\ Pooled
<1>1. TypeOK'
    BY DEF IInv, TypeOK
<1>2. SlotHasItsToken'
    BY DEF IInv, SlotHasItsToken
<1>3. RatesHold'
  <2>1. IsFiniteSet(issued)
    BY FS_Subset DEF IInv, IssuedOnce, Hypotheses
  <2>2. Cardinality(issued) \in Nat /\ count \in [Windows -> Nat] /\ RateLimit \in [Windows -> Nat]
    BY <2>1, FS_CardinalityType DEF IInv, TypeOK, Hypotheses, AdmissionAssumption
  <2>3. issued' = issued
    OBVIOUS
  <2> QED BY <2>2, <2>3 DEF IInv, RatesHold
<1>4. EpochsAreRead' /\ IssuedOnce' /\ TriesAreLeft'
    BY DEF IInv, EpochsAreRead, IssuedOnce, TriesAreLeft
<1>5. Pooled
    BY DEF Pooled, Active
<1> QED BY <1>1, <1>2, <1>3, <1>4, <1>5 DEF IInv

LEMMA LoseStateKeeps ==
    ASSUME Hypotheses, IInv, LoseState PROVE IInv' /\ Pooled
<1>1. /\ marker' = 0 /\ token' = [q \in Requests |-> NoToken] /\ slot' = [q \in Requests |-> 0]
      /\ count' = [w \in Windows |-> 0] /\ issued' = issued /\ epoch' = epoch /\ rev' = rev
      /\ gate' = gate /\ session' = session /\ late' = late
    BY DEF LoseState
<1>2. NoToken \in [status: {"none", "active", "finished"}, epoch: Nat] /\ NoToken.status = "none"
      /\ NoToken.epoch = 0
    BY DEF NoToken
<1>3. epoch \in Nat /\ LeaseTTL \in Nat
    BY DEF IInv, EpochsAreRead, Hypotheses, AdmissionAssumption
<1>4. TypeOK'
    BY <1>1, <1>2, <1>3 DEF IInv, TypeOK
<1>5. SlotHasItsToken' /\ TriesAreLeft'
    BY <1>1 DEF IInv, SlotHasItsToken, TriesAreLeft
<1>6. RatesHold'
  <2>1. IsFiniteSet(issued)
    BY FS_Subset DEF IInv, IssuedOnce, Hypotheses
  <2>2. Cardinality(issued) \in Nat /\ RateLimit \in [Windows -> Nat]
    BY <2>1, FS_CardinalityType DEF Hypotheses, AdmissionAssumption
  <2> QED BY <1>1, <2>2 DEF RatesHold
<1>7. EpochsAreRead' /\ IssuedOnce'
    BY <1>1, <1>2, <1>3 DEF IInv, EpochsAreRead, IssuedOnce
<1>8. Pooled
    BY <1>1 DEF Pooled, Active
<1> QED BY <1>4, <1>5, <1>6, <1>7, <1>8 DEF IInv

LEMMA RecoverKeeps ==
    ASSUME Hypotheses, IInv, Recover PROVE IInv' /\ Pooled
<1>1. /\ marker = 0 /\ epoch' = epoch + 1 /\ marker' = epoch + 1
      /\ token' = token /\ slot' = slot /\ count' = count /\ issued' = issued
      /\ rev' = rev /\ gate' = gate /\ session' = session /\ late' = late
    BY DEF Recover, redis
<1>2. epoch \in Nat
    BY DEF IInv, EpochsAreRead
<1>3. TypeOK'
    BY <1>1, <1>2 DEF IInv, TypeOK
<1>4. SlotHasItsToken'
  <2>1. ASSUME NEW q \in Requests, slot[q] > 0 PROVE FALSE
    <3>1. token[q] = [status |-> "active", epoch |-> 0]
      BY <1>1, <2>1 DEF IInv, SlotHasItsToken
    <3>2. token[q].status # "none" /\ token[q].epoch = 0
      BY <3>1
    <3> QED BY <3>2 DEF IInv, EpochsAreRead
  <2> QED BY <1>1, <2>1 DEF SlotHasItsToken
<1>5. RatesHold' /\ TriesAreLeft'
    BY <1>1 DEF IInv, RatesHold, TriesAreLeft
<1>6. \A q \in Requests : /\ session[q].epoch \in Nat /\ session[q].epoch <= epoch
                          /\ token[q].epoch \in Nat /\ token[q].epoch <= epoch
                          /\ late[q] # NoCall => late[q].epoch \in 1 .. epoch
                          /\ late[q].call = "acquire" => late[q] # NoCall
    BY DEF IInv, EpochsAreRead, TypeOK, NoCall
<1>7. EpochsAreRead'
    BY <1>1, <1>2, <1>6 DEF IInv, EpochsAreRead
<1>8. IssuedOnce'
    BY <1>1, <1>2, <1>6 DEF IInv, IssuedOnce
<1>9. Pooled
    BY <1>1 DEF Pooled, Active
<1> QED BY <1>3, <1>4, <1>5, <1>7, <1>8, <1>9 DEF IInv

LEMMA StepKeeps ==
    ASSUME Hypotheses, IInv, [Next]_vars PROVE IInv' /\ Pooled
<1>t. /\ slot \in [Requests -> 0 .. LeaseTTL] /\ count \in [Windows -> Nat]
      /\ rev \in 1 .. Len(Limits) /\ gate \in BOOLEAN
    BY DEF IInv, TypeOK
<1>1. ASSUME NEW q \in Requests, OwnerStep(q) PROVE IInv' /\ Pooled
    BY <1>1, ArriveKeeps, StopRenewerKeeps, CrashKeeps, AcquireStepKeeps, RenewStepKeeps,
       FinalizeKeeps DEF OwnerStep
<1>2. ASSUME NEW q \in Requests, RunLate(q) \/ TokenExpires(q) PROVE IInv' /\ Pooled
    BY <1>2, RunLateKeeps, TokenExpiresKeeps
<1>3. CASE Tick
  <2>1. /\ UNCHANGED <<token, issued, marker, epoch, session, late>>
        /\ count' = count /\ rev' = rev /\ gate' = gate
        /\ slot' = [q \in Requests |-> Less(slot[q])]
    BY <1>3 DEF Tick
  <2>2. \A n \in 0 .. LeaseTTL : Less(n) \in 0 .. LeaseTTL /\ (Less(n) > 0 => n > 0)
    BY DEF Less, Hypotheses, AdmissionAssumption
  <2>3. slot' \in [Requests -> 0 .. LeaseTTL] /\ \A q \in Requests : slot'[q] > 0 => slot[q] > 0
    BY <1>t, <2>1, <2>2
  <2>4. \A w \in Windows : count'[w] <= count[w]
    BY <1>t, <2>1
  <2> QED BY <1>t, <2>1, <2>3, <2>4, OthersKeep
<1>4. ASSUME NEW w \in Windows, WindowTurns(w) PROVE IInv' /\ Pooled
  <2>1. /\ UNCHANGED <<token, issued, marker, epoch, session, late>>
        /\ slot' = slot /\ rev' = rev /\ gate' = gate /\ count' = [count EXCEPT ![w] = 0]
    BY <1>4 DEF WindowTurns
  <2>2. count' \in [Windows -> Nat] /\ \A v \in Windows : count'[v] <= count[v]
    BY <1>t, <2>1
  <2> QED BY <1>t, <2>1, <2>2, OthersKeep
<1>5. CASE PublishSettings \/ Latch \/ UNCHANGED vars
  <2>1. /\ UNCHANGED <<token, issued, marker, epoch, session, late>> /\ slot' = slot /\ count' = count
    BY <1>5 DEF PublishSettings, Latch, vars, redis
  <2>2. rev' \in 1 .. Len(Limits) /\ gate' \in BOOLEAN
    <3>1. Len(Limits) \in Nat
      BY DEF Hypotheses, AdmissionAssumption
    <3>2. CASE PublishSettings
      BY <1>t, <3>1, <3>2 DEF PublishSettings
    <3>3. CASE Latch \/ UNCHANGED vars
      BY <1>t, <3>3 DEF Latch, vars
    <3> QED BY <1>5, <3>2, <3>3
  <2>3. \A w \in Windows : count'[w] <= count[w]
    BY <1>t, <2>1
  <2> QED BY <1>t, <2>1, <2>2, <2>3, OthersKeep
<1>6. CASE LoseState \/ Recover
    BY <1>6, LoseStateKeeps, RecoverKeeps
<1> QED BY <1>1, <1>2, <1>3, <1>4, <1>5, <1>6 DEF Next

-----------------------------------------------------------------------------
(* The invariant and what follows from it.                                 *)

LEMMA InitHolds ==
    ASSUME Hypotheses, Init PROVE IInv
<1>0. /\ LeaseTTL \in Nat /\ Tries \in Nat /\ Tries > 0 /\ Len(Limits) \in Nat /\ Len(Limits) > 0
      /\ RateLimit \in [Windows -> Nat]
    BY DEF Hypotheses, AdmissionAssumption
<1>1. TypeOK
  <2>1. 1 \in 1 .. Len(Limits) /\ 0 \in 0 .. Tries /\ 0 \in 0 .. LeaseTTL
    BY <1>0
  <2> QED BY <2>1 DEF Init, TypeOK, NoToken, NoCall, Sessions
<1>2. SlotHasItsToken /\ TriesAreLeft
    BY <1>0 DEF Init, SlotHasItsToken, TriesAreLeft
<1>3. RatesHold
  <2>1. Cardinality(issued) = 0
    BY FS_EmptySet DEF Init
  <2> QED BY <1>0, <2>1 DEF Init, RatesHold
<1>4. EpochsAreRead /\ IssuedOnce
    BY DEF Init, EpochsAreRead, IssuedOnce, NoToken
<1> QED BY <1>1, <1>2, <1>3, <1>4 DEF IInv

\* The inductive invariant of the admission of a route's user.
THEOREM InvariantHolds ==
    ASSUME Hypotheses PROVE Spec => []IInv
<1>1. Init => IInv
    BY InitHolds
<1>2. IInv /\ [Next]_vars => IInv'
    BY StepKeeps
<1> QED BY <1>1, <1>2, PTL DEF Spec

\* A slot belongs to a live token of the present epoch: no renewal that Redis
\* runs after the request was finished, and no admission it runs after its
\* state was lost, occupies one.
THEOREM SlotHasItsTokenTheorem ==
    ASSUME Hypotheses PROVE Spec => []SlotHasItsToken
<1>1. IInv => SlotHasItsToken
    BY DEF IInv
<1> QED BY <1>1, InvariantHolds, PTL

\* Every rate window stays within its limit and counts a request at most once,
\* although the client sends the script again when the answer is lost.
THEOREM RatesHoldTheorem ==
    ASSUME Hypotheses PROVE Spec => []RatesHold
<1>1. IInv => RatesHold
    BY DEF IInv
<1> QED BY <1>1, InvariantHolds, PTL

\* The pool counts what the admission counts.
LEMMA SameCardinality == ASSUME NEW S PROVE Pool!Cardinality(S) = Cardinality(S)
    BY DEF Pool!Cardinality, Cardinality

\* The concurrency set implements a pool of leased tickets: a request takes a
\* slot once, within the largest limit, and not a second one by renewing a
\* lease that had lapsed.
THEOREM RouteUserIsLeasePoolTheorem ==
    ASSUME Hypotheses PROVE Spec => RouteUserIsLeasePool
<1> DEFINE Out == [k \in {"route-user"} |-> Active]
<1>1. Init => Pool!PoolInit
  <2> SUFFICES ASSUME Init PROVE Out = [k \in {"route-user"} |-> {}] /\ issued = {}
    BY DEF Pool!PoolInit
  <2>1. Active = {}
    BY DEF Init, Active
  <2> QED BY <2>1 DEF Init
<1>2. IInv /\ [Next]_vars => [Pool!PoolNext]_(Pool!poolVars)
  <2> SUFFICES ASSUME IInv, [Next]_vars PROVE Pool!PoolNext
    OBVIOUS
  <2>1. Out["route-user"] = Active /\ Out'["route-user"] = Active'
    OBVIOUS
  <2>2. CASE Active' \subseteq Active /\ issued' = issued
    <3>1. \A k \in {"route-user"} : Out'[k] \subseteq Out[k]
      BY <2>2
    <3>2. Out' = [k \in {"route-user"} |-> Out'[k]]
      OBVIOUS
    <3>3. Pool!GiveBack
      BY <2>2, <3>1, <3>2 DEF Pool!GiveBack
    <3> QED BY <3>3 DEF Pool!PoolNext
  <2>3. ASSUME NEW q \in Requests, q \notin issued, issued' = issued \cup {q},
               Cardinality(Active) < LargestLimit, Active' = Active \cup {q}
        PROVE  Pool!PoolNext
    <3>1. Out' = [Out EXCEPT !["route-user"] = @ \cup {q}]
      BY <2>3
    <3>2. Pool!Cardinality(Out["route-user"]) < LargestLimit
      BY <2>1, <2>3, SameCardinality
    <3>3. Pool!Take("route-user", q)
      BY <2>3, <3>1, <3>2 DEF Pool!Take
    <3> QED BY <3>3 DEF Pool!PoolNext
  <2> HIDE DEF Out
  <2> QED BY <2>2, <2>3, StepKeeps DEF Pooled
<1> QED BY <1>1, <1>2, InvariantHolds, PTL DEF Spec, RouteUserIsLeasePool, Pool!PoolSpec
=============================================================================
