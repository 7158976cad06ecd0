-------------------------- MODULE RedisQualityProofs --------------------------
(***************************************************************************)
(* Proofs about RedisQuality, for every number of pods, requests, versions *)
(* and steps.                                                              *)
(***************************************************************************)
EXTENDS RedisQuality, TLAPS

-----------------------------------------------------------------------------
(***************************************************************************)
(* The inductive invariant.                                                *)
(***************************************************************************)

\* A request claims steps of forecasts that are stored; what it has won, and what
\* is counted, has been claimed.
ClaimsInv ==
  /\ \A r \in Requests : \A c \in pending[r] : forecast[c[1]] # None
  /\ \A r \in Requests : \A c \in won[r] : c[2] \in scored[c[1]]
  /\ \A c \in counted : c[2] \in scored[c[1]]

IInv == TypeOK /\ ClaimsInv /\ OwnWindows /\ CountedOnce

\* What the invariant says of Redis and the claims.
Shared == ClaimsInv /\ OwnWindows /\ CountedOnce

\* Pairs and their parts.
LEMMA PairParts ==
  ASSUME NEW c \in Pairs
  PROVE  c[1] \in Instants /\ c[2] \in Horizon /\ c = <<c[1], c[2]>>
BY DEF Pairs

\* The windows after a push.
LEMMA PushedWindow ==
  ASSUME NEW w \in Seq(Instants), Len(w) <= RollingWindow, NEW i \in Instants
  PROVE  /\ Pushed(w, i) \in Seq(Instants)
         /\ Len(Pushed(w, i)) <= RollingWindow
         /\ Len(Pushed(w, i)) \in Nat
         /\ Len(Pushed(w, i)) >= 1
         /\ Head(Pushed(w, i)) = i
         /\ \A a \in DOMAIN Pushed(w, i) :
              Pushed(w, i)[a] = i \/ \E b \in DOMAIN w : Pushed(w, i)[a] = w[b]
<1>1. RollingWindow \in Nat \ {0} /\ Len(w) \in Nat
  BY ConstantsAssumption
<1> DEFINE rest == IF Len(w) < RollingWindow THEN w ELSE SubSeq(w, 1, RollingWindow - 1)
<1>2. /\ rest \in Seq(Instants)
      /\ Len(rest) \in Nat
      /\ Len(rest) <= RollingWindow - 1
      /\ \A a \in 1..Len(rest) : rest[a] = w[a] /\ a \in DOMAIN w
  <2>1. CASE Len(w) < RollingWindow
    BY <1>1, <2>1
  <2>2. CASE ~(Len(w) < RollingWindow)
    <3>1. RollingWindow - 1 \in Nat /\ RollingWindow - 1 <= Len(w)
      BY <1>1, <2>2
    <3>2. rest = SubSeq(w, 1, RollingWindow - 1)
      BY <2>2
    <3>3. rest \in Seq(Instants) /\ Len(rest) = RollingWindow - 1
      BY <3>1, <3>2, <1>1
    <3>4. \A a \in 1..(RollingWindow - 1) : rest[a] = w[a] /\ a \in 1..Len(w)
      BY <3>1, <3>2, <1>1
    <3> QED
      BY <1>1, <3>3, <3>4
  <2> QED
    BY <2>1, <2>2
<1> HIDE DEF rest
<1>3. Pushed(w, i) = <<i>> \o rest
  BY DEF Pushed, rest
<1>4. /\ <<i>> \o rest \in Seq(Instants)
      /\ Len(<<i>> \o rest) = 1 + Len(rest)
      /\ (<<i>> \o rest)[1] = i
      /\ \A a \in 2..(1 + Len(rest)) : (<<i>> \o rest)[a] = rest[a - 1]
  BY <1>2
<1>5. \A a \in 1..(1 + Len(rest)) : a = 1 \/ (a \in 2..(1 + Len(rest)) /\ a - 1 \in 1..Len(rest))
  BY <1>2
<1>6. Head(<<i>> \o rest) = i
  BY <1>2, <1>4
<1>7. DOMAIN (<<i>> \o rest) = 1..(1 + Len(rest))
  BY <1>2, <1>4
<1>8. \A a \in 1..(1 + Len(rest)) :
        (<<i>> \o rest)[a] = i \/ \E b \in DOMAIN w : (<<i>> \o rest)[a] = w[b]
  <2> SUFFICES ASSUME NEW a \in 1..(1 + Len(rest)), a # 1
               PROVE  \E b \in DOMAIN w : (<<i>> \o rest)[a] = w[b]
    BY <1>4
  <2>1. a \in 2..(1 + Len(rest)) /\ a - 1 \in 1..Len(rest)
    BY <1>5
  <2>2. (<<i>> \o rest)[a] = w[a - 1] /\ a - 1 \in DOMAIN w
    BY <1>2, <1>4, <2>1
  <2> QED
    BY <2>2
<1>9. Len(<<i>> \o rest) \in Nat /\ 1 <= Len(<<i>> \o rest) /\ Len(<<i>> \o rest) <= RollingWindow
  BY <1>1, <1>2, <1>4
<1> HIDE DEF rest
<1> QED
  BY <1>3, <1>4, <1>6, <1>7, <1>8, <1>9

\* The first state satisfies the invariant.
LEMMA InitInv == Init => IInv
<1> SUFFICES ASSUME Init PROVE IInv
  OBVIOUS
<1>1. 0 \in Instants
  BY ConstantsAssumption DEF Instants
<1>2. TypeOK
  <2>1. forecast \in [Instants -> Versions \cup {None}] /\ scored \in [Instants -> SUBSET Horizon]
    BY DEF Init
  <2>2. /\ errors \in [Versions -> [Horizon -> Seq(Instants)]]
        /\ \A v \in Versions, k \in Horizon : errors[v][k] = <<>>
    BY DEF Init
  <2>3. \A v \in Versions, k \in Horizon : Len(errors[v][k]) <= RollingWindow
    BY <2>2, ConstantsAssumption
  <2>4. /\ serving \in [Pods -> Versions]
        /\ current \in [Pods -> Versions \cup {None}]
        /\ gauge \in [Pods -> [Horizon -> Versions \cup {None}]]
    BY DEF Init, Nowhere
  <2>5. swapping \in [Pods -> BOOLEAN] /\ paused \in [Pods -> BOOLEAN]
    BY Zenon DEF Init
  <2>6. /\ now \in Instants
        /\ counted \subseteq Pairs
        /\ pc \in [Requests -> Labels]
        /\ version \in [Requests -> Versions \cup {None}]
        /\ end \in [Requests -> Instants]
        /\ pending \in [Requests -> SUBSET Pairs]
        /\ won \in [Requests -> SUBSET Pairs]
        /\ shows \in [Requests -> [Horizon -> Versions \cup {None}]]
    BY <1>1 DEF Init, Labels, Nowhere
  <2> QED
    BY <2>1, <2>2, <2>3, <2>4, <2>5, <2>6 DEF TypeOK
<1>3. OwnWindows
  <2>1. \A v \in Versions, k \in Horizon : errors[v][k] = <<>>
    BY DEF Init
  <2> QED
    BY <2>1 DEF OwnWindows
<1>4. ClaimsInv /\ CountedOnce
  BY DEF Init, ClaimsInv, CountedOnce
<1> QED
  BY <1>2, <1>3, <1>4 DEF IInv

\* Requests that lose claims and Redis at rest keep it.
LEMMA Losing ==
  ASSUME IInv, UNCHANGED <<redis, counted>>,
         \A r \in Requests : pending'[r] \subseteq pending[r] /\ won'[r] \subseteq won[r]
  PROVE  Shared'
<1>1. ClaimsInv'
  BY DEF IInv, ClaimsInv, redis
<1>2. OwnWindows'
  BY DEF IInv, OwnWindows, redis
<1>3. CountedOnce'
  BY DEF IInv, CountedOnce
<1> QED
  BY <1>1, <1>2, <1>3 DEF Shared

\* What is left of a request that is done.
LEMMA DoneLeaves ==
  ASSUME TypeOK, NEW r \in Requests, Done(r)
  PROVE  /\ pc' \in [Requests -> Labels]
         /\ version' \in [Requests -> Versions \cup {None}]
         /\ end' \in [Requests -> Instants]
         /\ pending' \in [Requests -> SUBSET Pairs]
         /\ won' \in [Requests -> SUBSET Pairs]
         /\ shows' \in [Requests -> [Horizon -> Versions \cup {None}]]
         /\ pending'[r] = {} /\ won'[r] = {}
         /\ \A s \in Requests \ {r} : pending'[s] = pending[s] /\ won'[s] = won[s]
<1>1. 0 \in Instants
  BY ConstantsAssumption DEF Instants
<1> QED
  BY <1>1 DEF TypeOK, Done, GoTo, Labels, Nowhere

\* One run of the claim script.
LEMMA ClaimKeeps ==
  ASSUME IInv, NEW r \in Requests, Claim(r)
  PROVE  IInv'
<1>1. PICK c \in pending[r] :
        /\ pending' = [pending EXCEPT ![r] = @ \ {c}]
        /\ IF c[2] \in scored[c[1]]
             THEN UNCHANGED <<scored, errors, won>>
             ELSE /\ scored' = [scored EXCEPT ![c[1]] = @ \cup {c[2]}]
                  /\ errors' = [errors EXCEPT ![forecast[c[1]]][c[2]] = Pushed(@, c[1])]
                  /\ won' = [won EXCEPT ![r] = @ \cup {c}]
  BY DEF Claim
<1>2. UNCHANGED <<forecast, now, pod, counted, pc, version, end, shows>>
  BY DEF Claim
<1>3. c \in Pairs /\ c[1] \in Instants /\ c[2] \in Horizon /\ forecast[c[1]] \in Versions
  BY PairParts DEF IInv, TypeOK, ClaimsInv
<1>4. /\ pending' \in [Requests -> SUBSET Pairs]
      /\ \A s \in Requests : pending'[s] \subseteq pending[s]
  BY <1>1 DEF IInv, TypeOK
<1>5. CASE c[2] \in scored[c[1]]
  <2>1. UNCHANGED <<scored, errors, won>>
    BY <1>1, <1>5
  <2>2. TypeOK'
    BY <1>2, <1>4, <2>1 DEF IInv, TypeOK, pod
  <2>3. Shared'
    BY <1>2, <1>4, <2>1, Losing DEF redis
  <2> QED
    BY <2>2, <2>3 DEF IInv, Shared
<1>6. CASE c[2] \notin scored[c[1]]
  <2> DEFINE v == forecast[c[1]]
             w == errors[v][c[2]]
  <2>1. /\ scored' = [scored EXCEPT ![c[1]] = @ \cup {c[2]}]
        /\ errors' = [errors EXCEPT ![v][c[2]] = Pushed(@, c[1])]
        /\ won' = [won EXCEPT ![r] = @ \cup {c}]
    BY <1>1, <1>6
  <2>2. w \in Seq(Instants) /\ Len(w) <= RollingWindow
    BY <1>3 DEF IInv, TypeOK
  <2>3. /\ errors'[v][c[2]] = Pushed(w, c[1])
        /\ \A u \in Versions, k \in Horizon : ~(u = v /\ k = c[2]) => errors'[u][k] = errors[u][k]
    BY <1>3, <2>1 DEF IInv, TypeOK
  <2>4. /\ scored' \in [Instants -> SUBSET Horizon]
        /\ \A i \in Instants : scored[i] \subseteq scored'[i]
        /\ c[2] \in scored'[c[1]]
    BY <1>3, <2>1 DEF IInv, TypeOK
  <2>5. /\ won' \in [Requests -> SUBSET Pairs]
        /\ won'[r] = won[r] \cup {c}
        /\ \A s \in Requests \ {r} : won'[s] = won[s]
    BY <1>3, <2>1 DEF IInv, TypeOK
  <2>6. TypeOK'
    <3>1. Pushed(w, c[1]) \in Seq(Instants) /\ Len(Pushed(w, c[1])) <= RollingWindow
      BY <1>3, <2>2, PushedWindow
    <3>2. errors' \in [Versions -> [Horizon -> Seq(Instants)]]
      BY <1>3, <2>1, <3>1 DEF IInv, TypeOK
    <3>3. \A u \in Versions, k \in Horizon : Len(errors'[u][k]) <= RollingWindow
      BY <2>3, <3>1 DEF IInv, TypeOK
    <3> QED
      BY <1>2, <1>4, <2>4, <2>5, <3>2, <3>3 DEF IInv, TypeOK, pod
  <2>7. OwnWindows'
    <3> SUFFICES ASSUME NEW u \in Versions, NEW k \in Horizon, NEW a \in DOMAIN errors'[u][k]
                 PROVE  forecast[errors'[u][k][a]] = u
      BY <1>2 DEF OwnWindows
    <3>1. CASE u = v /\ k = c[2]
      <4>1. a \in DOMAIN Pushed(w, c[1]) /\ errors'[u][k][a] = Pushed(w, c[1])[a]
        BY <2>3, <3>1
      <4>2. Pushed(w, c[1])[a] = c[1] \/ \E b \in DOMAIN w : Pushed(w, c[1])[a] = w[b]
        BY <1>3, <2>2, <4>1, PushedWindow
      <4>3. \A b \in DOMAIN w : forecast[w[b]] = v
        BY <1>3 DEF IInv, OwnWindows
      <4> QED
        BY <3>1, <4>1, <4>2, <4>3
    <3>2. CASE ~(u = v /\ k = c[2])
      BY <2>3, <3>2 DEF IInv, OwnWindows
    <3> QED
      BY <3>1, <3>2
  <2>8. ClaimsInv'
    <3>1. \A s \in Requests : \A d \in pending'[s] : forecast'[d[1]] # None
      BY <1>2, <1>4 DEF IInv, ClaimsInv
    <3>2. \A s \in Requests : \A d \in won'[s] : d[2] \in scored'[d[1]]
      BY <2>4, <2>5, PairParts DEF IInv, TypeOK, ClaimsInv
    <3>3. \A d \in counted' : d[2] \in scored'[d[1]]
      BY <1>2, <2>4, PairParts DEF IInv, TypeOK, ClaimsInv
    <3> QED
      BY <3>1, <3>2, <3>3 DEF ClaimsInv
  <2>9. CountedOnce'
    <3>1. c \notin counted /\ \A s \in Requests : c \notin won[s]
      BY <1>6 DEF IInv, ClaimsInv
    <3> QED
      BY <1>2, <2>5, <3>1 DEF IInv, CountedOnce
  <2> QED
    BY <2>6, <2>7, <2>8, <2>9 DEF IInv
<1> QED
  BY <1>5, <1>6

\* Every step preserves the invariant.
LEMMA StepInv == IInv /\ [Next]_vars => IInv'
<1> SUFFICES ASSUME IInv, [Next]_vars PROVE IInv'
  OBVIOUS
<1>0. TypeOK
  BY DEF IInv
<1>1. ASSUME NEW p \in Pods, Swap(p) \/ Adopt(p) \/ Cool(p) PROVE IInv'
  <2>1. UNCHANGED <<redis, now, counted, request>>
    BY <1>1 DEF Swap, Adopt, Cool
  <2>2. swapping' \in [Pods -> BOOLEAN] /\ paused' \in [Pods -> BOOLEAN]
    BY <1>0, <1>1, Zenon DEF Swap, Adopt, Cool, TypeOK
  <2>3. /\ serving' \in [Pods -> Versions]
        /\ current' \in [Pods -> Versions \cup {None}]
        /\ gauge' \in [Pods -> [Horizon -> Versions \cup {None}]]
    <3>1. CASE Swap(p)
      BY <1>0, <3>1 DEF Swap, TypeOK, Nowhere
    <3>2. CASE Adopt(p)
      BY <1>0, <3>2 DEF Adopt, TypeOK
    <3>3. CASE Cool(p)
      BY <1>0, <3>3 DEF Cool, TypeOK
    <3> QED
      BY <1>1, <3>1, <3>2, <3>3
  <2>4. TypeOK'
    BY <1>0, <2>1, <2>2, <2>3 DEF TypeOK, redis, request
  <2>5. Shared'
    BY <2>1, Losing DEF request
  <2> QED
    BY <2>4, <2>5 DEF IInv, Shared
<1>2. ASSUME NEW p \in Pods, Restart(p) PROVE IInv'
  <2>1. UNCHANGED <<redis, now, counted>>
    BY <1>2 DEF Restart
  <2>2. swapping' \in [Pods -> BOOLEAN] /\ paused' \in [Pods -> BOOLEAN]
    BY <1>0, <1>2, Zenon DEF Restart, TypeOK
  <2>3. /\ serving' \in [Pods -> Versions]
        /\ current' \in [Pods -> Versions \cup {None}]
        /\ gauge' \in [Pods -> [Horizon -> Versions \cup {None}]]
    BY <1>0, <1>2 DEF Restart, TypeOK, Nowhere
  <2>4. 0 \in Instants
    BY ConstantsAssumption DEF Instants
  <2>5. /\ pc' \in [Requests -> Labels]
        /\ version' \in [Requests -> Versions \cup {None}]
        /\ end' \in [Requests -> Instants]
        /\ shows' \in [Requests -> [Horizon -> Versions \cup {None}]]
    BY <1>0, <1>2, <2>4 DEF Restart, TypeOK, Labels, Nowhere
  <2>6. /\ pending' \in [Requests -> SUBSET Pairs]
        /\ won' \in [Requests -> SUBSET Pairs]
        /\ \A r \in Requests : pending'[r] \subseteq pending[r] /\ won'[r] \subseteq won[r]
    BY <1>0, <1>2 DEF Restart, TypeOK
  <2>7. TypeOK'
    BY <1>0, <2>1, <2>2, <2>3, <2>5, <2>6 DEF TypeOK, redis
  <2>8. Shared'
    BY <2>1, <2>6, Losing
  <2> QED
    BY <2>7, <2>8 DEF IInv, Shared
<1>3. ASSUME NEW r \in Requests, Predict(r) PROVE IInv'
  <2>1. PodOf[r] \in Pods
    BY ConstantsAssumption
  <2>2. UNCHANGED <<redis, now, pod, counted, pending, won, shows>>
    BY <1>3 DEF Predict
  <2>3. /\ pc' \in [Requests -> Labels]
        /\ version' \in [Requests -> Versions \cup {None}]
        /\ end' \in [Requests -> Instants]
    BY <1>0, <1>3, <2>1 DEF Predict, GoTo, TypeOK, Labels
  <2>4. TypeOK'
    BY <1>0, <2>2, <2>3 DEF TypeOK, redis, pod
  <2>5. Shared'
    BY <2>2, Losing
  <2> QED
    BY <2>4, <2>5 DEF IInv, Shared
<1>4. ASSUME NEW r \in Requests, Skip(r) \/ Fail(r) PROVE IInv'
  <2>1. PodOf[r] \in Pods
    BY ConstantsAssumption
  <2>2. UNCHANGED <<redis, now, serving, swapping, gauge, counted>> /\ Done(r)
    BY <1>4 DEF Skip, Fail
  <2>3. current' \in [Pods -> Versions \cup {None}]
    BY <1>0, <1>4, <2>1 DEF Skip, Fail, AdoptFirst, TypeOK
  <2>4. paused' \in [Pods -> BOOLEAN]
    BY <1>0, <1>4, Zenon DEF Skip, Fail, TypeOK
  <2>5. TypeOK'
    BY <1>0, <2>2, <2>3, <2>4, DoneLeaves DEF TypeOK, redis
  <2>6. \A s \in Requests : pending'[s] \subseteq pending[s] /\ won'[s] \subseteq won[s]
    BY <1>0, <2>2, DoneLeaves
  <2>7. Shared'
    BY <2>2, <2>6, Losing
  <2> QED
    BY <2>5, <2>7 DEF IInv, Shared
<1>5. ASSUME NEW r \in Requests, FindClaims(r) PROVE IInv'
  <2>1. PodOf[r] \in Pods
    BY ConstantsAssumption
  <2>2. UNCHANGED <<redis, now, serving, swapping, paused, gauge, counted, version, end, won, shows>>
    BY <1>5 DEF FindClaims
  <2>3. pending' = [pending EXCEPT ![r] = {c \in Covered(end[r]) : c[2] \notin scored[c[1]]}]
    BY <1>5 DEF FindClaims
  <2>4. /\ pending' \in [Requests -> SUBSET Pairs]
        /\ \A c \in pending'[r] : forecast[c[1]] # None
        /\ \A s \in Requests \ {r} : pending'[s] = pending[s]
    BY <1>0, <2>3 DEF TypeOK, Covered
  <2>5. pc' \in [Requests -> Labels] /\ current' \in [Pods -> Versions \cup {None}]
    BY <1>0, <1>5, <2>1 DEF FindClaims, AdoptFirst, GoTo, TypeOK, Labels
  <2>6. TypeOK'
    BY <1>0, <2>2, <2>4, <2>5 DEF TypeOK, redis
  <2>7. ClaimsInv'
    BY <2>2, <2>4 DEF IInv, ClaimsInv, redis
  <2>8. OwnWindows' /\ CountedOnce'
    BY <2>2 DEF IInv, OwnWindows, CountedOnce, redis
  <2> QED
    BY <2>6, <2>7, <2>8 DEF IInv
<1>6. ASSUME NEW r \in Requests, Prepare(r) PROVE IInv'
  <2>1. PodOf[r] \in Pods
    BY ConstantsAssumption
  <2>2. UNCHANGED <<redis, now, pod, counted, version, end, pending, won>>
    BY <1>6 DEF Prepare
  <2>3. /\ pc' \in [Requests -> Labels]
        /\ shows' \in [Requests -> [Horizon -> Versions \cup {None}]]
    BY <1>0, <1>6, <2>1 DEF Prepare, GoTo, TypeOK, Labels
  <2>4. TypeOK'
    BY <1>0, <2>2, <2>3 DEF TypeOK, redis, pod
  <2>5. Shared'
    BY <2>2, Losing
  <2> QED
    BY <2>4, <2>5 DEF IInv, Shared
<1>7. ASSUME NEW r \in Requests, Store(r) PROVE IInv'
  <2>1. UNCHANGED <<scored, errors, now, pod, counted, pending, won, shows>>
    BY <1>7 DEF Store
  <2>2. 0 \in Instants
    BY ConstantsAssumption DEF Instants
  <2>3. /\ pc' \in [Requests -> Labels]
        /\ version' \in [Requests -> Versions \cup {None}]
        /\ end' \in [Requests -> Instants]
    BY <1>0, <1>7, <2>2 DEF Store, GoTo, TypeOK, Labels
  <2>4. /\ forecast' \in [Instants -> Versions \cup {None}]
        /\ \A i \in Instants : forecast[i] # None => forecast'[i] = forecast[i]
    BY <1>0, <1>7 DEF Store, TypeOK
  <2>5. TypeOK'
    BY <1>0, <2>1, <2>3, <2>4 DEF TypeOK, pod
  <2>6. OwnWindows'
    <3> SUFFICES ASSUME NEW v \in Versions, NEW k \in Horizon, NEW a \in DOMAIN errors[v][k]
                 PROVE  forecast'[errors[v][k][a]] = v
      BY <2>1 DEF OwnWindows
    <3>1. errors[v][k] \in Seq(Instants)
      BY <1>0 DEF TypeOK
    <3>2. errors[v][k][a] \in Instants
      BY <3>1
    <3>3. forecast[errors[v][k][a]] = v /\ v # None
      BY ConstantsAssumption DEF IInv, OwnWindows
    <3> QED
      BY <2>4, <3>2, <3>3
  <2>7. ClaimsInv'
    BY <1>0, <2>1, <2>4, PairParts DEF IInv, ClaimsInv, TypeOK
  <2>8. CountedOnce'
    BY <2>1 DEF IInv, CountedOnce
  <2> QED
    BY <2>5, <2>6, <2>7, <2>8 DEF IInv
<1>8. ASSUME NEW r \in Requests, Answered(r) PROVE IInv'
  <2>1. PodOf[r] \in Pods
    BY ConstantsAssumption
  <2>2. UNCHANGED <<redis, now, serving, swapping, current, paused>> /\ Done(r)
    BY <1>8 DEF Answered
  <2>3. counted' = counted \cup won[r] /\ counted' \subseteq Pairs
    BY <1>0, <1>8 DEF Answered, TypeOK
  <2>4. gauge' \in [Pods -> [Horizon -> Versions \cup {None}]]
    BY <1>0, <1>8, <2>1 DEF Answered, TypeOK
  <2>5. TypeOK'
    BY <1>0, <2>2, <2>3, <2>4, DoneLeaves DEF TypeOK, redis
  <2>6. /\ pending'[r] = {} /\ won'[r] = {}
        /\ \A s \in Requests \ {r} : pending'[s] = pending[s] /\ won'[s] = won[s]
    BY <1>0, <2>2, DoneLeaves
  <2>7. ClaimsInv'
    BY <2>2, <2>3, <2>6 DEF IInv, ClaimsInv, redis
  <2>8. OwnWindows'
    BY <2>2 DEF IInv, OwnWindows, redis
  <2>9. CountedOnce'
    BY <2>3, <2>6 DEF IInv, CountedOnce
  <2> QED
    BY <2>5, <2>7, <2>8, <2>9 DEF IInv
<1>9. ASSUME Tick PROVE IInv'
  <2>1. UNCHANGED <<redis, pod, counted, request>> /\ now' \in Instants
    BY <1>0, <1>9, ConstantsAssumption DEF Tick, TypeOK, Instants
  <2>2. TypeOK'
    BY <1>0, <2>1 DEF TypeOK, redis, pod, request
  <2>3. Shared'
    BY <2>1, Losing DEF request
  <2> QED
    BY <2>2, <2>3 DEF IInv, Shared
<1>10. ASSUME UNCHANGED vars PROVE IInv'
  <2>1. UNCHANGED <<redis, now, pod, counted, request>>
    BY <1>10 DEF vars
  <2>2. TypeOK'
    BY <1>0, <2>1 DEF TypeOK, redis, pod, request
  <2>3. Shared'
    BY <2>1, Losing DEF request
  <2> QED
    BY <2>2, <2>3 DEF IInv, Shared
<1> QED
  BY <1>1, <1>2, <1>3, <1>4, <1>5, <1>6, <1>7, <1>8, <1>9, <1>10, ClaimKeeps DEF Next, Serve

LEMMA Invariant == Spec => []IInv
BY InitInv, StepInv, PTL DEF Spec

-----------------------------------------------------------------------------
(***************************************************************************)
(* The theorems.                                                           *)
(***************************************************************************)

\* Type correctness; error windows never outgrow rolling_window_size.
THEOREM TypeCorrect == Spec => []TypeOK
<1>1. IInv => TypeOK
  BY DEF IInv
<1> QED
  BY <1>1, Invariant, PTL

\* Whatever the replicas serve, errors stay with the version that forecast.
THEOREM ErrorsAreAttributed == Spec => []OwnWindows
<1>1. IInv => OwnWindows
  BY DEF IInv
<1> QED
  BY <1>1, Invariant, PTL

\* No two requests, on whatever pods, count the same pair.
THEOREM PairsAreCountedOnce == Spec => []CountedOnce
<1>1. IInv => CountedOnce
  BY DEF IInv
<1> QED
  BY <1>1, Invariant, PTL

\* Only a pair that nobody had claimed enters a window.
THEOREM PairsAreScoredOnce == Spec => ScoredOnce
<1> DEFINE A == /\ \A v \in Versions, k \in Horizon :
                     errors'[v][k] # errors[v][k] => k \notin scored[Head(errors'[v][k])]
                /\ \A i \in Instants : scored[i] \subseteq scored'[i]
<1>1. ASSUME IInv, [Next]_vars, ~UNCHANGED <<scored, errors>> PROVE \E r \in Requests : Claim(r)
  BY <1>1 DEF Next, Serve, vars, redis, Swap, Adopt, Cool, Restart, Predict, Skip, FindClaims, Prepare,
     Store, Answered, Fail, Tick
<1>2. ASSUME IInv, NEW r \in Requests, Claim(r) PROVE A
  <2>1. PICK c \in pending[r] :
          IF c[2] \in scored[c[1]]
            THEN UNCHANGED <<scored, errors, won>>
            ELSE /\ scored' = [scored EXCEPT ![c[1]] = @ \cup {c[2]}]
                 /\ errors' = [errors EXCEPT ![forecast[c[1]]][c[2]] = Pushed(@, c[1])]
    BY <1>2 DEF Claim
  <2>2. c[1] \in Instants /\ c[2] \in Horizon /\ forecast[c[1]] \in Versions
    BY <1>2, PairParts DEF IInv, TypeOK, ClaimsInv
  <2>3. CASE c[2] \in scored[c[1]]
    BY <2>1, <2>3
  <2>4. CASE c[2] \notin scored[c[1]]
    <3> DEFINE w == errors[forecast[c[1]]][c[2]]
    <3>1. w \in Seq(Instants) /\ Len(w) <= RollingWindow
      BY <1>2, <2>2 DEF IInv, TypeOK
    <3>2. Head(Pushed(w, c[1])) = c[1]
      BY <2>2, <3>1, PushedWindow
    <3>3. /\ scored' = [scored EXCEPT ![c[1]] = @ \cup {c[2]}]
          /\ errors' = [errors EXCEPT ![forecast[c[1]]][c[2]] = Pushed(@, c[1])]
      BY <2>1, <2>4
    <3>4. /\ errors \in [Versions -> [Horizon -> Seq(Instants)]]
          /\ scored \in [Instants -> SUBSET Horizon]
      BY <1>2 DEF IInv, TypeOK
    <3>5. \A v \in Versions, k \in Horizon :
            \/ errors'[v][k] = errors[v][k]
            \/ k = c[2] /\ errors'[v][k] = Pushed(w, c[1])
      BY <2>2, <3>3, <3>4
    <3>6. \A i \in Instants : scored[i] \subseteq scored'[i]
      BY <2>2, <3>3, <3>4
    <3> HIDE DEF w
    <3> QED
      BY <2>4, <3>2, <3>5, <3>6
  <2> QED
    BY <2>3, <2>4
<1>3. ASSUME IInv, [Next]_vars PROVE [A]_vars
  <2>1. CASE UNCHANGED <<scored, errors>>
    BY <2>1
  <2>2. CASE ~UNCHANGED <<scored, errors>>
    BY <1>1, <1>2, <1>3, <2>2
  <2> QED
    BY <2>1, <2>2
<1> QED
  BY <1>3, Invariant, PTL DEF Spec, ScoredOnce

=============================================================================
