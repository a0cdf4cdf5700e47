------------------------- MODULE RetentionMapProofs -------------------------
(***************************************************************************)
(* Proofs about RetentionMap, for any numbers of requests, any period,     *)
(* interval and lag.                                                       *)
(***************************************************************************)
EXTENDS RetentionMapInv, TLAPS

USE KeyAssumption, TimeAssumption DEF Handlers

\* The handlers' program counters change one at a time.
LEMMA StepPc ==
  ASSUME TypeOK, NEW h \in Handlers, NEW v, pc' = [pc EXCEPT ![h] = v]
  PROVE  pc'[h] = v /\ \A g \in Handlers : g # h => pc'[g] = pc[g]
BY DEF TypeOK

LEMMA InitInv == Init => IInv
<1> SUFFICES ASSUME Init PROVE IInv
  OBVIOUS
<1>1. Interval \in Nat /\ Interval > 0
  OBVIOUS
<1>2. TypeOK
  BY DEF Init, TypeOK
<1>3. StageInv /\ SpentRefused
  BY DEF Init, StageInv, SpentRefused
<1>4. ClockInv /\ SweptInv
  BY <1>1 DEF Init, ClockInv, SweptInv, Fired
<1> QED
  BY <1>2, <1>3, <1>4 DEF IInv

-----------------------------------------------------------------------------
\* Steps that neither touch the map nor the clock keep the invariant when they
\* keep the handlers' stages.
LEMMA LoginKeeps ==
  ASSUME IInv, NEW l \in Logins, RefuseLogin(l) \/ NewOTP(l)
  PROVE  IInv'
<1> USE DEF IInv
<1>1. PICK v \in {"refused", "store"} : pc' = [pc EXCEPT ![l] = v]
  BY DEF RefuseLogin, NewOTP
<1>2. pc'[l] = v /\ \A g \in Handlers : g # l => pc'[g] = pc[g]
  BY <1>1, StepPc
<1>3. /\ pc[l] = "idle" /\ \A k \in Logins : k # l => created'[k] = created[k]
      /\ created' \in [Logins -> Nat] /\ created'[l] <= now
      /\ v = "store" => created'[l] = now
      /\ UNCHANGED <<rm, otp, sweeping, todo, tick, next, now, up>>
  BY <1>1, <1>2 DEF RefuseLogin, NewOTP, TypeOK, ClockInv
<1>4. TypeOK'
  BY <1>1, <1>3 DEF TypeOK
<1>5. l \notin rm
  BY <1>3 DEF StageInv, Issued
<1>6. StageInv'
  BY <1>2, <1>3 DEF StageInv, Issued, TypeOK
<1>7. ClockInv'
  BY <1>2, <1>3, <1>4 DEF ClockInv, Fired, TypeOK
<1>8. SweptInv'
  BY <1>3, <1>5 DEF SweptInv, Fired, TypeOK
<1>9. SpentRefused'
  BY <1>2, <1>3 DEF SpentRefused
<1> QED
  BY <1>4, <1>6, <1>7, <1>8, <1>9

LEMMA StoreKeeps ==
  ASSUME IInv, NEW l \in Logins, StoreOTP(l)
  PROVE  IInv'
<1> USE DEF IInv
<1>1. pc' = [pc EXCEPT ![l] = "issued"]
  BY DEF StoreOTP
<1>2. pc'[l] = "issued" /\ \A g \in Handlers : g # l => pc'[g] = pc[g]
  BY <1>1, StepPc
<1>3. /\ pc[l] = "store" /\ rm' = rm \cup {l}
      /\ todo \subseteq todo' /\ todo' \subseteq todo \cup {l}
      /\ todo' = todo \/ sweeping
      /\ UNCHANGED <<created, otp, sweeping, tick, next, now, up>>
  BY DEF StoreOTP
<1>4. TypeOK'
  BY <1>1, <1>3 DEF TypeOK
<1>5. StageInv'
  BY <1>2, <1>3 DEF StageInv, Issued, TypeOK
<1>6. ClockInv'
  BY <1>2, <1>3 DEF ClockInv, Fired, TypeOK
<1>7. SweptInv'
  <2>1. Fired <= created[l] + Period
    BY <1>3 DEF ClockInv, Fired, TypeOK
  <2> QED
    BY <1>3, <2>1 DEF SweptInv, Fired
\* No request can have come with a key that is only being stored.
<1>8. SpentRefused'
  BY <1>2, <1>3 DEF SpentRefused, StageInv
<1> QED
  BY <1>4, <1>5, <1>6, <1>7, <1>8

LEMMA RequestKeeps ==
  ASSUME IInv, NEW r \in Requests,
         (\E k \in Logins \cup {NoKey} : Arrive(r, k)) \/ VerifyOTP(r)
  PROVE  IInv'
<1> USE DEF IInv
<1>1. PICK v \in {"verify", "delete", "refused"} : pc' = [pc EXCEPT ![r] = v]
  BY DEF Arrive, VerifyOTP
<1>2. pc'[r] = v /\ \A g \in Handlers : g # r => pc'[g] = pc[g]
  BY <1>1, StepPc
<1>3. /\ \A s \in Requests : s # r => otp'[s] = otp[s]
      /\ otp' \in [Requests -> Logins \cup {NoKey}]
      /\ otp'[r] \in Logins => pc[otp'[r]] = "issued"
      /\ UNCHANGED <<rm, created, sweeping, todo, tick, next, now, up>>
  BY DEF Arrive, VerifyOTP, TypeOK, StageInv, Issued
<1>4. TypeOK'
  BY <1>1, <1>3 DEF TypeOK
<1>5. \A l \in Logins : pc'[l] = pc[l]
  BY <1>2
<1>6. StageInv'
  BY <1>2, <1>3, <1>5 DEF StageInv, Issued, TypeOK
<1>7. ClockInv'
  BY <1>3, <1>5 DEF ClockInv, Fired, TypeOK
<1>8. SweptInv'
  BY <1>3 DEF SweptInv, Fired
<1>9. SpentRefused'
  BY <1>2, <1>3 DEF SpentRefused
<1> QED
  BY <1>4, <1>6, <1>7, <1>8, <1>9

LEMMA DeleteKeeps ==
  ASSUME IInv, NEW r \in Requests, DeleteOTP(r)
  PROVE  IInv'
<1> USE DEF IInv
<1>1. PICK v \in {"accepted", "failed"} : pc' = [pc EXCEPT ![r] = v]
  BY DEF DeleteOTP
<1>2. pc'[r] = v /\ \A g \in Handlers : g # r => pc'[g] = pc[g]
  BY <1>1, StepPc
<1>3. /\ rm' = rm \ {otp[r]} /\ todo' = todo \ {otp[r]}
      /\ UNCHANGED <<created, otp, sweeping, tick, next, now, up>>
  BY DEF DeleteOTP
<1>4. TypeOK'
  BY <1>1, <1>3 DEF TypeOK
<1>5. \A l \in Logins : pc'[l] = pc[l]
  BY <1>2
<1>6. StageInv'
  BY <1>2, <1>3, <1>5 DEF StageInv, Issued, TypeOK
<1>7. ClockInv'
  BY <1>3, <1>5 DEF ClockInv, Fired, TypeOK
<1>8. SweptInv'
  BY <1>3 DEF SweptInv, Fired
<1>9. SpentRefused'
  BY <1>2, <1>3 DEF SpentRefused
<1> QED
  BY <1>4, <1>6, <1>7, <1>8, <1>9

LEMMA SweepKeeps ==
  ASSUME IInv, StartSweep \/ EndSweep \/ \E k \in Logins : Sweep(k)
  PROVE  IInv'
<1> USE DEF IInv
<1>1. UNCHANGED <<created, pc, otp, next, now, up>>
  BY DEF StartSweep, EndSweep, Sweep
<1>2. TypeOK'
  BY DEF StartSweep, EndSweep, Sweep, TypeOK
<1>3. StageInv'
  BY <1>1 DEF StartSweep, EndSweep, Sweep, StageInv, Issued
<1>4. ClockInv'
  BY <1>1 DEF StartSweep, EndSweep, Sweep, ClockInv, Fired
<1>5. SweptInv'
  <2>1. CASE StartSweep
    BY <2>1, <1>1 DEF StartSweep, SweptInv, Fired
  <2>2. CASE EndSweep
    BY <2>2, <1>1 DEF EndSweep, SweptInv, Fired
\* A key that was due and survives its turn had not expired when Retention
\* reached it, so not when the ticker fired either.
  <2>3. ASSUME NEW k \in Logins, Sweep(k) PROVE SweptInv'
    <3>1. Expired(k) \/ Fired <= created[k] + Period
      BY DEF Expired, Fired, ClockInv, TypeOK
    <3> QED
      BY <2>3, <3>1, <1>1 DEF Sweep, SweptInv, Fired
  <2> QED
    BY <2>1, <2>2, <2>3
<1>6. SpentRefused'
  BY <1>1 DEF StartSweep, EndSweep, Sweep, SpentRefused
<1> QED
  BY <1>2, <1>3, <1>4, <1>5, <1>6

LEMMA AdvanceKeeps ==
  ASSUME IInv, Advance
  PROVE  IInv'
<1> USE DEF IInv
<1>1. /\ now' = now + 1 /\ now \in Nat /\ next \in Nat
      /\ UNCHANGED <<rm, created, pc, otp, sweeping, todo, up>>
  BY DEF Advance, TypeOK
<1>2. TypeOK'
  <2>1. tick' \in BOOLEAN
    BY DEF Advance, TypeOK
  <2>2. next' \in Nat
    BY DEF Advance, TypeOK
  <2> QED
    BY <1>1, <2>1, <2>2 DEF TypeOK
<1>3. StageInv' /\ SpentRefused'
  BY <1>1 DEF StageInv, SpentRefused, Issued
\* When the ticker fires, Retention has served the tick before.
<1>4. now' = next => ~tick /\ ~sweeping
  BY <1>1 DEF Advance
<1>5. ClockInv'
  <2>1. /\ now < next /\ next >= Interval /\ next - Interval <= now
        /\ tick \/ sweeping => now < next - Interval + Lag
        /\ \A l \in Logins : /\ created[l] \in Nat /\ created[l] <= now
                             /\ pc[l] = "store" => now < created[l] + Lag
    BY DEF Advance, ClockInv, Fired, TypeOK
  <2>2. \A l \in Logins : /\ created'[l] <= now'
                          /\ pc'[l] = "store" => now' <= created'[l] + Lag
    BY <1>1, <2>1
  <2>3. CASE now' = next
    <3>1. next' = next + Interval
      BY <2>3 DEF Advance
    <3> QED
      BY <1>1, <2>1, <2>2, <2>3, <3>1 DEF ClockInv, Fired
  <2>4. CASE now' # next
    <3>1. next' = next /\ tick' = tick
      BY <2>4 DEF Advance
    <3>2. now' <= next - Interval + Lag \/ (~tick /\ ~sweeping)
      BY <1>1, <2>1
    <3>3. (tick \/ sweeping)' => now' <= next - Interval + Lag
      BY <1>1, <3>1, <3>2
    <3> QED
      BY <1>1, <2>1, <2>2, <2>4, <3>1, <3>3 DEF ClockInv, Fired
  <2> QED
    BY <2>3, <2>4
<1>6. SweptInv'
  <2>1. CASE now' = next
    <3>1. \A k \in rm : Fired <= created[k] + Period
      BY <2>1, <1>4 DEF SweptInv, StageInv
    <3>2. tick' = TRUE /\ next' = next + Interval
      BY <2>1 DEF Advance
    <3> QED
      BY <1>1, <3>1, <3>2 DEF SweptInv, Fired, TypeOK
  <2>2. CASE now' # next
    BY <2>2, <1>1 DEF Advance, SweptInv, Fired
  <2> QED
    BY <2>1, <2>2
<1> QED
  BY <1>2, <1>3, <1>5, <1>6

-----------------------------------------------------------------------------
LEMMA NextInv == IInv /\ [Next]_vars => IInv'
<1> SUFFICES ASSUME IInv, [Next]_vars PROVE IInv'
  OBVIOUS
<1>1. CASE Crash \/ UNCHANGED vars
  <2>1. /\ UNCHANGED <<rm, created, pc, otp, sweeping, todo, tick, next, now>>
        /\ up' \in BOOLEAN
    BY <1>1 DEF Crash, vars, IInv, TypeOK
  <2>2. TypeOK'
    BY <2>1 DEF IInv, TypeOK
  <2>3. StageInv' /\ SpentRefused'
    BY <2>1 DEF IInv, StageInv, SpentRefused, Issued
  <2>4. ClockInv'
    BY <2>1 DEF IInv, ClockInv, Fired
  <2>5. SweptInv'
    BY <2>1 DEF IInv, SweptInv, Fired
  <2> QED
    BY <2>2, <2>3, <2>4, <2>5 DEF IInv
<1> QED
  BY <1>1, LoginKeeps, StoreKeeps, RequestKeeps, DeleteKeeps, SweepKeeps,
     AdvanceKeeps DEF Next

\* Every reachable state satisfies the inductive invariant.
THEOREM Invariance == Spec => []IInv
BY InitInv, NextInv, PTL DEF Spec

\* A key accepted by VerifyOTP is never older than the period, one interval of
\* Retention's ticker and the time a sweep takes.
THEOREM StaleKeysRefused == Spec => []StaleRefused
<1>1. IInv => StaleRefused
  BY DEF IInv, StaleRefused, SweptInv, ClockInv, StageInv, Fired, TypeOK
<1> QED
  BY <1>1, Invariance, PTL

\* A key whose request went on is never in the map again.
THEOREM SpentKeysRefused == Spec => []SpentRefused
<1>1. IInv => SpentRefused
  BY DEF IInv
<1> QED
  BY <1>1, Invariance, PTL

\* Only the request that presents a key, or a sweep after its period, takes it
\* out of the map.
THEOREM WholePeriod == Spec => NeverEarly
<1> DEFINE Leaves(k) == \/ Expired(k)
                        \/ \E r \in Requests : pc[r] = "delete" /\ otp[r] = k
<1>1. [Next]_vars => [\A k \in rm \ rm' : Leaves(k)]_vars
  <2> SUFFICES ASSUME [Next]_vars, NEW k \in rm, k \notin rm'
               PROVE  Leaves(k)
    OBVIOUS
  <2>1. (\E r \in Requests : DeleteOTP(r)) \/ \E l \in Logins : Sweep(l)
    BY DEF Next, vars, RefuseLogin, NewOTP, StoreOTP, Arrive, VerifyOTP,
       StartSweep, EndSweep, Advance, Crash
  <2> QED
    BY <2>1 DEF DeleteOTP, Sweep
<1> QED
  BY <1>1, PTL DEF Spec, NeverEarly
=============================================================================
