---------------------------- MODULE RetentionMap ----------------------------
(***************************************************************************)
(* The one-time passwords of the GoServer (otp.go, and what loginHandler   *)
(* and serveWS of manager.go do with them).                                *)
(*                                                                         *)
(* /login stores a fresh key with its creation time, /ws looks a key up    *)
(* and then deletes it, and the goroutine Retention wakes at every tick of *)
(* a ticker and deletes the keys whose period is over. Nothing locks the   *)
(* map. Time is discrete: one unit is a fraction of the ticker's interval. *)
(***************************************************************************)
EXTENDS Integers

CONSTANTS
  Logins,     \* the /login requests, each with the uuid it draws as its key
  Requests,   \* the /ws requests
  NoKey,      \* any otp parameter that no login ever returned
  Period,     \* retentionPeriod
  Interval,   \* the interval of Retention's ticker
  Lag,        \* how long a goroutine may take over a tick or over NewOTP
  MaxTime     \* bound: the clock stops here

ASSUME KeyAssumption == NoKey \notin Logins /\ Logins \cap Requests = {}
\* The server is not so slow that a tick finds the previous one unserved.
ASSUME TimeAssumption == /\ Period \in Nat /\ Interval \in Nat /\ Lag \in Nat
                         /\ Lag < Interval /\ Lag <= Period
                         /\ MaxTime \in Nat

VARIABLES
  rm,        \* the keys in the map
  created,   \* created[l]: the Created field of l's OTP
  pc,        \* where each request handler is
  otp,       \* the otp parameter of each /ws request
  sweeping,  \* whether Retention is walking the map
  todo,      \* the keys that this walk has yet to reach
  tick,      \* whether a tick waits in the ticker's channel
  next,      \* when the ticker fires next
  now,       \* the clock
  up         \* FALSE once the runtime has noticed a race on the map

vars == <<rm, created, pc, otp, sweeping, todo, tick, next, now, up>>

Handlers == Logins \cup Requests

Init ==
  /\ rm = {}
  /\ created = [l \in Logins |-> 0]
  /\ pc = [h \in Handlers |-> "idle"]
  /\ otp = [r \in Requests |-> NoKey]
  /\ sweeping = FALSE
  /\ todo = {}
  /\ tick = FALSE
  /\ next = Interval
  /\ now = 0
  /\ up = TRUE

-----------------------------------------------------------------------------
(***************************************************************************)
(* /login.                                                                 *)
(***************************************************************************)

\* A body that does not parse or the wrong credentials: no key.
RefuseLogin(l) ==
  /\ up
  /\ pc[l] = "idle"
  /\ pc' = [pc EXCEPT ![l] = "refused"]
  /\ UNCHANGED <<rm, created, otp, sweeping, todo, tick, next, now, up>>

\* The credentials are right: NewOTP draws a key and takes the time.
NewOTP(l) ==
  /\ up
  /\ pc[l] = "idle"
  /\ created' = [created EXCEPT ![l] = now]
  /\ pc' = [pc EXCEPT ![l] = "store"]
  /\ UNCHANGED <<rm, otp, sweeping, todo, tick, next, now, up>>

\* NewOTP stores the key and the response carries it to the client. A walk in
\* progress may or may not reach a key that is stored meanwhile.
StoreOTP(l) ==
  /\ up
  /\ pc[l] = "store"
  /\ rm' = rm \cup {l}
  /\ pc' = [pc EXCEPT ![l] = "issued"]
  /\ \/ UNCHANGED todo
     \/ sweeping /\ todo' = todo \cup {l}
  /\ UNCHANGED <<created, otp, sweeping, tick, next, now, up>>

-----------------------------------------------------------------------------
(***************************************************************************)
(* /ws: VerifyOTP.                                                         *)
(***************************************************************************)

Issued == {l \in Logins : pc[l] = "issued"}

\* A request arrives with an issued key or with none; without one, or without
\* its uuid or its color, it is refused at once.
Arrive(r, k) ==
  /\ up
  /\ pc[r] = "idle"
  /\ k \in Issued \cup {NoKey}
  /\ otp' = [otp EXCEPT ![r] = k]
  /\ \E v \in {"verify", "refused"} : pc' = [pc EXCEPT ![r] = v]
  /\ UNCHANGED <<rm, created, sweeping, todo, tick, next, now, up>>

\* VerifyOTP looks the key up: without it the request is refused.
VerifyOTP(r) ==
  /\ up
  /\ pc[r] = "verify"
  /\ pc' = [pc EXCEPT ![r] = IF otp[r] \in rm THEN "delete" ELSE "refused"]
  /\ UNCHANGED <<rm, created, otp, sweeping, todo, tick, next, now, up>>

\* Fault: VerifyOTP does not delete the key.
AcceptOnly(r) ==
  /\ up
  /\ pc[r] = "delete"
  /\ \E v \in {"accepted", "failed"} : pc' = [pc EXCEPT ![r] = v]
  /\ UNCHANGED <<rm, created, otp, sweeping, todo, tick, next, now, up>>

\* VerifyOTP deletes the key and the request goes on to the upgrade, which can
\* still fail: the key is spent in either case.
DeleteOTP(r) ==
  /\ up
  /\ pc[r] = "delete"
  /\ rm' = rm \ {otp[r]}
  /\ todo' = todo \ {otp[r]}
  /\ \E v \in {"accepted", "failed"} : pc' = [pc EXCEPT ![r] = v]
  /\ UNCHANGED <<created, otp, sweeping, tick, next, now, up>>

-----------------------------------------------------------------------------
(***************************************************************************)
(* Retention. Its context is cancelled only when main returns.             *)
(***************************************************************************)

Expired(k) == created[k] + Period < now

\* A tick is received: the walk over the map begins.
StartSweep ==
  /\ up
  /\ tick /\ ~sweeping
  /\ tick' = FALSE
  /\ sweeping' = TRUE
  /\ todo' = rm
  /\ UNCHANGED <<rm, created, pc, otp, next, now, up>>

\* Fault: the comparison of the two times is the wrong way round.
SweepYoung(k) ==
  /\ up
  /\ sweeping /\ k \in todo
  /\ todo' = todo \ {k}
  /\ rm' = IF created[k] + Period > now THEN rm \ {k} ELSE rm
  /\ UNCHANGED <<created, pc, otp, sweeping, tick, next, now, up>>

\* Fault: the walk ends at the first key it deletes.
SweepOne(k) ==
  /\ up
  /\ sweeping /\ k \in todo
  /\ todo' = IF Expired(k) THEN {} ELSE todo \ {k}
  /\ rm' = IF Expired(k) THEN rm \ {k} ELSE rm
  /\ UNCHANGED <<created, pc, otp, sweeping, tick, next, now, up>>

\* The walk reaches k and deletes it if its period is over.
Sweep(k) ==
  /\ up
  /\ sweeping /\ k \in todo
  /\ todo' = todo \ {k}
  /\ rm' = IF Expired(k) THEN rm \ {k} ELSE rm
  /\ UNCHANGED <<created, pc, otp, sweeping, tick, next, now, up>>

EndSweep ==
  /\ up
  /\ sweeping /\ todo = {}
  /\ sweeping' = FALSE
  /\ UNCHANGED <<rm, created, pc, otp, todo, tick, next, now, up>>

\* Time passes, but no goroutine takes longer than Lag over its work. The
\* ticker's channel holds one tick.
Advance ==
  /\ up
  /\ now < MaxTime
  /\ tick \/ sweeping => now < next - Interval + Lag
  /\ \A l \in Logins : pc[l] = "store" => now < created[l] + Lag
  /\ now' = now + 1
  /\ IF now' = next THEN tick' = TRUE /\ next' = next + Interval
                    ELSE UNCHANGED <<tick, next>>
  /\ UNCHANGED <<rm, created, pc, otp, sweeping, todo, up>>

-----------------------------------------------------------------------------
(***************************************************************************)
(* The map's own races: the Go runtime stops the program when it notices a *)
(* write of the map during another access to it; it does not always notice.*)
(***************************************************************************)

\* The handlers about to write the map, and those about to use it.
Writers == {h \in Handlers : pc[h] \in {"store", "delete"}}
Users == Writers \cup {r \in Requests : pc[r] = "verify"}

MapRace == \/ \E g \in Writers, h \in Users : g # h
           \/ sweeping /\ Users # {}

Crash ==
  /\ up
  /\ MapRace
  /\ up' = FALSE
  /\ UNCHANGED <<rm, created, pc, otp, sweeping, todo, tick, next, now>>

-----------------------------------------------------------------------------
Next ==
  \/ \E l \in Logins : RefuseLogin(l) \/ NewOTP(l) \/ StoreOTP(l)
  \/ \E r \in Requests, k \in Logins \cup {NoKey} : Arrive(r, k)
  \/ \E r \in Requests : VerifyOTP(r) \/ DeleteOTP(r)
  \/ StartSweep
  \/ \E k \in Logins : Sweep(k)
  \/ EndSweep
  \/ Advance
  \/ Crash

Spec == Init /\ [][Next]_vars

-----------------------------------------------------------------------------
(***************************************************************************)
(* Properties.                                                             *)
(***************************************************************************)

TypeOK ==
  /\ rm \subseteq Logins
  /\ created \in [Logins -> Nat]
  /\ pc \in [Handlers -> {"idle", "store", "issued", "verify", "delete",
                          "accepted", "failed", "refused"}]
  /\ otp \in [Requests -> Logins \cup {NoKey}]
  /\ sweeping \in BOOLEAN /\ tick \in BOOLEAN /\ up \in BOOLEAN
  /\ todo \subseteq Logins
  /\ next \in Nat /\ now \in Nat

\* Retention keeps up: no key, and so none that a request could still be
\* accepted with, is older than the period, one interval of the ticker and the
\* time a sweep may take, although a sweep can miss a key that is stored, and a
\* key that expires, while it walks.
StaleRefused == \A k \in rm : now <= created[k] + Period + Interval + Lag

\* A client has its whole period: a key leaves the map by the request that
\* presents it or after the period, never before.
NeverEarly ==
  [][\A k \in rm \ rm' :
       \/ Expired(k)
       \/ \E r \in Requests : pc[r] = "delete" /\ otp[r] = k]_vars

\* Once a request that was accepted with a key has gone on, the key is refused:
\* neither a sweep nor a late store brings it back.
SpentRefused ==
  \A r \in Requests : pc[r] \in {"accepted", "failed"} => otp[r] \notin rm

\* No two requests are accepted with the same key.
OneUse ==
  \A r, s \in Requests :
    (pc[r] = "accepted" /\ pc[s] = "accepted" /\ r # s) => otp[r] # otp[s]
=============================================================================
