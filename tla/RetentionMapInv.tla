-------------------------- MODULE RetentionMapInv --------------------------
(***************************************************************************)
(* The inductive invariant of RetentionMap, as a conjunction of named      *)
(* parts.                                                                  *)
(***************************************************************************)
EXTENDS RetentionMap

\* Who is at which step, and with which key.
StageInv ==
  /\ \A l \in Logins : pc[l] \in {"idle", "store", "issued", "refused"}
  /\ \A r \in Requests : pc[r] \in {"idle", "verify", "delete", "accepted",
                                    "failed", "refused"}
  /\ \A r \in Requests : otp[r] \in Logins => pc[otp[r]] = "issued"
  /\ rm \subseteq Issued
  /\ todo \subseteq rm
  /\ ~sweeping => todo = {}

\* When the ticker fired last.
Fired == next - Interval

\* The ticker is on time, and so are Retention and NewOTP.
ClockInv ==
  /\ next >= Interval
  /\ Fired <= now /\ now < next
  /\ tick \/ sweeping => now <= Fired + Lag
  /\ \A l \in Logins :
       /\ created[l] <= now
       /\ pc[l] = "store" => now <= created[l] + Lag

\* If the ticker has fired since a key expired, Retention has yet to reach it.
SweptInv ==
  \A k \in rm :
    \/ Fired <= created[k] + Period
    \/ /\ Fired <= created[k] + Period + Interval
       /\ tick \/ k \in todo

\* Everything above, the types and that a spent key stays refused: what every
\* reachable state satisfies and every step keeps.
IInv == TypeOK /\ StageInv /\ ClockInv /\ SweptInv /\ SpentRefused
=============================================================================
