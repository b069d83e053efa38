------------------------- MODULE AdmissionCertProofs -------------------------
(***************************************************************************)
(* Proofs about AdmissionCert, for all lifetimes, margins and numbers of   *)
(* attempts that CertAssumption allows.                                    *)
(***************************************************************************)
EXTENDS AdmissionCert, FiniteSetTheorems, TLAPS

AnySecret == [kind: {"absent", "empty", "valid"}, expiry: Nat]

\* The part of the types that the proofs need.
Types ==
    /\ now \in Nat
    /\ secret \in AnySecret
    /\ seen \in AnySecret
    /\ started \in BOOLEAN
    /\ scheduling \in Nat
    /\ watchChan \subseteq Nat
    /\ timers \subseteq Nat
    /\ update \in [at: {"none", "begin", "ensure", "generating", "pods",
                        "waiting"},
                   attempt: Nat]
    /\ gaveUp \in BOOLEAN

\* No certificate is valid for longer than a new one, and the cache shows an
\* older one than the API server, if another.
CertificatesInOrder ==
    /\ secret.kind = "valid" => secret.expiry \in 1..(now + Life)
    /\ seen.kind = "valid" => seen.expiry <= now + Life
    /\ seen.kind = "valid" /\ secret.kind = "valid"
        => seen.expiry <= secret.expiry

\* A certificate that the cache does not show is new.
UnseenIsNew ==
    secret.kind = "valid" /\ seen.kind # "valid"
        => now + Fallback < secret.expiry

\* The watcher is somewhere on its way round.
CheckPending ==
    started => \/ gaveUp
               \/ scheduling > 0
               \/ watchChan # {}
               \/ timers # {}
               \/ update # NoUpdate

\* The next check comes before the certificate expires, also the one that may
\* be generated now.
CheckInTime ==
    \A t \in watchChan \cup timers :
        /\ t < now + Life
        /\ secret.kind = "valid" => t < secret.expiry

IInv ==
    /\ Types
    /\ CertificatesInOrder
    /\ UnseenIsNew
    /\ CheckPending
    /\ CheckInTime
    /\ RenewedInTime

-----------------------------------------------------------------------------

UpdateType == [at: {"none", "begin", "ensure", "generating", "pods",
                    "waiting"},
               attempt: Nat]

\* Going on to the next step and failing keep the type of the update, and a
\* watcher that has not given up is still on its way.
LEMMA UpdateSteps ==
    ASSUME Types, update # NoUpdate,
           \/ \E step \in {"ensure", "generating", "pods"} : GoTo(step)
           \/ AttemptFails
    PROVE /\ update' \in UpdateType
          /\ gaveUp' \in BOOLEAN
          /\ gaveUp => gaveUp'
          /\ scheduling' = scheduling
          /\ update' # NoUpdate \/ gaveUp'
<1>1. update \in UpdateType
  BY DEF Types, UpdateType
<1>2. CASE \E step \in {"ensure", "generating", "pods"} : GoTo(step)
  BY <1>1, <1>2 DEF GoTo, NoUpdate, UpdateType, Types
<1>3. CASE AttemptFails
  <2>1. CASE update.attempt < Attempts
    BY <1>1, <1>3, <2>1 DEF AttemptFails, NoUpdate, UpdateType, Types
  <2>2. CASE ~(update.attempt < Attempts)
    BY <1>1, <1>3, <2>2 DEF AttemptFails, NoUpdate, UpdateType, Types
  <2> QED
    BY <2>1, <2>2
<1> QED
  BY <1>2, <1>3

\* What does not touch the clock or the Secret leaves the order of the
\* certificates alone.
LEMMA CertificatesKept ==
    ASSUME CertificatesInOrder, UnseenIsNew, RenewedInTime,
           UNCHANGED <<now, secret, seen>>, gaveUp => gaveUp'
    PROVE CertificatesInOrder' /\ UnseenIsNew' /\ RenewedInTime'
  BY DEF CertificatesInOrder, UnseenIsNew, RenewedInTime

\* What does not touch the watcher's times either leaves the checks in time.
LEMMA ChecksKept ==
    ASSUME CheckInTime,
           UNCHANGED <<now, watchChan, timers>>,
           secret' = secret \/ secret' = Empty
    PROVE CheckInTime'
  BY DEF CheckInTime, Empty

\* A new certificate expires later than any that is known, and after all the
\* checks that are pending.
LEMMA Generated ==
    ASSUME Types, CertificatesInOrder, CheckInTime,
           Generate, UNCHANGED <<now, seen, watchChan, timers>>
    PROVE /\ secret' \in AnySecret
          /\ CertificatesInOrder' /\ UnseenIsNew' /\ RenewedInTime'
          /\ CheckInTime'
<1>1. secret' = [kind |-> "valid", expiry |-> now + Life]
  BY DEF Generate, Certificate
<1> QED
  BY <1>1, CertAssumption DEF Types, AnySecret, CertificatesInOrder,
        UnseenIsNew, RenewedInTime, CheckInTime

LEMMA InitInv == Init => IInv
<1> SUFFICES ASSUME Init PROVE IInv
  OBVIOUS
<1>1. /\ secret \in AnySecret
      /\ secret.kind = "valid" => secret.expiry \in 1..Life
  BY CertAssumption DEF Init, AnySecret, Absent, Certificate
<1>2. Types
  BY <1>1 DEF Init, Types, NoUpdate
<1>3. CertificatesInOrder /\ UnseenIsNew /\ RenewedInTime
  BY <1>1, CertAssumption DEF Init, AnySecret, CertificatesInOrder,
        UnseenIsNew, RenewedInTime
<1>4. CheckPending /\ CheckInTime
  BY DEF Init, CheckPending, CheckInTime
<1> QED
  BY <1>2, <1>3, <1>4 DEF IInv

\* The steps of the watcher, on the way from one place to the next.
LEMMA WatchStep == IInv /\ Watch => IInv'
<1> SUFFICES ASSUME IInv, Watch PROVE IInv'
  OBVIOUS
<1> USE DEF IInv
<1>1. CertificatesInOrder' /\ UnseenIsNew' /\ RenewedInTime'
  BY CertificatesKept DEF Watch, NewAdmissionControllerMaintainer,
        ScheduleNextCertificateCheck, ReceiveCheck, TimerFires, history
<1>2. CASE NewAdmissionControllerMaintainer
  <2>1. Types' /\ CheckPending'
    BY <1>2 DEF NewAdmissionControllerMaintainer, Types, CheckPending, history
  <2>2. CheckInTime'
    BY <1>2, ChecksKept DEF NewAdmissionControllerMaintainer
  <2> QED
    BY <1>1, <2>1, <2>2
<1>3. CASE ScheduleNextCertificateCheck
  <2>1. CheckTime \in Nat
    BY CertAssumption DEF CheckTime, Types, AnySecret
  <2>2. CheckTime < now + Life
    BY CertAssumption DEF CheckTime, Types, AnySecret, CertificatesInOrder
  <2>3. secret.kind = "valid" => CheckTime < secret.expiry
    BY CertAssumption, <2>1 DEF CheckTime, Types, AnySecret,
          CertificatesInOrder, UnseenIsNew, RenewedInTime
  <2>4. Types' /\ CheckPending'
    BY <1>3, <2>1 DEF ScheduleNextCertificateCheck, Types, CheckPending,
          history
  <2>5. CheckInTime'
    BY <1>3, <2>2, <2>3 DEF ScheduleNextCertificateCheck, CheckInTime
  <2> QED
    BY <1>1, <2>4, <2>5
<1>4. CASE ReceiveCheck
  <2>1. Types' /\ CheckPending'
    BY <1>4 DEF ReceiveCheck, Types, CheckPending, history
  <2>2. CheckInTime'
    BY <1>4 DEF ReceiveCheck, CheckInTime
  <2> QED
    BY <1>1, <2>1, <2>2
<1>5. CASE TimerFires
  <2>1. Types' /\ CheckPending'
    BY <1>5 DEF TimerFires, Types, CheckPending, history, NoUpdate
  <2>2. CheckInTime'
    BY <1>5 DEF TimerFires, CheckInTime
  <2> QED
    BY <1>1, <2>1, <2>2
<1> QED
  BY <1>2, <1>3, <1>4, <1>5 DEF Watch

\* The steps of a rolling update.
LEMMA UpdateStep == IInv /\ RollingUpdateCertificate => IInv'
<1> SUFFICES ASSUME IInv, RollingUpdateCertificate PROVE IInv'
  OBVIOUS
<1> USE DEF IInv
<1>1. CASE ClearSecret
  <2>1. /\ update' \in UpdateType /\ gaveUp' \in BOOLEAN
        /\ gaveUp => gaveUp'
        /\ scheduling' = scheduling
        /\ update' # NoUpdate \/ gaveUp'
    BY <1>1, UpdateSteps DEF ClearSecret, At, NoUpdate
  <2>2. secret' \in {secret, Empty}
    BY <1>1 DEF ClearSecret
  <2>3. Types' /\ CheckPending'
    BY <1>1, <2>1, <2>2 DEF ClearSecret, Types, AnySecret, Empty, CheckPending,
          UpdateType
  <2>4. CertificatesInOrder' /\ UnseenIsNew' /\ RenewedInTime'
    BY <1>1, <2>1, <2>2 DEF ClearSecret, CertificatesInOrder, UnseenIsNew,
          RenewedInTime, Empty
  <2>5. CheckInTime'
    BY <1>1, <2>2, ChecksKept DEF ClearSecret
  <2> QED
    BY <2>3, <2>4, <2>5
<1>2. CASE EnsureForUpdate
  <2>1. /\ update' \in UpdateType /\ gaveUp' \in BOOLEAN
        /\ gaveUp => gaveUp'
        /\ scheduling' = scheduling
        /\ update' # NoUpdate \/ gaveUp'
    BY <1>2, UpdateSteps DEF EnsureForUpdate, At, NoUpdate
  <2>2. Types' /\ CheckPending'
    BY <1>2, <2>1 DEF EnsureForUpdate, Types, CheckPending, UpdateType
  <2>3. CertificatesInOrder' /\ UnseenIsNew' /\ RenewedInTime'
    BY <1>2, <2>1, CertificatesKept DEF EnsureForUpdate
  <2>4. CheckInTime'
    BY <1>2, ChecksKept DEF EnsureForUpdate
  <2> QED
    BY <2>2, <2>3, <2>4
<1>3. CASE GenerateForUpdate
  <2>1. /\ update' \in UpdateType /\ gaveUp' \in BOOLEAN
        /\ gaveUp => gaveUp'
        /\ scheduling' = scheduling
        /\ update' # NoUpdate \/ gaveUp'
    BY <1>3, UpdateSteps DEF GenerateForUpdate, At, NoUpdate
  <2>2. /\ secret' \in AnySecret
        /\ CertificatesInOrder' /\ UnseenIsNew' /\ RenewedInTime'
        /\ CheckInTime'
    <3>1. CASE Generate
      BY <1>3, <3>1, Generated DEF GenerateForUpdate
    <3>2. CASE UNCHANGED secret
      BY <1>3, <2>1, <3>2, CertificatesKept, ChecksKept
         DEF GenerateForUpdate, Types
    <3> QED
      BY <1>3, <3>1, <3>2 DEF GenerateForUpdate
  <2>3. Types' /\ CheckPending'
    BY <1>3, <2>1, <2>2 DEF GenerateForUpdate, Types, CheckPending, UpdateType
  <2> QED
    BY <2>2, <2>3
<1>4. CASE DeletePods
  <2>1. CertificatesInOrder' /\ UnseenIsNew' /\ RenewedInTime'
    BY <1>4, UpdateSteps, CertificatesKept DEF DeletePods, At, NoUpdate
  <2>2. CheckInTime'
    BY <1>4, ChecksKept DEF DeletePods
  <2>3. CASE /\ update' = NoUpdate /\ gaveUp' = gaveUp
             /\ scheduling' = scheduling + 1
    BY <1>4, <2>1, <2>2, <2>3 DEF DeletePods, Types, CheckPending, NoUpdate
  <2>4. CASE AttemptFails
    <3>1. /\ update' \in UpdateType /\ gaveUp' \in BOOLEAN
          /\ scheduling' = scheduling
          /\ update' # NoUpdate \/ gaveUp'
      BY <1>4, <2>4, UpdateSteps DEF DeletePods, At, NoUpdate
    <3> QED
      BY <1>4, <2>1, <2>2, <3>1 DEF DeletePods, Types, CheckPending, UpdateType
  <2> QED
    BY <1>4, <2>3, <2>4 DEF DeletePods
<1>5. CASE Retry
  <2>1. Types' /\ CheckPending'
    BY <1>5 DEF Retry, Types, CheckPending, NoUpdate, watcher, history
  <2>2. CertificatesInOrder' /\ UnseenIsNew' /\ RenewedInTime'
    BY <1>5, CertificatesKept DEF Retry, history
  <2>3. CheckInTime'
    BY <1>5, ChecksKept DEF Retry, watcher
  <2> QED
    BY <2>1, <2>2, <2>3
<1> QED
  BY <1>1, <1>2, <1>3, <1>4, <1>5 DEF RollingUpdateCertificate

\* The steps of the worker.
LEMMA EnsureStep == IInv /\ Ensure => IInv'
<1> SUFFICES ASSUME IInv, Ensure PROVE IInv'
  OBVIOUS
<1> USE DEF IInv
<1>1. UNCHANGED <<now, seen, watcher, update, gaveUp>>
  BY DEF Ensure, EnsureAdmissionCA, GenerateSecret, history
<1>2. CheckPending'
  BY <1>1 DEF CheckPending, watcher
<1>3. CASE Generate
  BY <1>1, <1>2, <1>3, Generated DEF Types, watcher
<1>4. CASE UNCHANGED secret
  BY <1>1, <1>2, <1>4, CertificatesKept, ChecksKept DEF Types, watcher
<1> QED
  BY <1>3, <1>4 DEF Ensure, EnsureAdmissionCA, GenerateSecret

\* A new process, the cache and the clock.  Time passes only with a check
\* pending that is not due: the certificate, which outlives the check, is
\* good for another unit of time.
LEMMA OtherStep ==
    IInv /\ (Crash \/ Observe \/ PodStarts \/ Tick \/ UNCHANGED vars) => IInv'
<1> SUFFICES ASSUME IInv,
                    Crash \/ Observe \/ PodStarts \/ Tick \/ UNCHANGED vars
             PROVE IInv'
  OBVIOUS
<1> USE DEF IInv
<1>1. CASE Crash
  <2>1. Types' /\ CheckPending' /\ CheckInTime'
    BY <1>1 DEF Crash, Types, CheckPending, CheckInTime, NoUpdate
  <2>2. CertificatesInOrder' /\ UnseenIsNew' /\ RenewedInTime'
    BY <1>1 DEF Crash, Types, AnySecret, CertificatesInOrder, UnseenIsNew,
          RenewedInTime
  <2> QED
    BY <2>1, <2>2
<1>2. CASE Observe
  <2>1. Types' /\ CheckPending'
    BY <1>2 DEF Observe, Types, CheckPending, watcher, history
  <2>2. CertificatesInOrder' /\ UnseenIsNew' /\ RenewedInTime'
    BY <1>2 DEF Observe, Types, AnySecret, CertificatesInOrder, UnseenIsNew,
          RenewedInTime, history
  <2>3. CheckInTime'
    BY <1>2, ChecksKept DEF Observe, watcher
  <2> QED
    BY <2>1, <2>2, <2>3
<1>3. CASE PodStarts \/ UNCHANGED vars
  <2>1. UNCHANGED <<now, secret, seen, watcher, update, gaveUp>>
    BY <1>3 DEF PodStarts, vars, watcher, history
  <2> QED
    BY <2>1, CertificatesKept, ChecksKept DEF Types, CheckPending, watcher
<1>4. CASE Tick
  <2>1. UNCHANGED <<secret, seen, watcher, update, gaveUp>> /\ now' = now + 1
    BY <1>4 DEF Tick, watcher, history
  <2>2. Types' /\ CheckPending'
    BY <2>1 DEF Types, CheckPending, watcher
  <2>3. CertificatesInOrder' /\ UnseenIsNew'
    BY <1>4, <2>1, CertAssumption DEF Tick, Types, AnySecret,
          CertificatesInOrder, UnseenIsNew
  <2>4. CheckInTime'
    <3> SUFFICES ASSUME NEW t \in watchChan \cup timers
                 PROVE /\ t < now + 1 + Life
                       /\ secret.kind = "valid" => t < secret.expiry
      BY <2>1 DEF CheckInTime, watcher
    <3> QED
      BY CertAssumption DEF CheckInTime, Types
  <2>5. RenewedInTime'
    <3> SUFFICES ASSUME secret.kind = "valid", ~gaveUp
                 PROVE now + 1 < secret.expiry
      BY <2>1 DEF RenewedInTime, Types, AnySecret
    <3>1. timers # {}
      BY <1>4, ~(0 > 0) DEF Tick, CheckPending
    <3>2. PICK t \in timers : t > now
      BY <1>4, <3>1 DEF Tick
    <3>3. t < secret.expiry /\ t \in Nat
      BY DEF CheckInTime, Types
    <3> QED
      BY <3>2, <3>3 DEF Types, AnySecret
  <2> QED
    BY <2>2, <2>3, <2>4, <2>5
<1> QED
  BY <1>1, <1>2, <1>3, <1>4

\* The certificate in the API server never expires as long as the watcher has
\* not given up.
THEOREM NeverExpires == Spec => []RenewedInTime
<1>1. IInv /\ [Next]_vars => IInv'
  BY WatchStep, UpdateStep, EnsureStep, OtherStep DEF Next
<1>2. IInv => RenewedInTime
  BY DEF IInv
<1> QED
  BY <1>1, <1>2, InitInv, PTL DEF Spec

-----------------------------------------------------------------------------
(* One check is pending                                                     *)

NoCheck == scheduling = 0 /\ watchChan = {} /\ timers = {} /\ update = NoUpdate

\* The one check is in exactly one place on its way.
OnePlace ==
    \/ NoCheck /\ (started => gaveUp)
    \/ /\ started
       /\ \/ scheduling = 1 /\ watchChan = {} /\ timers = {} /\ update = NoUpdate
          \/ /\ scheduling = 0 /\ timers = {} /\ update = NoUpdate
             /\ \E t : watchChan = {t}
          \/ /\ scheduling = 0 /\ watchChan = {} /\ update = NoUpdate
             /\ \E t : timers = {t}
          \/ /\ scheduling = 0 /\ watchChan = {} /\ timers = {}
             /\ update # NoUpdate

\* The number of places, from the place.
LEMMA OnePlaceCounted == OnePlace => OneCheckPending
<1> SUFFICES ASSUME OnePlace PROVE OneCheckPending
  OBVIOUS
<1> DEFINE c == Cardinality(watchChan)
           m == Cardinality(timers)
<1>1. Cardinality({}) = 0 /\ \A t : Cardinality({t}) = 1
  BY FS_EmptySet, FS_Singleton
<1>2. /\ watchChan = {} => c = 0
      /\ timers = {} => m = 0
      /\ (\E t : watchChan = {t}) => c = 1
      /\ (\E t : timers = {t}) => m = 1
  BY <1>1
<1>3. Pending = scheduling + c + m + IF update = NoUpdate THEN 0 ELSE 1
  BY DEF Pending
<1> HIDE DEF c, m
<1>4. ASSUME scheduling = 1, watchChan = {}, timers = {}, update = NoUpdate
      PROVE  Pending = 1
  BY <1>2, <1>3, <1>4
<1>5. ASSUME scheduling = 0, timers = {}, update = NoUpdate,
             \E t : watchChan = {t}
      PROVE  Pending = 1
  <2>1. c = 1 /\ m = 0
    BY <1>2, <1>5, Zenon
  <2> QED
    BY <2>1, <1>3, <1>5
<1>6. ASSUME scheduling = 0, watchChan = {}, update = NoUpdate,
             \E t : timers = {t}
      PROVE  Pending = 1
  <2>1. c = 0 /\ m = 1
    BY <1>2, <1>6, Zenon
  <2> QED
    BY <2>1, <1>3, <1>6
<1>7. ASSUME scheduling = 0, watchChan = {}, timers = {}, update # NoUpdate
      PROVE  Pending = 1
  BY <1>2, <1>3, <1>7
<1>8. NoCheck => Pending = 0
  BY <1>2, <1>3 DEF NoCheck
<1> HIDE DEF Pending
<1>9. Pending = 1 \/ (Pending = 0 /\ (started => gaveUp))
  BY <1>4, <1>5, <1>6, <1>7, <1>8, Zenon DEF OnePlace
<1>10. 0 <= 1 /\ 1 <= 1 /\ 1 # 0
  OBVIOUS
<1> QED
  BY <1>9, <1>10, Zenon DEF OneCheckPending

\* A failed attempt keeps the check or gives it up, as in UpdateSteps.
LEMMA OnePlaceInUpdate ==
    ASSUME OnePlace, update # NoUpdate,
           UNCHANGED <<started, watchChan, timers>>,
           scheduling' = scheduling,
           gaveUp => gaveUp',
           update' # NoUpdate \/ gaveUp'
    PROVE  OnePlace'
  BY DEF OnePlace, NoCheck

\* The check is handed from one place to the next.
LEMMA OnePlaceStep == IInv /\ OnePlace /\ [Next]_vars => OnePlace'
<1> SUFFICES ASSUME IInv, OnePlace, [Next]_vars PROVE OnePlace'
  OBVIOUS
<1>1. CASE NewAdmissionControllerMaintainer
  BY <1>1 DEF NewAdmissionControllerMaintainer, OnePlace, NoCheck, history
<1>2. CASE ScheduleNextCertificateCheck
  <2>1. scheduling = 1 /\ watchChan = {}
    BY <1>2 DEF ScheduleNextCertificateCheck, OnePlace, NoCheck
  <2>2. scheduling' = 0 /\ watchChan' = {CheckTime}
    BY <1>2, <2>1 DEF ScheduleNextCertificateCheck
  <2> HIDE DEF CheckTime
  <2> QED
    BY <1>2, <2>1, <2>2 DEF ScheduleNextCertificateCheck, OnePlace, NoCheck,
       history
<1>3. CASE ReceiveCheck
  <2>1. timers = {} /\ scheduling = 0 /\ update = NoUpdate /\ started
    BY <1>3 DEF ReceiveCheck, OnePlace, NoCheck
  <2>2. PICK t : watchChan = {t}
    BY <1>3, <2>1 DEF ReceiveCheck, OnePlace, NoCheck
  <2>3. timers' = {t} /\ watchChan' = {}
    BY <1>3, <2>1, <2>2 DEF ReceiveCheck
  <2> QED
    BY <1>3, <2>1, <2>3 DEF ReceiveCheck, OnePlace, history
<1>4. CASE TimerFires
  <2>1. PICK t \in timers : timers' = timers \ {t}
    BY <1>4 DEF TimerFires
  <2>2. /\ scheduling = 0 /\ watchChan = {} /\ started
        /\ timers = {t}
    BY <2>1 DEF OnePlace, NoCheck
  <2>3. timers' = {} /\ update' # NoUpdate
    BY <1>4, <2>1, <2>2 DEF TimerFires, NoUpdate
  <2> QED
    BY <1>4, <2>2, <2>3 DEF TimerFires, OnePlace, history
<1>5. CASE ClearSecret
  <2>1. update # NoUpdate
    BY <1>5 DEF ClearSecret, At, NoUpdate
  <2>2. /\ gaveUp => gaveUp'
        /\ scheduling' = scheduling
        /\ update' # NoUpdate \/ gaveUp'
    BY <1>5, <2>1, UpdateSteps DEF ClearSecret, IInv
  <2> QED
    BY <1>5, <2>1, <2>2, OnePlaceInUpdate DEF ClearSecret
<1>6. CASE EnsureForUpdate
  <2>1. update # NoUpdate
    BY <1>6 DEF EnsureForUpdate, At, NoUpdate
  <2>2. /\ gaveUp => gaveUp'
        /\ scheduling' = scheduling
        /\ update' # NoUpdate \/ gaveUp'
    BY <1>6, <2>1, UpdateSteps DEF EnsureForUpdate, IInv
  <2> QED
    BY <1>6, <2>1, <2>2, OnePlaceInUpdate DEF EnsureForUpdate
<1>7. CASE GenerateForUpdate
  <2>1. update # NoUpdate
    BY <1>7 DEF GenerateForUpdate, At, NoUpdate
  <2>2. /\ gaveUp => gaveUp'
        /\ scheduling' = scheduling
        /\ update' # NoUpdate \/ gaveUp'
    BY <1>7, <2>1, UpdateSteps DEF GenerateForUpdate, IInv
  <2> QED
    BY <1>7, <2>1, <2>2, OnePlaceInUpdate DEF GenerateForUpdate
<1>8. CASE DeletePods
  <2>1. update # NoUpdate
    BY <1>8 DEF DeletePods, At, NoUpdate
  <2>2. CASE AttemptFails
    <3>1. /\ gaveUp => gaveUp'
          /\ scheduling' = scheduling
          /\ update' # NoUpdate \/ gaveUp'
      BY <2>1, <2>2, UpdateSteps DEF IInv
    <3> QED
      BY <1>8, <2>1, <3>1, OnePlaceInUpdate DEF DeletePods
  <2>3. CASE update' = NoUpdate /\ scheduling' = scheduling + 1
    BY <1>8, <2>1, <2>3 DEF DeletePods, OnePlace, NoCheck
  <2> QED
    BY <1>8, <2>2, <2>3 DEF DeletePods
<1>9. CASE Retry
  <2>1. update # NoUpdate /\ update' # NoUpdate
    BY <1>9 DEF Retry, At, NoUpdate
  <2> QED
    BY <1>9, <2>1, OnePlaceInUpdate DEF Retry, watcher, history
<1>10. CASE Crash
  BY <1>10 DEF Crash, OnePlace, NoCheck
<1>11. CASE Ensure \/ Observe \/ PodStarts \/ Tick \/ UNCHANGED vars
  <2>1. UNCHANGED <<watcher, update, gaveUp>>
    BY <1>11 DEF Ensure, EnsureAdmissionCA, GenerateSecret, Observe, PodStarts,
       Tick, vars, watcher, history
  <2> QED
    BY <2>1 DEF OnePlace, NoCheck, watcher
<1> QED
  BY <1>1, <1>2, <1>3, <1>4, <1>5, <1>6, <1>7, <1>8, <1>9, <1>10, <1>11
     DEF Next, Watch, RollingUpdateCertificate

\* Among all goroutines, the channel and the timers there is one check at any
\* time, none twice and none lost but by running out of attempts.
THEOREM OneCheck == Spec => []OneCheckPending
<1>1. Init => OnePlace
  BY DEF Init, OnePlace, NoCheck
<1>2. IInv /\ [Next]_vars => IInv'
  BY WatchStep, UpdateStep, EnsureStep, OtherStep DEF Next
<1> QED
  BY <1>1, <1>2, InitInv, OnePlaceStep, OnePlaceCounted, PTL DEF Spec

-----------------------------------------------------------------------------
(* What the pod serves *)

\* A certificate that the cache does not show, or that the worker is about to
\* write once more, has been generated at this very time; the new one will
\* expire together with it.
Fresh ==
    /\ secret.kind = "valid" /\ (seen.kind # "valid" \/ worker = "generating")
        => secret.expiry = now + Life
    /\ secret.kind # "valid" => secret.expiry = 0

\* The pod serves the certificate of the Secret unless an update is on its
\* way to delete it.
PodsFollow ==
    /\ pods \in Nat
    /\ pods # 0 /\ update = NoUpdate
        => \/ secret.kind = "valid" /\ pods = secret.expiry
           \/ gaveUp \/ forgot

PodsInv == Fresh /\ PodsFollow /\ ServedInTime

\* A generated certificate is fresh.
LEMMA GeneratedFresh ==
    ASSUME Types, Generate, now' = now
    PROVE  Fresh'
<1>1. secret' = [kind |-> "valid", expiry |-> now + Life]
  BY DEF Generate, Certificate
<1> QED
  BY <1>1 DEF Fresh

\* An update that goes on or fails leaves the pod to a later step, or gives up.
LEMMA PodsInUpdate ==
    ASSUME PodsFollow, ServedInTime, UNCHANGED <<now, forgot>>,
           pods' \in {pods, 0},
           gaveUp => gaveUp',
           update' # NoUpdate \/ gaveUp' \/ pods' = 0
    PROVE  PodsFollow' /\ ServedInTime'
  BY DEF PodsFollow, ServedInTime

\* Steps of an update.
LEMMA PodsUpdateStep ==
    IInv /\ PodsInv /\ RollingUpdateCertificate => PodsInv'
<1> SUFFICES ASSUME IInv, PodsInv, RollingUpdateCertificate PROVE PodsInv'
  OBVIOUS
<1> USE DEF PodsInv
<1>1. update # NoUpdate /\ UNCHANGED <<now, seen, worker, forgot>>
  BY DEF RollingUpdateCertificate, ClearSecret, EnsureForUpdate,
     GenerateForUpdate, DeletePods, Retry, At, NoUpdate, history
<1>2. /\ gaveUp => gaveUp'
      /\ update' # NoUpdate \/ gaveUp' \/ pods' = 0
      /\ pods' \in {pods, 0}
  <2>1. CASE ClearSecret
    <3>1. /\ gaveUp => gaveUp'
          /\ update' # NoUpdate \/ gaveUp'
      BY <1>1, <2>1, UpdateSteps DEF ClearSecret, IInv
    <3>2. pods' = pods
      BY <2>1 DEF ClearSecret
    <3> QED
      BY <3>1, <3>2
  <2>2. CASE EnsureForUpdate
    <3>1. /\ gaveUp => gaveUp'
          /\ update' # NoUpdate \/ gaveUp'
      BY <1>1, <2>2, UpdateSteps DEF EnsureForUpdate, IInv
    <3>2. pods' = pods
      BY <2>2 DEF EnsureForUpdate
    <3> QED
      BY <3>1, <3>2
  <2>3. CASE GenerateForUpdate
    <3>1. /\ gaveUp => gaveUp'
          /\ update' # NoUpdate \/ gaveUp'
      BY <1>1, <2>3, UpdateSteps DEF GenerateForUpdate, IInv
    <3>2. pods' = pods
      BY <2>3 DEF GenerateForUpdate
    <3> QED
      BY <3>1, <3>2
  <2>4. CASE DeletePods
    BY <1>1, <2>4, UpdateSteps DEF DeletePods, IInv
  <2>5. CASE Retry
    BY <2>5 DEF Retry, NoUpdate, history
  <2> QED
    BY <2>1, <2>2, <2>3, <2>4, <2>5 DEF RollingUpdateCertificate
<1>3. PodsFollow' /\ ServedInTime'
  BY <1>1, <1>2, PodsInUpdate
<1>4. CASE secret' = secret
  BY <1>1, <1>3, <1>4 DEF Fresh
<1>5. CASE secret' = Empty
  BY <1>1, <1>3, <1>5 DEF Fresh, Empty
<1>6. CASE Generate
  BY <1>1, <1>3, <1>6, GeneratedFresh DEF IInv
<1>7. secret' = secret \/ secret' = Empty \/ Generate
  BY DEF RollingUpdateCertificate, ClearSecret, EnsureForUpdate,
     GenerateForUpdate, DeletePods, Retry
<1> QED
  BY <1>4, <1>5, <1>6, <1>7

\* Steps of the worker: where a certificate is replaced by another without the
\* pod being told, the two expire together.
LEMMA PodsEnsureStep == IInv /\ PodsInv /\ Ensure => PodsInv'
<1> SUFFICES ASSUME IInv, PodsInv, Ensure PROVE PodsInv'
  OBVIOUS
<1> USE DEF PodsInv
<1>1. UNCHANGED <<now, seen, pods, update, gaveUp, forgot>>
  BY DEF Ensure, EnsureAdmissionCA, GenerateSecret, history
<1>2. ServedInTime'
  BY <1>1 DEF ServedInTime
<1>3. CASE EnsureAdmissionCA
  BY <1>1, <1>2, <1>3 DEF EnsureAdmissionCA, Fresh, PodsFollow
<1>4. CASE GenerateSecret
  <2>1. worker = "generating" /\ worker' = "idle"
    BY <1>4 DEF GenerateSecret
  <2>2. CASE Generate
    <3>1. secret' = [kind |-> "valid", expiry |-> now + Life]
      BY <2>2 DEF Generate, Certificate
    <3>2. secret.kind = "valid" => secret'.expiry = secret.expiry
      BY <2>1, <3>1 DEF Fresh
    <3>3. PodsFollow'
      BY <1>1, <3>1, <3>2 DEF PodsFollow
    <3> QED
      BY <1>1, <1>2, <2>2, <3>3, GeneratedFresh DEF IInv
  <2>3. CASE UNCHANGED secret
    BY <1>1, <1>2, <2>1, <2>3 DEF Fresh, PodsFollow
  <2> QED
    BY <1>4, <2>2, <2>3 DEF GenerateSecret
<1> QED
  BY <1>3, <1>4 DEF Ensure

\* The other steps.  A process that ends in an update leaves the pod with a
\* certificate that is not that of the Secret only if it forgot.
LEMMA PodsOtherStep ==
    IInv /\ PodsInv /\ IInv'
        /\ (Watch \/ Crash \/ Observe \/ PodStarts \/ Tick \/ UNCHANGED vars)
    => PodsInv'
<1> SUFFICES ASSUME IInv, PodsInv, IInv',
                    Watch \/ Crash \/ Observe \/ PodStarts \/ Tick
                    \/ UNCHANGED vars
             PROVE  PodsInv'
  OBVIOUS
<1> USE DEF PodsInv
<1>1. CASE Watch
  <2>1. UNCHANGED <<now, secret, seen, pods, worker, gaveUp, forgot>>
    BY <1>1 DEF Watch, NewAdmissionControllerMaintainer,
       ScheduleNextCertificateCheck, ReceiveCheck, TimerFires, history
  <2>2. update' = update \/ update' # NoUpdate
    BY <1>1 DEF Watch, NewAdmissionControllerMaintainer,
       ScheduleNextCertificateCheck, ReceiveCheck, TimerFires, NoUpdate
  <2> QED
    BY <2>1, <2>2 DEF Fresh, PodsFollow, ServedInTime
<1>2. CASE Crash
  <2>1. /\ UNCHANGED <<now, secret, pods, gaveUp>>
        /\ seen' = secret /\ worker' = "idle"
        /\ forgot' = (forgot \/ pods \notin {0, secret.expiry})
    BY <1>2 DEF Crash
  <2>2. Fresh'
    BY <2>1 DEF Fresh
  <2>3. pods # 0 /\ pods = secret.expiry => secret.kind = "valid"
    BY DEF Fresh
  <2> QED
    BY <2>1, <2>2, <2>3 DEF PodsFollow, ServedInTime
<1>3. CASE Observe
  <2>1. /\ UNCHANGED <<now, secret, pods, update, worker, gaveUp, forgot>>
        /\ seen' = secret
    BY <1>3 DEF Observe, history
  <2> QED
    BY <2>1 DEF Fresh, PodsFollow, ServedInTime
<1>4. CASE PodStarts
  <2>1. /\ UNCHANGED <<now, secret, seen, update, worker, gaveUp, forgot>>
        /\ secret.kind = "valid" /\ pods' = secret.expiry
    BY <1>4 DEF PodStarts, history
  <2>2. pods' \in Nat
    BY <2>1 DEF IInv, Types, AnySecret
  <2>3. Fresh' /\ PodsFollow'
    BY <2>1, <2>2 DEF Fresh, PodsFollow
  <2>4. ServedInTime'
    BY <2>1 DEF ServedInTime, IInv, RenewedInTime
  <2> QED
    BY <2>3, <2>4
<1>5. CASE Tick
  <2>1. /\ UNCHANGED <<secret, seen, pods, update, worker, gaveUp, forgot>>
        /\ seen = secret /\ worker = "idle" /\ update = NoUpdate
    BY <1>5 DEF Tick, history
  <2>2. Fresh' /\ PodsFollow'
    BY <2>1 DEF Fresh, PodsFollow
  <2>3. ServedInTime'
    BY <2>1 DEF ServedInTime, PodsFollow, IInv, RenewedInTime
  <2> QED
    BY <2>2, <2>3
<1>6. CASE UNCHANGED vars
  BY <1>6 DEF vars, Fresh, PodsFollow, ServedInTime
<1> QED
  BY <1>1, <1>2, <1>3, <1>4, <1>5, <1>6

\* No pod serves a certificate that has expired, unless the watcher has given
\* up or a process ended between the two halves of an update.
THEOREM PodsServed == Spec => []ServedInTime
<1>1. Init => PodsInv
  BY CertAssumption DEF Init, PodsInv, Fresh, PodsFollow, ServedInTime, Absent,
     Certificate
<1>2. IInv /\ [Next]_vars => IInv'
  BY WatchStep, UpdateStep, EnsureStep, OtherStep DEF Next
<1>3. IInv /\ PodsInv /\ IInv' /\ [Next]_vars => PodsInv'
  BY PodsUpdateStep, PodsEnsureStep, PodsOtherStep DEF Next
<1>4. PodsInv => ServedInTime
  BY DEF PodsInv
<1> QED
  BY <1>1, <1>2, <1>3, <1>4, InitInv, PTL DEF Spec

-----------------------------------------------------------------------------
(* Types *)

\* TypeOK but for the number of times in the channel, which OnePlace bounds,
\* and that only an attempt that is not the last is followed by another.
Bounded ==
    /\ now \in 0..MaxTime
    /\ secret \in Secret
    /\ seen \in Secret
    /\ pods \in Time
    /\ started \in BOOLEAN
    /\ scheduling \in Nat
    /\ watchChan \subseteq Time
    /\ timers \subseteq Time
    /\ update \in [at: {"none", "begin", "ensure", "generating", "pods",
                        "waiting"},
                   attempt: 0..Attempts]
    /\ worker \in {"idle", "generating"}
    /\ faults \in 0..MaxFaults
    /\ gaveUp \in BOOLEAN
    /\ forgot \in BOOLEAN
    /\ update.at = "waiting" => update.attempt < Attempts

\* The steps of an update keep its attempts in bounds.
LEMMA UpdateBounded ==
    ASSUME Bounded,
           \/ \E step \in {"ensure", "generating", "pods"} : GoTo(step)
           \/ AttemptFails
    PROVE  /\ update' \in [at: {"none", "begin", "ensure", "generating",
                                "pods", "waiting"},
                           attempt: 0..Attempts]
           /\ update'.at = "waiting" => update'.attempt < Attempts
           /\ gaveUp' \in BOOLEAN
           /\ scheduling' \in Nat
<1>1. CASE \E step \in {"ensure", "generating", "pods"} : GoTo(step)
  BY <1>1 DEF GoTo, Bounded
<1>2. CASE AttemptFails
  <2>1. CASE update.attempt < Attempts
    BY <1>2, <2>1 DEF AttemptFails, Bounded
  <2>2. CASE ~(update.attempt < Attempts)
    BY <1>2, <2>2, CertAssumption DEF AttemptFails, Bounded, NoUpdate
  <2> QED
    BY <2>1, <2>2
<1> QED
  BY <1>1, <1>2

\* What may be written to the Secret, and the next fault, are in bounds.
LEMMA WritesBounded ==
    ASSUME Bounded
    PROVE  /\ Empty \in Secret
           /\ Generate => secret' \in Secret
           /\ Fault => faults' \in 0..MaxFaults
           /\ CheckTime \in Time
           /\ 0 \in Time /\ secret.expiry \in Time
<1>1. 0 \in Time /\ now + Life \in Time
  BY CertAssumption DEF Bounded, Time
<1>2. Empty \in Secret
  BY <1>1 DEF Empty, Secret
<1>3. Generate => secret' \in Secret
  BY <1>1 DEF Generate, Certificate, Secret
<1>4. Fault => faults' \in 0..MaxFaults
  BY CertAssumption DEF Fault, Bounded
<1>5. secret.expiry \in Time /\ seen.expiry \in Time
  BY DEF Bounded, Secret
<1>6. CheckTime \in Time
  BY <1>5, CertAssumption DEF CheckTime, Time, Bounded
<1> QED
  BY <1>1, <1>2, <1>3, <1>4, <1>5, <1>6

LEMMA BoundedStep == Bounded /\ [Next]_vars => Bounded'
<1> SUFFICES ASSUME Bounded, [Next]_vars PROVE Bounded'
  OBVIOUS
<1> USE WritesBounded
<1>1. CASE NewAdmissionControllerMaintainer
  BY <1>1 DEF NewAdmissionControllerMaintainer, Bounded, history
<1>2. CASE ScheduleNextCertificateCheck
  BY <1>2 DEF ScheduleNextCertificateCheck, Bounded, history
<1>3. CASE ReceiveCheck
  BY <1>3 DEF ReceiveCheck, Bounded, history
<1>4. CASE TimerFires
  BY <1>4, CertAssumption DEF TimerFires, Bounded, history
<1>5. CASE ClearSecret
  BY <1>5, UpdateBounded DEF ClearSecret, Bounded
<1>6. CASE EnsureForUpdate
  BY <1>6, UpdateBounded DEF EnsureForUpdate, Bounded
<1>7. CASE GenerateForUpdate
  BY <1>7, UpdateBounded DEF GenerateForUpdate, Bounded
<1>8. CASE DeletePods
  <2>1. pods' \in Time /\ faults' \in 0..MaxFaults
    BY <1>8 DEF DeletePods, Bounded
  <2>2. CASE AttemptFails
    BY <1>8, <2>1, <2>2, UpdateBounded DEF DeletePods, Bounded
  <2>3. CASE update' = NoUpdate /\ scheduling' = scheduling + 1
             /\ gaveUp' = gaveUp
    BY <1>8, <2>1, <2>3, CertAssumption DEF DeletePods, Bounded, NoUpdate
  <2> QED
    BY <1>8, <2>2, <2>3 DEF DeletePods
<1>9. CASE Retry
  BY <1>9, CertAssumption DEF Retry, At, Bounded, watcher, history
<1>10. CASE EnsureAdmissionCA
  BY <1>10 DEF EnsureAdmissionCA, Bounded, watcher, history
<1>11. CASE GenerateSecret
  BY <1>11 DEF GenerateSecret, Bounded, watcher, history
<1>12. CASE Crash
  <2>1. forgot' \in BOOLEAN
    BY <1>12 DEF Crash
  <2>2. /\ update' = NoUpdate /\ seen' = secret /\ faults' \in 0..MaxFaults
        /\ started' = FALSE /\ scheduling' = 0 /\ watchChan' = {}
        /\ timers' = {} /\ worker' = "idle"
        /\ UNCHANGED <<now, secret, pods, gaveUp>>
    BY <1>12 DEF Crash
  <2>3. /\ NoUpdate \in [at: {"none", "begin", "ensure", "generating", "pods",
                              "waiting"}, attempt: 0..Attempts]
        /\ NoUpdate.at # "waiting"
    BY CertAssumption DEF NoUpdate
  <2> QED
    BY <2>1, <2>2, <2>3 DEF Bounded
<1>13. CASE Observe
  BY <1>13 DEF Observe, Bounded, watcher, history
<1>14. CASE PodStarts
  BY <1>14 DEF PodStarts, Bounded, watcher, history
<1>15. CASE Tick
  BY <1>15, CertAssumption DEF Tick, Bounded, watcher, history
<1>16. CASE UNCHANGED vars
  BY <1>16 DEF vars, Bounded
<1> QED
  BY <1>1, <1>2, <1>3, <1>4, <1>5, <1>6, <1>7, <1>8, <1>9, <1>10, <1>11,
     <1>12, <1>13, <1>14, <1>15, <1>16
     DEF Next, Watch, RollingUpdateCertificate, Ensure

\* The types of the variables, with the channel's room for one.
THEOREM TypeCorrect == Spec => []TypeOK
<1>1. Init => Bounded /\ OnePlace
  <2> SUFFICES ASSUME Init PROVE Bounded /\ OnePlace
    OBVIOUS
  <2>1. secret \in Secret /\ 0 \in Time
    BY CertAssumption DEF Init, Secret, Absent, Certificate, Time
  <2>2. pods \in Time
    BY <2>1 DEF Init, Secret
  <2>3. /\ now \in 0..MaxTime /\ faults \in 0..MaxFaults /\ scheduling \in Nat
        /\ worker \in {"idle", "generating"}
    BY CertAssumption DEF Init
  <2>4. started \in BOOLEAN /\ gaveUp \in BOOLEAN /\ forgot \in BOOLEAN
    BY DEF Init
  <2>5. /\ update \in [at: {"none", "begin", "ensure", "generating", "pods",
                            "waiting"}, attempt: 0..Attempts]
        /\ update.at # "waiting"
    BY CertAssumption DEF Init, NoUpdate
  <2>6. watchChan \subseteq Time /\ timers \subseteq Time /\ seen \in Secret
    BY <2>1 DEF Init
  <2>7. Bounded
    BY <2>1, <2>2, <2>3, <2>4, <2>5, <2>6 DEF Bounded
  <2> QED
    BY <2>7 DEF Init, OnePlace, NoCheck
<1>2. IInv /\ [Next]_vars => IInv'
  BY WatchStep, UpdateStep, EnsureStep, OtherStep DEF Next
<1>3. Bounded /\ OnePlace => TypeOK
  <2>1. Cardinality({}) = 0 /\ \A t : Cardinality({t}) = 1
    BY FS_EmptySet, FS_Singleton
  <2>2. OnePlace => watchChan = {} \/ \E t : watchChan = {t}
    BY DEF OnePlace, NoCheck
  <2>3. OnePlace => Cardinality(watchChan) = 0 \/ Cardinality(watchChan) = 1
    BY <2>1, <2>2, Zenon
  <2>4. OnePlace => Cardinality(watchChan) <= 1
    BY <2>3
  <2> QED
    BY <2>4 DEF Bounded, TypeOK
<1> QED
  BY <1>1, <1>2, <1>3, InitInv, OnePlaceStep, BoundedStep, PTL DEF Spec

=============================================================================
