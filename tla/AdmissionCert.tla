---------------------------- MODULE AdmissionCert ----------------------------
(***************************************************************************)
(* The certificate of the admission controller                             *)
(* (pkg/install/admissioncontroller/admission_controller.go).  It lives in *)
(* a Secret that the Reconcile worker generates when it is missing, and    *)
(* that a watcher, started once per process, replaces before it expires:   *)
(* a time is sent to a channel, the watcher sets a timer for it, the timer *)
(* runs the rolling update, and its success sends the next time.           *)
(*                                                                         *)
(* Simplifications.                                                        *)
(*  - Time passes in units much longer than an API call, a back-off or the *)
(*    delay of a cache, and not while any of them is under way.            *)
(*  - The component is not disabled, and nobody but the operator touches   *)
(*    the Secret.                                                          *)
(*  - A certificate is the time it expires.  The Secret is read from a     *)
(*    cache; reading it does not fail.                                     *)
(***************************************************************************)
EXTENDS Naturals, FiniteSets

CONSTANTS
    Life,      \* the time a certificate is valid (10 years)
    Margin,    \* how long before it expires it is replaced (7 days)
    Fallback,  \* when to look again if there is none (1 hour)
    Attempts,  \* of a rolling update (Steps of DefaultBackoff)
    MaxTime,   \* bound: the clock
    MaxFaults  \* bound: failed calls and crashes

ASSUME CertAssumption ==
    /\ Life \in Nat /\ Margin \in Nat /\ Fallback \in Nat
    /\ 0 < Fallback /\ Fallback + Margin < Life /\ 0 < Margin
    /\ Attempts \in Nat \ {0}
    /\ MaxTime \in Nat /\ MaxFaults \in Nat

VARIABLES
    now,         \* the clock
    secret,      \* the Secret in the API server
    seen,        \* the Secret in the cache
    pods,        \* when the certificate the pod has loaded expires, 0: no pod
    started,     \* has this process called NewAdmissionControllerMaintainer?
    scheduling,  \* goroutines in scheduleNextCertificateCheck
    watchChan,   \* the times in the channel, which has room for one
    timers,      \* the times timers are set for
    update,      \* the goroutine in retryRollingUpdateCertificate
    worker,      \* the Reconcile worker in ensureAdmissionCA
    faults,
    gaveUp,      \* history: has a rolling update run out of attempts?
    forgot       \* history: has a process ended between replacing the
                 \* certificate and recreating the pods?

vars == <<now, secret, seen, pods, started, scheduling, watchChan, timers,
          update, worker, faults, gaveUp, forgot>>

watcher == <<started, scheduling, watchChan, timers>>

history == <<gaveUp, forgot>>

-----------------------------------------------------------------------------

Time == 0..(MaxTime + Life)

Absent == [kind |-> "absent", expiry |-> 0]

Empty == [kind |-> "empty", expiry |-> 0]

Certificate(expiry) == [kind |-> "valid", expiry |-> expiry]

NoUpdate == [at |-> "none", attempt |-> 0]

\* A new cluster, or one where an older operator has left a certificate that
\* is still good.
Init ==
    /\ now = 0
    /\ secret \in {Absent} \cup {Certificate(e) : e \in 1..Life}
    /\ seen = secret
    /\ pods = secret.expiry
    /\ started = FALSE
    /\ scheduling = 0
    /\ watchChan = {} /\ timers = {}
    /\ update = NoUpdate
    /\ worker = "idle"
    /\ faults = 0
    /\ gaveUp = FALSE /\ forgot = FALSE

Fault == faults < MaxFaults /\ faults' = faults + 1

-----------------------------------------------------------------------------
(* The watcher *)

\* The first call of a process starts the watcher, whose goroutine begins by
\* scheduling a check.
NewAdmissionControllerMaintainer ==
    /\ ~started
    /\ started' = TRUE
    /\ scheduling' = scheduling + 1
    /\ UNCHANGED <<now, secret, seen, pods, watchChan, timers, update, worker,
                   faults, history>>

\* Mutant: a certificate is replaced when it expires.
CheckTimeLate == IF seen.kind = "valid" THEN seen.expiry ELSE now + Fallback

\* The time of the next check: some days before the certificate expires, or
\* soon if there is none.  It may have passed.
CheckTime ==
    IF seen.kind = "valid"
    THEN IF seen.expiry > Margin THEN seen.expiry - Margin ELSE 0
    ELSE now + Fallback

\* The check is dropped if the channel is full.
ScheduleNextCertificateCheck ==
    /\ scheduling > 0
    /\ scheduling' = scheduling - 1
    /\ watchChan' = IF watchChan = {} THEN {CheckTime} ELSE watchChan
    /\ UNCHANGED <<now, secret, seen, pods, started, timers, update, worker,
                   faults, history>>

\* The watcher's loop sets a timer for the time it receives.
ReceiveCheck ==
    /\ watchChan # {}
    /\ timers' = timers \cup watchChan
    /\ watchChan' = {}
    /\ UNCHANGED <<now, secret, seen, pods, started, scheduling, update,
                   worker, faults, history>>

\* The timer's goroutine.  There is never another one: a timer that waits here
\* for one to end would already be a second pending check.
TimerFires ==
    /\ update = NoUpdate
    /\ \E t \in timers : /\ t <= now
                         /\ timers' = timers \ {t}
    /\ update' = [at |-> "begin", attempt |-> 1]
    /\ UNCHANGED <<now, secret, seen, pods, started, scheduling, watchChan,
                   worker, faults, history>>

-----------------------------------------------------------------------------
(* The rolling update *)

At(step) == update.at = step

GoTo(step) ==
    /\ update' = [update EXCEPT !.at = step]
    /\ UNCHANGED <<gaveUp, scheduling>>

\* Mutant: a check is scheduled after a failure as well.
AttemptFailsAndSchedules ==
    /\ IF update.attempt < Attempts
       THEN /\ update' = [update EXCEPT !.at = "waiting"]
            /\ UNCHANGED gaveUp
       ELSE /\ update' = NoUpdate
            /\ gaveUp' = TRUE
    /\ scheduling' = scheduling + 1

\* Mutant: the attempts are not counted.
AttemptFailsUncounted ==
    /\ update' = [update EXCEPT !.at = "waiting"]
    /\ UNCHANGED <<gaveUp, scheduling>>

\* An attempt is followed by another after a back-off, the last one by none.
AttemptFails ==
    /\ IF update.attempt < Attempts
       THEN /\ update' = [update EXCEPT !.at = "waiting"]
            /\ UNCHANGED gaveUp
       ELSE /\ update' = NoUpdate
            /\ gaveUp' = TRUE
    /\ UNCHANGED scheduling

Retry ==
    /\ At("waiting")
    /\ update' = [at |-> "begin", attempt |-> update.attempt + 1]
    /\ UNCHANGED <<now, secret, seen, pods, watcher, worker, faults, history>>

\* The data are cleared to force regeneration.  A Secret without data has no
\* certificate whose expiry could be logged, which is an error.
ClearSecret ==
    /\ At("begin")
    /\ \/ /\ seen = Absent
          /\ GoTo("ensure")
          /\ UNCHANGED <<secret, faults>>
       \/ /\ seen = Empty
          /\ AttemptFails
          /\ UNCHANGED <<secret, faults>>
       \/ /\ seen.kind = "valid"
          /\ secret' = Empty
          /\ GoTo("ensure")
          /\ UNCHANGED faults
       \/ /\ seen.kind = "valid"
          /\ Fault
          /\ secret' \in {secret, Empty}
          /\ AttemptFails
    /\ UNCHANGED <<now, seen, pods, started, watchChan, timers, worker, forgot>>

Locked == worker = "generating" \/ At("generating")

\* ensureAdmissionCA in the rolling update.  What the cache shows is skipped,
\* though it may be the certificate that has just been cleared.
EnsureForUpdate ==
    /\ At("ensure") /\ ~Locked
    /\ GoTo(IF seen.kind = "valid" THEN "pods" ELSE "generating")
    /\ UNCHANGED <<now, secret, seen, pods, started, watchChan, timers,
                   worker, faults, forgot>>

\* A missing Secret is created, one without data is patched.  What was read
\* may be out of date: creating a Secret that exists is an error.
WriteFails == seen = Absent /\ secret # Absent

Generate == secret' = Certificate(now + Life)

GenerateForUpdate ==
    /\ At("generating")
    /\ \/ /\ ~WriteFails
          /\ Generate
          /\ GoTo("pods")
          /\ UNCHANGED faults
       \/ /\ WriteFails
          /\ AttemptFails
          /\ UNCHANGED <<secret, faults>>
       \/ /\ ~WriteFails
          /\ Fault
          /\ AttemptFails
          /\ Generate \/ UNCHANGED secret
    /\ UNCHANGED <<now, seen, pods, started, watchChan, timers, worker, forgot>>

\* Mutant: the pods are left alone.
LeavePods ==
    /\ At("pods")
    /\ update' = NoUpdate
    /\ scheduling' = scheduling + 1
    /\ UNCHANGED <<gaveUp, faults, pods>>
    /\ UNCHANGED <<now, secret, seen, started, watchChan, timers, worker,
                   forgot>>

\* The pods are deleted to pick up the certificate, and the next check is
\* scheduled.
DeletePods ==
    /\ At("pods")
    /\ \/ /\ pods' = 0
          /\ update' = NoUpdate
          /\ scheduling' = scheduling + 1
          /\ UNCHANGED <<gaveUp, faults>>
       \/ /\ Fault
          /\ pods' \in {pods, 0}
          /\ AttemptFails
    /\ UNCHANGED <<now, secret, seen, started, watchChan, timers, worker,
                   forgot>>

-----------------------------------------------------------------------------
(* The Reconcile worker *)

\* Mutant: a Secret that exists is skipped whatever its data are.
EnsureAdmissionCAOfExisting ==
    /\ started /\ worker = "idle" /\ ~Locked
    /\ seen = Absent
    /\ worker' = "generating"
    /\ UNCHANGED <<now, secret, seen, pods, watcher, update, faults, history>>

\* ensureAdmissionCA in Ensure; nothing to do if the cache shows a
\* certificate.
EnsureAdmissionCA ==
    /\ started /\ worker = "idle" /\ ~Locked
    /\ seen.kind # "valid"
    /\ worker' = "generating"
    /\ UNCHANGED <<now, secret, seen, pods, watcher, update, faults, history>>

\* An error ends the pass; another one follows.
GenerateSecret ==
    /\ worker = "generating"
    /\ worker' = "idle"
    /\ \/ ~WriteFails /\ Generate /\ UNCHANGED faults
       \/ WriteFails /\ UNCHANGED <<secret, faults>>
       \/ ~WriteFails /\ Fault /\ (Generate \/ UNCHANGED secret)
    /\ UNCHANGED <<now, seen, pods, watcher, update, history>>

-----------------------------------------------------------------------------
(* What surrounds them *)

\* The memory of the process is gone; the next one fills its cache first.
Crash ==
    /\ Fault
    /\ started' = FALSE
    /\ scheduling' = 0
    /\ watchChan' = {} /\ timers' = {}
    /\ update' = NoUpdate
    /\ worker' = "idle"
    /\ seen' = secret
    /\ forgot' = (forgot \/ pods \notin {0, secret.expiry})
    /\ UNCHANGED <<now, secret, pods, gaveUp>>

Observe ==
    /\ seen' = secret
    /\ UNCHANGED <<now, secret, pods, watcher, update, worker, faults, history>>

\* The server needs a certificate to start, and keeps the one it started with.
PodStarts ==
    /\ pods = 0 /\ secret.kind = "valid"
    /\ pods' = secret.expiry
    /\ UNCHANGED <<now, secret, seen, watcher, update, worker, faults, history>>

\* Time passes when nothing is under way.
Tick ==
    /\ now < MaxTime
    /\ started /\ scheduling = 0 /\ watchChan = {}
    /\ \A t \in timers : t > now
    /\ update = NoUpdate /\ worker = "idle"
    /\ seen = secret
    /\ now' = now + 1
    /\ UNCHANGED <<secret, seen, pods, watcher, update, worker, faults, history>>

Watch ==
    \/ NewAdmissionControllerMaintainer
    \/ ScheduleNextCertificateCheck
    \/ ReceiveCheck
    \/ TimerFires

RollingUpdateCertificate ==
    \/ ClearSecret
    \/ EnsureForUpdate
    \/ GenerateForUpdate
    \/ DeletePods
    \/ Retry

Ensure == EnsureAdmissionCA \/ GenerateSecret

Next ==
    \/ Watch \/ RollingUpdateCertificate \/ Ensure
    \/ Crash \/ Observe \/ PodStarts \/ Tick

Spec == Init /\ [][Next]_vars

\* The goroutines run, the cache follows, and passes of Reconcile recur.  The
\* worker and the update take the lock in turn.  Time need not pass.
FairSpec ==
    /\ Spec
    /\ WF_vars(Watch)
    /\ WF_vars(RollingUpdateCertificate)
    /\ SF_vars(EnsureAdmissionCA)
    /\ WF_vars(GenerateSecret)
    /\ WF_vars(Observe)

-----------------------------------------------------------------------------
(* Properties *)

Secret == [kind: {"absent", "empty", "valid"}, expiry: Time]

\* The types of the variables.
TypeOK ==
    /\ now \in 0..MaxTime
    /\ secret \in Secret
    /\ seen \in Secret
    /\ pods \in Time
    /\ started \in BOOLEAN
    /\ scheduling \in Nat
    /\ watchChan \subseteq Time /\ Cardinality(watchChan) <= 1
    /\ timers \subseteq Time
    /\ update \in [at: {"none", "begin", "ensure", "generating", "pods",
                        "waiting"},
                   attempt: 0..Attempts]
    /\ worker \in {"idle", "generating"}
    /\ faults \in 0..MaxFaults
    /\ gaveUp \in BOOLEAN
    /\ forgot \in BOOLEAN

\* The checks on their way through goroutines, channel, timers and updates.
Pending ==
    scheduling + Cardinality(watchChan) + Cardinality(timers)
        + IF update = NoUpdate THEN 0 ELSE 1

\* One check is pending at any time, handed from goroutine to channel to timer
\* to rolling update and back: none is doubled or dropped by a full channel,
\* and there is none only if an update has run out of attempts.
OneCheckPending ==
    /\ Pending <= 1
    /\ started /\ Pending = 0 => gaveUp

\* A certificate is replaced before it expires, whatever cache lag, failures,
\* restarts and the worker's own generation do to the time of the check,
\* unless the watcher has given up.
RenewedInTime == secret.kind = "valid" /\ secret.expiry <= now => gaveUp

\* The pod does not go on with a certificate that has expired, either, unless
\* moreover a process has ended before it recreated the pods.
ServedInTime == pods # 0 /\ pods <= now => gaveUp \/ forgot

\* A Secret that was cleared gets a certificate again.
Regenerated == secret = Empty ~> secret.kind = "valid"

=============================================================================
