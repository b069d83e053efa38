------------------------ MODULE SharedObjectsProofs ------------------------
(***************************************************************************)
(* TypeOK, AccountBeforePods, RulesKept, EntriesKept and WritesAreFinal    *)
(* for every set of accounts, values, Clusters and settings, lists of      *)
(* every length and any number of faults and edits.                        *)
(*                                                                         *)
(* The properties look at the API server, the operator at its caches, so   *)
(* the invariant bridges the two: what a cache holds exists (nobody takes  *)
(* a role, an account or a binding away), the object that a write goes out *)
(* from is the one that is there, and each place of a pass knows what the  *)
(* calls before it have left.  What a write makes of the lists it has read *)
(* is in MemberEnvProofs.                                                  *)
(***************************************************************************)
EXTENDS MemberEnvProofs

\* A record with the fields of a DaemonSet, whatever they hold.
MemberRecord(m) ==
    m = [exists |-> m.exists, account |-> m.account,
         env |-> m.env, args |-> m.args]

RoleRecord(r) == r = [exists |-> r.exists, rules |-> r.rules]

\* What the caches hold, the API server has or had, and nobody took it away.
CachesBehind ==
    /\ seen = [role |-> seen.role, accounts |-> seen.accounts,
               binding |-> seen.binding, member |-> seen.member]
    /\ RoleRecord(role) /\ RoleRecord(seen.role)
    /\ MemberRecord(member) /\ MemberRecord(seen.member)
    /\ seen.role.exists => role.exists
    /\ seen.accounts \subseteq accounts
    /\ seen.binding.exists => binding.exists
    /\ "member" \notin stale => seen.member = member

\* What a pass has made sure of when it gets to a place.
PassHasEnsured ==
    /\ pass = Idle \/ pass = [at |-> pass.at, cluster |-> pass.cluster]
    /\ pass.at \in {"idle", "role", "account", "binding", "member"}
    /\ pass.at = "idle" => pass = Idle
    /\ pass.at \in {"account", "binding", "member"} => role.exists
    /\ pass.at \in {"binding", "member"} => pass.cluster.account \in accounts
    /\ pass.at = "member" => binding.exists

IInv == CachesBehind /\ PassHasEnsured /\ AccountBeforePods

-----------------------------------------------------------------------------

\* Proceed goes to the next of the four places.
LEMMA ProceedGoesOn ==
    ASSUME Proceed
    PROVE  /\ At("role") => pass' = [pass EXCEPT !.at = "account"]
           /\ At("account") => pass' = [pass EXCEPT !.at = "binding"]
           /\ At("binding") => pass' = [pass EXCEPT !.at = "member"]
           /\ At("member") => pass' = Idle
<1> DEFINE place == CHOOSE i \in DOMAIN Order : Order[i] = pass.at
<1>1. /\ DOMAIN Order = 1..4 /\ Len(Order) = 4
      /\ Order[1] = "role" /\ Order[2] = "account"
      /\ Order[3] = "binding" /\ Order[4] = "member"
  BY DEF Order
<1>2. \A i \in 1..4 : Order[i] = pass.at => place = i
  BY <1>1
<1>3. /\ At("role") => place = 1
      /\ At("account") => place = 2
      /\ At("binding") => place = 3
      /\ At("member") => place = 4
  BY <1>1, <1>2 DEF At
<1>4. pass' = IF place = Len(Order) THEN Idle
                                   ELSE [pass EXCEPT !.at = Order[place+1]]
  BY Zenon DEF Proceed
<1> HIDE DEF place
<1> QED
  BY <1>1, <1>3, <1>4

\* The three ways in which a call of the worker ends.
LEMMA CallEnds ==
    ASSUME Written \/ Refused \/ Kept
    PROVE  Proceed \/ pass' = Idle
  BY DEF Written, Refused, Kept, ReturnError

\* The initial states satisfy the invariant.
LEMMA InitHolds == Init => IInv
<1> SUFFICES ASSUME Init PROVE IInv
  OBVIOUS
<1>1. PassHasEnsured
  BY DEF Init, PassHasEnsured, Idle
<1>2. CASE NewInstallation
  BY <1>1, <1>2 DEF Init, IInv, NewInstallation, CachesBehind, RoleRecord,
     MemberRecord, AccountBeforePods, Absent, NoMember
<1>3. ASSUME NEW old \in Clusters, OlderInstallation(old) PROVE IInv
  BY <1>1, <1>3 DEF Init, IInv, OlderInstallation, CachesBehind, RoleRecord,
     MemberRecord, AccountBeforePods, Bound
<1> QED
  BY <1>2, <1>3 DEF Init

\* After its Ensure the role exists, and the rest is as it was.
LEMMA RoleStepHolds == ASSUME IInv, EnsureClusterRole PROVE IInv'
<1> USE DEF IInv
<1>1. /\ role'.exists /\ RoleRecord(role')
      /\ UNCHANGED <<accounts, binding, member, seen>>
      /\ "member" \notin stale' => "member" \notin stale
      /\ Proceed \/ pass' = Idle
      /\ At("role")
  BY CallEnds DEF EnsureClusterRole, CachesBehind, RoleRecord
<1>2. CachesBehind'
  BY <1>1 DEF CachesBehind, RoleRecord, MemberRecord
<1>3. PassHasEnsured'
  BY <1>1, ProceedGoesOn DEF PassHasEnsured, Idle, At
<1>4. AccountBeforePods'
  BY <1>1 DEF AccountBeforePods
<1> QED
  BY <1>2, <1>3, <1>4

\* A pass goes on once its account exists, in the cache or by its own call.
LEMMA AccountStepHolds == ASSUME IInv, EnsureServiceAccount PROVE IInv'
<1> USE DEF IInv
<1>1. /\ accounts \subseteq accounts'
      /\ UNCHANGED <<role, binding, member, seen, stale>>
      /\ At("account")
  BY DEF EnsureServiceAccount
<1>2. \/ pass' = Idle
      \/ Proceed /\ pass.cluster.account \in accounts'
  BY CallEnds DEF EnsureServiceAccount, CachesBehind
<1>3. CachesBehind'
  BY <1>1 DEF CachesBehind, RoleRecord, MemberRecord
<1>4. PassHasEnsured'
  BY <1>1, <1>2, ProceedGoesOn DEF PassHasEnsured, Idle, At
<1>5. AccountBeforePods'
  BY <1>1 DEF AccountBeforePods
<1> QED
  BY <1>3, <1>4, <1>5

\* After its Ensure the binding exists.
LEMMA BindingStepHolds == ASSUME IInv, EnsureClusterRoleBinding PROVE IInv'
<1> USE DEF IInv
<1>1. /\ binding'.exists
      /\ UNCHANGED <<role, accounts, member, seen, stale>>
      /\ At("binding")
      /\ Proceed \/ pass' = Idle
  BY CallEnds DEF EnsureClusterRoleBinding, CachesBehind, Bound
<1>2. CachesBehind'
  BY <1>1 DEF CachesBehind, RoleRecord, MemberRecord
<1>3. PassHasEnsured'
  BY <1>1, ProceedGoesOn DEF PassHasEnsured, Idle, At
<1>4. AccountBeforePods'
  BY <1>1 DEF AccountBeforePods
<1> QED
  BY <1>2, <1>3, <1>4

\* A created DaemonSet has the account that the pass has ensured, an updated
\* one has the account that it had.
LEMMA MemberStepHolds == ASSUME IInv, EnsureMember PROVE IInv'
<1> USE DEF IInv
<1>1. /\ UNCHANGED <<role, accounts, binding, seen>>
      /\ At("member")
  BY DEF EnsureMember
<1>2. /\ role.exists /\ binding.exists /\ pass.cluster.account \in accounts
      /\ pass # Idle
  BY <1>1 DEF PassHasEnsured, At, Idle
<1>3. /\ MemberRecord(member')
      /\ \/ member' = member /\ stale' = stale
         \/ /\ "member" \in stale'
            /\ member'.account \in accounts
      /\ Proceed \/ pass' = Idle
  <2>1. CASE Refused /\ UNCHANGED <<member, stale>>
    BY <2>1, CallEnds DEF CachesBehind, MemberRecord
  <2>2. CASE CreateMember
    BY <2>2, <1>2, CallEnds DEF CreateMember, NewMember, MemberRecord
  <2>3. CASE UpdateMember
    <3>1. seen.member = member /\ member.exists
      BY <2>3 DEF UpdateMember, CachesBehind
    <3>2. member.account \in accounts
      BY <3>1 DEF AccountBeforePods
    <3> DEFINE env == MergeMemberEnv(member.env,
                                     WantedEnv(pass.cluster, settings))
               args == SetMigrationCheck(member.args, settings)
    <3>3. member' = [member EXCEPT !.env = env, !.args = args]
      BY <2>3, <3>1 DEF UpdateMember, UpdatedMember
    <3>4. MemberRecord(member)
      BY DEF CachesBehind
    <3> HIDE DEF env, args
    <3>5. member' = [exists |-> member.exists, account |-> member.account,
                     env |-> env, args |-> args]
      BY <3>3, <3>4 DEF MemberRecord
    <3> QED
      BY <2>3, <3>2, <3>5, CallEnds DEF UpdateMember, MemberRecord
  <2>4. CASE KeepMember
    BY <2>4, CallEnds DEF KeepMember, CachesBehind, MemberRecord
  <2>5. CASE MemberRefused
    BY <2>5, CallEnds DEF MemberRefused, CachesBehind, MemberRecord
  <2> QED
    BY <2>1, <2>2, <2>3, <2>4, <2>5 DEF EnsureMember
<1>4. CachesBehind'
  BY <1>1, <1>3 DEF CachesBehind, RoleRecord, MemberRecord
<1>5. PassHasEnsured'
  BY <1>1, <1>2, <1>3, ProceedGoesOn DEF PassHasEnsured, Idle, At
<1>6. AccountBeforePods'
  BY <1>1, <1>2, <1>3 DEF AccountBeforePods
<1> QED
  BY <1>4, <1>5, <1>6

\* A delivery brings a cache to what the API server has.
LEMMA InformersHold == ASSUME IInv, Informers PROVE IInv'
<1> USE DEF IInv
<1>1. UNCHANGED <<objects, pass>>
  BY DEF Informers, CacheCatchesUp
<1>2. PassHasEnsured' /\ AccountBeforePods'
  BY <1>1 DEF PassHasEnsured, AccountBeforePods, objects, Idle
<1>3. CASE CacheCatchesUp("role", role)
  BY <1>3, <1>2 DEF CacheCatchesUp, CachesBehind, RoleRecord, MemberRecord,
     objects
<1>4. CASE CacheCatchesUp("accounts", accounts)
  BY <1>4, <1>2 DEF CacheCatchesUp, CachesBehind, RoleRecord, MemberRecord,
     objects
<1>5. CASE CacheCatchesUp("binding", binding)
  BY <1>5, <1>2 DEF CacheCatchesUp, CachesBehind, RoleRecord, MemberRecord,
     objects
<1>6. CASE CacheCatchesUp("member", member)
  BY <1>6, <1>2 DEF CacheCatchesUp, CachesBehind, RoleRecord, MemberRecord,
     objects
<1> QED
  BY <1>3, <1>4, <1>5, <1>6 DEF Informers

\* The steps that begin, break off and repeat passes.
LEMMA PassesHold ==
    ASSUME IInv, StartPass \/ CallFails \/ Restart \/ Resync \/ EditCluster
    PROVE  IInv'
<1> USE DEF IInv
<1>1. UNCHANGED objects
  BY DEF StartPass, CallFails, Restart, Resync, EditCluster
<1>2. AccountBeforePods'
  BY <1>1 DEF AccountBeforePods, objects
<1>3. PassHasEnsured'
  <2>1. CASE StartPass
    BY <2>1 DEF StartPass, PassHasEnsured, Idle, Order
  <2>2. CASE CallFails \/ Restart
    BY <2>2 DEF CallFails, Restart, ReturnError, PassHasEnsured, Idle
  <2>3. CASE Resync \/ EditCluster
    BY <2>3 DEF Resync, EditCluster, PassHasEnsured, Idle, objects
  <2> QED
    BY <2>1, <2>2, <2>3
<1>4. CachesBehind'
  <2>1. CASE Restart
    BY <2>1 DEF Restart, CachesBehind, RoleRecord, MemberRecord, objects
  <2>2. CASE StartPass \/ CallFails \/ Resync \/ EditCluster
    BY <2>2 DEF StartPass, CallFails, Resync, EditCluster, CachesBehind,
       RoleRecord, MemberRecord, objects
  <2> QED
    BY <2>1, <2>2
<1> QED
  BY <1>2, <1>3, <1>4

\* An administrator changes rules, and does not take the role away.
LEMMA EditRoleHolds == ASSUME IInv, EditRole PROVE IInv'
<1> USE DEF IInv
<1>1. /\ role'.exists /\ RoleRecord(role')
      /\ UNCHANGED <<accounts, binding, member, seen, pass>>
      /\ "member" \notin stale' => "member" \notin stale
  <2>1. /\ role.exists /\ RoleRecord(role)
        /\ \E rules : role' = [role EXCEPT !.rules = rules]
    BY DEF EditRole, CachesBehind
  <2>2. role'.exists /\ RoleRecord(role')
    BY <2>1 DEF RoleRecord
  <2> QED
    BY <2>2 DEF EditRole
<1>2. CachesBehind'
  BY <1>1 DEF CachesBehind, RoleRecord, MemberRecord
<1>3. PassHasEnsured' /\ AccountBeforePods'
  BY <1>1 DEF PassHasEnsured, AccountBeforePods, Idle
<1> QED
  BY <1>2, <1>3

\* An edit of the DaemonSet leaves its account as it is.
LEMMA EditMemberHolds == ASSUME IInv, EditMember PROVE IInv'
<1> USE DEF IInv
<1>1. /\ UNCHANGED <<role, accounts, binding, seen, pass>>
      /\ "member" \in stale'
  BY DEF EditMember
<1>2. /\ MemberRecord(member')
      /\ member'.exists => member'.account \in accounts
  <2>1. member.account \in accounts /\ MemberRecord(member)
    BY DEF EditMember, AccountBeforePods, CachesBehind
  <2>2. ASSUME NEW env, member' = [member EXCEPT !.env = env]
        PROVE  MemberRecord(member') /\ member'.account = member.account
    BY <2>1, <2>2 DEF MemberRecord
  <2>3. ASSUME NEW args, member' = [member EXCEPT !.args = args]
        PROVE  MemberRecord(member') /\ member'.account = member.account
    BY <2>1, <2>3 DEF MemberRecord
  <2>4. CASE member' = NoMember
    BY <2>4 DEF NoMember, MemberRecord
  <2> QED
    BY <2>1, <2>2, <2>3, <2>4 DEF EditMember
<1>3. CachesBehind'
  BY <1>1, <1>2 DEF CachesBehind, RoleRecord, MemberRecord
<1>4. PassHasEnsured'
  BY <1>1 DEF PassHasEnsured, Idle
<1>5. AccountBeforePods'
  BY <1>1, <1>2 DEF AccountBeforePods, EditMember
<1> QED
  BY <1>3, <1>4, <1>5

-----------------------------------------------------------------------------

\* Every step keeps the invariant.
LEMMA NextHolds == IInv /\ [Next]_vars => IInv'
<1> SUFFICES ASSUME IInv, [Next]_vars PROVE IInv'
  OBVIOUS
<1>1. CASE EnsureClusterRole
  BY <1>1, RoleStepHolds
<1>2. CASE EnsureServiceAccount
  BY <1>2, AccountStepHolds
<1>3. CASE EnsureClusterRoleBinding
  BY <1>3, BindingStepHolds
<1>4. CASE EnsureMember
  BY <1>4, MemberStepHolds
<1>5. CASE Informers
  BY <1>5, InformersHold
<1>6. CASE StartPass \/ CallFails \/ Restart \/ Resync \/ EditCluster
  BY <1>6, PassesHold
<1>7. CASE EditRole
  BY <1>7, EditRoleHolds
<1>8. CASE EditMember
  BY <1>8, EditMemberHolds
<1>9. CASE UNCHANGED vars
  BY <1>9 DEF IInv, CachesBehind, PassHasEnsured, AccountBeforePods, vars,
     RoleRecord, MemberRecord, Idle
<1> QED
  BY <1>1, <1>2, <1>3, <1>4, <1>5, <1>6, <1>7, <1>8, <1>9 DEF Next, Worker

\* Whatever fails, restarts or is edited, and however often: the DaemonSet is
\* only there once the account of its pods, the role and the binding are.
THEOREM AccountFirst == Spec => []AccountBeforePods
<1>1. IInv => AccountBeforePods
  BY DEF IInv
<1> QED
  BY <1>1, InitHolds, NextHolds, PTL DEF Spec

-----------------------------------------------------------------------------
(* Lists that are edited *)

\* With an element more or less, a list is a list of the same kind.
LEMMA ListEdited ==
    ASSUME NEW A, NEW list \in Seq(A)
    PROVE  /\ \A e \in A : Append(list, e) \in Seq(A)
           /\ \A i \in DOMAIN list : RemoveAt(list, i) \in Seq(A)
           /\ \A i \in 1..Len(list)+1, e \in A : InsertAt(list, i, e) \in Seq(A)
<1>1. Len(list) \in Nat /\ DOMAIN list = 1..Len(list)
  BY LenProperties
<1>2. ASSUME NEW i \in DOMAIN list PROVE RemoveAt(list, i) \in Seq(A)
  <2>1. /\ 1 \in 1..Len(list)+1 /\ i - 1 \in 0..Len(list)
        /\ i + 1 \in 1..Len(list)+1 /\ Len(list) \in 0..Len(list)
    BY <1>1
  <2>2. SubSeq(list, 1, i-1) \in Seq(A)
    BY <2>1, PartOfList
  <2>3. SubSeq(list, i+1, Len(list)) \in Seq(A)
    BY <2>1, PartOfList
  <2> QED
    BY <2>2, <2>3, ConcatProperties DEF RemoveAt
<1>3. ASSUME NEW i \in 1..Len(list)+1, NEW e \in A
      PROVE  InsertAt(list, i, e) \in Seq(A)
  <2>1. /\ 1 \in 1..Len(list)+1 /\ i - 1 \in 0..Len(list)
        /\ Len(list) \in 0..Len(list)
    BY <1>1
  <2>2. SubSeq(list, 1, i-1) \in Seq(A)
    BY <2>1, PartOfList
  <2>3. SubSeq(list, i, Len(list)) \in Seq(A)
    BY <2>1, PartOfList
  <2>4. \A s \in Seq(A), t \in Seq(A), u \in Seq(A) : s \o t \o u \in Seq(A)
    BY ConcatProperties
  <2>5. <<e>> \in Seq(A)
    OBVIOUS
  <2> QED
    BY <2>2, <2>3, <2>4, <2>5 DEF InsertAt
<1> QED
  BY <1>2, <1>3, AppendProperties

-----------------------------------------------------------------------------
(* The rules of the role *)

\* A cache of the role that is not behind holds the role.
RoleInv ==
    /\ role.rules \in Seq(Rule) /\ seen.role.rules \in Seq(Rule)
    /\ "role" \notin stale => seen.role = role
    /\ disturbances \in Nat

\* A list is a prefix of itself, and of itself with an element more.
LEMMA PrefixOfAppended ==
    ASSUME NEW rules \in Seq(Rule), NEW rule \in Rule
    PROVE  IsPrefix(rules, rules) /\ IsPrefix(rules, Append(rules, rule))
<1> DEFINE longer == Append(rules, rule)
           n == Len(rules)
<1>1. /\ n \in Nat /\ longer \in Seq(Rule) /\ Len(longer) = n + 1
      /\ \A i \in 1..n : longer[i] = rules[i]
  BY AppendProperties
<1>2. \A i \in 1..n : rules[i] \in Rule /\ longer[i] \in Rule
  BY <1>1
<1> HIDE DEF longer, n
<1>3. 1 \in Int /\ n \in Int
  BY <1>1
<1>4. /\ SubSeq(rules, 1, n) \in Seq(Rule)
      /\ Len(SubSeq(rules, 1, n)) = n
      /\ \A i \in 1..n : SubSeq(rules, 1, n)[i] = rules[i]
  <2>1. \A i \in 1..n : rules[i] \in Rule
    BY <1>2
  <2> QED
    BY <1>1, <2>1, SubSeqProperties
<1>5. /\ SubSeq(longer, 1, n) \in Seq(Rule)
      /\ Len(SubSeq(longer, 1, n)) = n
      /\ \A i \in 1..n : SubSeq(longer, 1, n)[i] = longer[i]
  <2>1. \A i \in 1..n : longer[i] \in Rule
    BY <1>2
  <2> QED
    BY <1>1, <2>1, SubSeqProperties
<1>7. \A i \in 1..n : SubSeq(rules, 1, n)[i] = SubSeq(longer, 1, n)[i]
  BY <1>1, <1>4, <1>5
<1>8. SubSeq(rules, 1, n) = SubSeq(longer, 1, n)
  BY <1>4, <1>5, <1>7
<1> QED
  BY <1>1, <1>8 DEF IsPrefix, n, longer

\* The operator's only write of a role that exists adds a rule to it.
LEMMA RoleWritten ==
    ASSUME RoleInv, EnsureClusterRole
    PROVE  /\ role'.rules \in Seq(Rule)
           /\ "role" \notin stale' => "role" \notin stale /\ role' = role
           /\ role.exists => \/ role' = role
                             \/ role'.rules = Append(role.rules, "deletes")
<1>1. CASE role' = [exists |-> TRUE, rules |-> ClusterRole]
           /\ ~role.exists /\ stale' = stale \cup {"role"}
  <2>1. ClusterRole \in Seq(Rule)
    BY DEF ClusterRole, Rule
  <2> QED
    BY <1>1, <2>1
<1>2. CASE UNCHANGED <<role, stale>>
  BY <1>2 DEF RoleInv
<1>3. CASE role' = [seen.role EXCEPT !.rules = Append(@, "deletes")]
           /\ "role" \notin stale /\ stale' = stale \cup {"role"}
  <2>1. seen.role = role
    BY <1>3 DEF RoleInv
  <2>2. Append(role.rules, "deletes") \in Seq(Rule)
    BY ListEdited DEF RoleInv, Rule
  <2>3. CASE "rules" \in DOMAIN role
    BY <1>3, <2>1, <2>2, <2>3
  <2> QED
    BY <1>3, <2>1, <2>2, <2>3
<1> QED
  BY <1>1, <1>2, <1>3 DEF EnsureClusterRole

LEMMA RoleInvStep == IInv /\ RoleInv /\ [Next]_vars => RoleInv'
<1> SUFFICES ASSUME IInv, RoleInv, [Next]_vars PROVE RoleInv'
  OBVIOUS
<1>1. CASE EnsureClusterRole
  BY <1>1, RoleWritten DEF EnsureClusterRole, RoleInv
<1>2. CASE EditRole
  <2>1. /\ "role" \in stale' /\ seen' = seen
        /\ disturbances' \in Nat
    BY <1>2 DEF EditRole, Disturbance, RoleInv
  <2>2. RoleRecord(role)
    BY DEF IInv, CachesBehind
  <2>3. /\ \A rule \in Rule : Append(role.rules, rule) \in Seq(Rule)
        /\ \A i \in DOMAIN role.rules : RemoveAt(role.rules, i) \in Seq(Rule)
    BY ListEdited DEF RoleInv
  <2>4. role'.rules \in Seq(Rule)
    BY <1>2, <2>2, <2>3 DEF EditRole, RoleRecord
  <2> QED
    BY <2>1, <2>4 DEF RoleInv
<1>3. CASE Informers
  <2>1. UNCHANGED <<role, disturbances>>
    BY <1>3 DEF Informers, CacheCatchesUp, objects, budgets
  <2>2. seen = [role |-> seen.role, accounts |-> seen.accounts,
                binding |-> seen.binding, member |-> seen.member]
    BY DEF IInv, CachesBehind
  <2>3. CASE CacheCatchesUp("role", role)
    BY <2>1, <2>2, <2>3 DEF CacheCatchesUp, RoleInv
  <2>4. CASE CacheCatchesUp("accounts", accounts)
    BY <2>1, <2>2, <2>4 DEF CacheCatchesUp, RoleInv
  <2>5. CASE CacheCatchesUp("binding", binding)
    BY <2>1, <2>2, <2>5 DEF CacheCatchesUp, RoleInv
  <2>6. CASE CacheCatchesUp("member", member)
    BY <2>1, <2>2, <2>6 DEF CacheCatchesUp, RoleInv
  <2> QED
    BY <1>3, <2>3, <2>4, <2>5, <2>6 DEF Informers
<1>4. CASE Restart
  BY <1>4 DEF Restart, RoleInv, objects
<1>5. CASE EnsureMember
  <2>1. UNCHANGED <<role, seen, disturbances>>
    BY <1>5 DEF EnsureMember
  <2>2. "role" \notin stale' => "role" \notin stale
    BY <1>5 DEF EnsureMember, CreateMember, UpdateMember, KeepMember,
       MemberRefused
  <2> QED
    BY <2>1, <2>2 DEF RoleInv
<1>6. CASE EditMember
  BY <1>6 DEF EditMember, Disturbance, RoleInv
<1>7. CASE EditCluster
  BY <1>7 DEF EditCluster, Disturbance, RoleInv, objects
<1>8. CASE \/ StartPass \/ EnsureServiceAccount \/ EnsureClusterRoleBinding
           \/ CallFails \/ Resync \/ UNCHANGED vars
  <2>1. UNCHANGED <<role, seen, stale, disturbances>>
    BY <1>8 DEF StartPass, EnsureServiceAccount, EnsureClusterRoleBinding,
       CallFails, Resync, vars, objects, budgets
  <2> QED
    BY <2>1 DEF RoleInv
<1> QED
  BY <1>1, <1>2, <1>3, <1>4, <1>5, <1>6, <1>7, <1>8 DEF Next, Worker

\* A rule of an administrator stays in its place through the writes of the
\* operator, also one added after the operator has read the role.
THEOREM RulesStay == Spec => RulesKept
<1>1. Init => RoleInv
  <2> SUFFICES ASSUME Init PROVE RoleInv
    OBVIOUS
  <2>1. role.rules \in Seq(Rule)
    <3>1. <<>> \in Seq(Rule) /\ <<"other", "reads">> \in Seq(Rule)
      BY DEF Rule
    <3>2. role.rules = <<>> \/ role.rules = <<"other", "reads">>
      <4>1. CASE NewInstallation
        BY <4>1 DEF NewInstallation
      <4>2. ASSUME NEW old \in Clusters, OlderInstallation(old)
            PROVE  role.rules = <<"other", "reads">>
        <5>1. role = [exists |-> TRUE, rules |-> <<"other", "reads">>]
          BY <4>2, Zenon DEF OlderInstallation
        <5> QED
          BY <5>1
      <4> QED
        BY <4>1, <4>2 DEF Init
    <3> QED
      BY <3>1, <3>2
  <2> QED
    BY <2>1 DEF Init, RoleInv
<1>2. IInv /\ RoleInv /\ [Next]_vars
        => [ByOperator /\ role.exists
              => IsPrefix(role.rules, role'.rules)]_vars
  <2> SUFFICES ASSUME IInv, RoleInv, Next, ByOperator, role.exists
               PROVE  IsPrefix(role.rules, role'.rules)
    OBVIOUS
  <2>1. CASE role' = role
    BY <2>1, PrefixOfAppended DEF RoleInv, Rule
  <2>2. CASE EnsureClusterRole
    BY <2>2, RoleWritten, PrefixOfAppended DEF RoleInv, Rule
  <2>3. CASE EditRole
    BY <2>3 DEF EditRole, Disturbance, ByOperator, RoleInv
  <2>4. role' = role \/ EnsureClusterRole \/ EditRole
    BY DEF Next, Worker, StartPass, EnsureServiceAccount,
       EnsureClusterRoleBinding, EnsureMember, CallFails, Restart, Informers,
       CacheCatchesUp, Resync, EditCluster, EditMember, objects
  <2> QED
    BY <2>1, <2>2, <2>3, <2>4
<1> QED
  BY <1>1, <1>2, InitHolds, NextHolds, RoleInvStep, PTL DEF Spec, RulesKept

-----------------------------------------------------------------------------
(* What a member container is given *)

\* The wanted environment of a Cluster begins with a fixed variable.
LEMMA WantedEnvType ==
    ASSUME NEW c \in Clusters, NEW s \in Settings
    PROVE  /\ WantedEnv(c, s) \in Seq(EnvVar)
           /\ 2 \in 1..Len(WantedEnv(c, s)) + 1
<1> DEFINE fixed == <<[name |-> "fixed", value |-> c.value]>>
           version == IF HasVersion(c.extra.env) THEN <<>>
                      ELSE <<[name |-> "version", value |-> s.version]>>
<1>1. /\ c.value \in Value /\ s.version \in Value
      /\ c.extra.env \in Seq(EnvVar)
  BY SharedAssumption
<1>2. fixed \in Seq(EnvVar)
  <2>1. [name |-> "fixed", value |-> c.value] \in EnvVar
    BY <1>1 DEF EnvVar, Name
  <2> QED
    BY <2>1
<1>12. Len(fixed) = 1
  OBVIOUS
<1>3. version \in Seq(EnvVar)
  <2>1. [name |-> "version", value |-> s.version] \in EnvVar
    BY <1>1 DEF EnvVar, Name
  <2> QED
    BY <2>1
<1>4. WantedEnv(c, s) = fixed \o version \o c.extra.env
  BY Zenon DEF WantedEnv
<1> HIDE DEF fixed, version
<1> DEFINE begin == fixed \o version
<1>5. begin \in Seq(EnvVar)
  BY <1>2, <1>3, ConcatProperties
<1>6. Len(begin) = Len(fixed) + Len(version)
  BY <1>2, <1>3, ConcatProperties
<1> HIDE DEF begin
<1>7. WantedEnv(c, s) = begin \o c.extra.env
  BY <1>4 DEF begin
<1>8. WantedEnv(c, s) \in Seq(EnvVar)
  BY <1>1, <1>5, <1>7, ConcatProperties
<1>9. Len(WantedEnv(c, s)) = Len(begin) + Len(c.extra.env)
  BY <1>1, <1>5, <1>7, ConcatProperties
<1>10. Len(version) \in Nat /\ Len(c.extra.env) \in Nat
  BY <1>1, <1>3, LenProperties
<1>11. Len(WantedEnv(c, s)) \in Nat \ {0}
  <2>1. \A v \in Nat, w \in Nat : (1 + v) + w \in Nat \ {0}
    OBVIOUS
  <2>2. Len(WantedEnv(c, s)) = (1 + Len(version)) + Len(c.extra.env)
    BY <1>6, <1>9, <1>12, Zenon
  <2> QED
    BY <1>10, <2>1, <2>2, Zenon
<1> QED
  BY <1>8, <1>11

\* A member container that is there, with the wanted variables and the flag.
HasWhatIsAsked(m, c, s) ==
    /\ MemberRecord(m) /\ m.exists
    /\ m.env \in Seq(EnvVar) /\ m.args \in Seq(Arg)
    /\ Among(m.env, Configured(Names(WantedEnv(c, s)))) = WantedEnv(c, s)
    /\ Among(m.args, Flags) = <<Flag(s.check)>>
    /\ ~NeedToUpdate(m, c, s)

\* A new DaemonSet has what is asked.
LEMMA NewMemberHasIt ==
    ASSUME NEW c \in Clusters, NEW s \in Settings
    PROVE  HasWhatIsAsked(NewMember(c, s), c, s)
<1> DEFINE m == NewMember(c, s)
           wanted == WantedEnv(c, s)
<1>1. wanted \in Seq(EnvVar)
  BY WantedEnvType
<1>2. <<"--v=5">> \in Seq(Arg)
  BY DEF Arg
<1> DEFINE args == SetMigrationCheck(<<"--v=5">>, s)
<1>3. /\ args \in Seq(Arg)
      /\ Among(args, Flags) = <<Flag(s.check)>>
      /\ SetMigrationCheck(args, s) = args
  <2>1. \A list \in Seq(Arg) :
          /\ SetMigrationCheck(list, s) \in Seq(Arg)
          /\ Among(SetMigrationCheck(list, s), Flags) = <<Flag(s.check)>>
          /\ SetMigrationCheck(SetMigrationCheck(list, s), s)
               = SetMigrationCheck(list, s)
    BY FlagIsSet, Zenon
  <2> QED
    BY <1>2, <2>1, Zenon
<1>4. Among(wanted, Configured(Names(wanted))) = wanted
  <2> HIDE DEF wanted
  <2>1. wanted \in Seq(Configured(Names(wanted)))
    BY <1>1, WantedConfigured
  <2> QED
    BY <2>1, AmongAll
<1>5. MergeMemberEnv(wanted, wanted) = wanted
  <2> HIDE DEF wanted
  <2> QED
    BY <1>1, <1>4, MergeIsFinal
<1> HIDE DEF wanted, args
<1>6. m = [exists |-> TRUE, account |-> c.account, env |-> wanted, args |-> args]
  BY DEF NewMember, wanted, args
<1>7. UpdatedMember(m, c, s) = m
  <2>1. UpdatedMember(m, c, s)
          = [m EXCEPT !.env = MergeMemberEnv(wanted, wanted),
                      !.args = SetMigrationCheck(args, s)]
    <3> HIDE DEF m
    <3> QED
      BY <1>6 DEF UpdatedMember, wanted
  <2> HIDE DEF m
  <2> QED
    BY <1>3, <1>5, <1>6, <2>1
<1> HIDE DEF m
<1> QED
  BY <1>1, <1>3, <1>4, <1>6, <1>7 DEF HasWhatIsAsked, MemberRecord,
     NeedToUpdate, wanted, m

\* An updated DaemonSet has what is asked and what others have put there.
LEMMA UpdatedMemberHasIt ==
    ASSUME NEW c \in Clusters, NEW s \in Settings, NEW m,
           MemberRecord(m), m.exists,
           m.env \in Seq(EnvVar), m.args \in Seq(Arg)
    PROVE  /\ HasWhatIsAsked(UpdatedMember(m, c, s), c, s)
           /\ UpdatedMember(m, c, s).account = m.account
           /\ LET names == Names(WantedEnv(c, s))
              IN Among(UpdatedMember(m, c, s).env, Foreign(names))
                   = Among(m.env, Foreign(names))
           /\ OtherArgs(UpdatedMember(m, c, s).args) = OtherArgs(m.args)
<1> DEFINE u == UpdatedMember(m, c, s)
           wanted == WantedEnv(c, s)
           env == MergeMemberEnv(m.env, wanted)
           args == SetMigrationCheck(m.args, s)
<1>1. wanted \in Seq(EnvVar)
  BY WantedEnvType
<1>2. /\ env \in Seq(EnvVar)
      /\ Among(env, Configured(Names(wanted))) = wanted
      /\ Among(env, Foreign(Names(wanted)))
           = Among(m.env, Foreign(Names(wanted)))
  <2> HIDE DEF wanted
  <2> QED
    BY <1>1, MergeKeepsAndPlaces, Zenon
<1>3. MergeMemberEnv(env, wanted) = env
  <2> HIDE DEF wanted, env
  <2> QED
    BY <1>1, <1>2, MergeIsFinal
<1>4. /\ args \in Seq(Arg)
      /\ OtherArgs(args) = OtherArgs(m.args)
      /\ Among(args, Flags) = <<Flag(s.check)>>
      /\ SetMigrationCheck(args, s) = args
  BY FlagIsSet, Zenon
<1> HIDE DEF wanted, env, args
<1>5. u = [exists |-> m.exists, account |-> m.account,
           env |-> env, args |-> args]
  <2>1. u = [m EXCEPT !.env = env, !.args = args]
    BY DEF UpdatedMember, wanted, env, args
  <2> HIDE DEF u
  <2> QED
    BY <2>1 DEF MemberRecord
<1>6. UpdatedMember(u, c, s) = u
  <2>1. UpdatedMember(u, c, s)
          = [u EXCEPT !.env = MergeMemberEnv(env, wanted),
                      !.args = SetMigrationCheck(args, s)]
    <3> HIDE DEF u
    <3> QED
      BY <1>5 DEF UpdatedMember, wanted
  <2> HIDE DEF u
  <2> QED
    BY <1>3, <1>4, <1>5, <2>1
<1> HIDE DEF u
<1>7. HasWhatIsAsked(u, c, s)
  BY <1>2, <1>4, <1>5, <1>6 DEF HasWhatIsAsked, MemberRecord,
     NeedToUpdate, wanted
<1> QED
  BY <1>2, <1>4, <1>5, <1>7 DEF wanted, u

-----------------------------------------------------------------------------
(* The types of the variables *)

\* The two ways to write the DaemonSet, of a pass that knows its Cluster.
LEMMA MemberWritten ==
    ASSUME IInv, TypeOK, EnsureMember, member' # member
    PROVE  /\ pass.cluster \in Clusters
           /\ HasWhatIsAsked(member', pass.cluster, settings)
           /\ member'.account \in Account
           /\ member.exists =>
                LET names == Names(WantedEnv(pass.cluster, settings))
                IN /\ member'.account = member.account
                   /\ Among(member'.env, Foreign(names))
                        = Among(member.env, Foreign(names))
                   /\ OtherArgs(member'.args) = OtherArgs(member.args)
<1> DEFINE c == pass.cluster
<1>1. c \in Clusters /\ settings \in Settings
  BY DEF EnsureMember, At, TypeOK, Idle
<1>2. c.account \in Account
  BY <1>1, SharedAssumption
<1>3. CASE CreateMember
  <2>1. ~member.exists
    BY <1>3 DEF CreateMember
  <2>2. member' = NewMember(c, settings)
    BY <1>3 DEF CreateMember
  <2>3. HasWhatIsAsked(member', c, settings)
    BY <1>1, <2>2, NewMemberHasIt
  <2>4. member'.account = c.account
    BY <2>2 DEF NewMember
  <2> QED
    BY <1>1, <1>2, <2>1, <2>3, <2>4
<1>4. CASE UpdateMember
  <2>1. seen.member = member /\ member.exists /\ MemberRecord(member)
    BY <1>4 DEF UpdateMember, IInv, CachesBehind
  <2>2. member' = UpdatedMember(member, c, settings)
    BY <1>4, <2>1 DEF UpdateMember
  <2>3. /\ member.account \in Account
        /\ member.env \in Seq(EnvVar) /\ member.args \in Seq(Arg)
    BY <2>1 DEF TypeOK, IsMember, NoMember
  <2>4. /\ HasWhatIsAsked(member', c, settings)
        /\ member'.account = member.account
        /\ LET names == Names(WantedEnv(c, settings))
           IN Among(member'.env, Foreign(names))
                = Among(member.env, Foreign(names))
        /\ OtherArgs(member'.args) = OtherArgs(member.args)
    BY <1>1, <2>1, <2>2, <2>3, UpdatedMemberHasIt, Zenon
  <2> QED
    BY <1>1, <2>3, <2>4
<1>5. CreateMember \/ UpdateMember
  BY DEF EnsureMember, KeepMember, MemberRefused
<1> QED
  BY <1>3, <1>4, <1>5

\* The API server's objects and the Cluster.
ObjectsTyped ==
    /\ cluster \in Clusters /\ settings \in Settings
    /\ IsRole(role) /\ accounts \subseteq Account
    /\ IsBinding(binding) /\ IsMember(member)

\* The operator's caches of them.
CachesTyped ==
    /\ IsRole(seen.role) /\ seen.accounts \subseteq Account
    /\ IsBinding(seen.binding) /\ IsMember(seen.member)
    /\ stale \subseteq {"role", "member"}

\* The worker and the bounds.
WorkerTyped ==
    /\ queued \in BOOLEAN
    /\ pass = Idle \/ pass \in [at: Range(Order), cluster: Clusters]
    /\ faults \in 0..MaxFaults /\ disturbances \in 0..MaxDisturbances

LEMMA TypedParts == TypeOK <=> ObjectsTyped /\ CachesTyped /\ WorkerTyped
  BY DEF TypeOK, ObjectsTyped, CachesTyped, WorkerTyped

\* The places of a pass.
LEMMA Places == Range(Order) = {"role", "account", "binding", "member"}
<1>1. /\ DOMAIN Order = 1..4
      /\ Order[1] = "role" /\ Order[2] = "account"
      /\ Order[3] = "binding" /\ Order[4] = "member"
  BY DEF Order
<1>2. 1..4 = {1, 2, 3, 4}
  OBVIOUS
<1> HIDE DEF Order
<1> QED
  BY <1>1, <1>2 DEF Range

\* The initial states are typed.
LEMMA InitTyped == Init => TypeOK
<1> SUFFICES ASSUME Init PROVE TypeOK
  OBVIOUS
<1>1. WorkerTyped
  BY SharedAssumption DEF Init, WorkerTyped
<1>2. ObjectsTyped
  <2>1. CASE NewInstallation
    BY <2>1 DEF Init, NewInstallation, ObjectsTyped, IsRole, IsBinding, IsMember
  <2>2. ASSUME NEW old \in Clusters, OlderInstallation(old) PROVE ObjectsTyped
    <3> DEFINE own == [name |-> "own", value |-> old.value]
               env == InsertAt(WantedEnv(old, settings), 2, own)
               args == <<"--migrate-check", "true", "--v=5">>
    <3>1. settings \in Settings /\ old.account \in Account /\ own \in EnvVar
      BY <2>2, SharedAssumption DEF Init, EnvVar, Name
    <3>2. env \in Seq(EnvVar)
      <4>1. /\ WantedEnv(old, settings) \in Seq(EnvVar)
            /\ 2 \in 1..Len(WantedEnv(old, settings)) + 1
        BY <3>1, <2>2, WantedEnvType
      <4> HIDE DEF own
      <4> QED
        BY <3>1, <4>1, ListEdited
    <3>3. args \in Seq(Arg)
      BY DEF Arg
    <3>4. member = [exists |-> TRUE, account |-> old.account,
                    env |-> env, args |-> args]
      BY <2>2, Zenon DEF OlderInstallation
    <3>5. IsMember(member)
      <4> HIDE DEF env, args
      <4> QED
        BY <3>1, <3>2, <3>3, <3>4 DEF IsMember
    <3>6. <<"other", "reads">> \in Seq(Rule)
      BY DEF Rule
    <3>7. /\ role = [exists |-> TRUE, rules |-> <<"other", "reads">>]
          /\ accounts = {old.account} /\ binding = Bound(old.account)
      BY <2>2, Zenon DEF OlderInstallation
    <3> QED
      BY <3>1, <3>5, <3>6, <3>7 DEF Init, ObjectsTyped, IsRole, IsBinding
  <2> QED
    BY <2>1, <2>2 DEF Init
<1>3. CachesTyped
  BY <1>2 DEF Init, CachesTyped, ObjectsTyped
<1> QED
  BY <1>1, <1>2, <1>3, TypedParts

\* A call of a pass leaves the worker at a place of a pass, or idle.
LEMMA CallTyped ==
    ASSUME WorkerTyped, IInv, pass # Idle, disturbances' = disturbances,
           Written \/ Refused \/ Kept
    PROVE  WorkerTyped'
<1>1. queued' \in BOOLEAN /\ faults' \in 0..MaxFaults
  <2>1. queued' = queued \/ queued' = TRUE
    BY DEF Written, Refused, Kept, ReturnError
  <2>2. faults' = faults \/ Fault
    BY DEF Written, Refused, Kept
  <2>3. faults' \in 0..MaxFaults
    BY <2>2, SharedAssumption DEF WorkerTyped, Fault
  <2> QED
    BY <2>1, <2>3 DEF WorkerTyped
<1>2. pass \in [at: Range(Order), cluster: Clusters]
  BY DEF WorkerTyped
<1>3. CASE pass' = Idle
  BY <1>1, <1>3 DEF WorkerTyped, Idle
<1>4. CASE Proceed
  <2>1. \/ pass' = Idle
        \/ \E place \in {"account", "binding", "member"} :
              pass' = [pass EXCEPT !.at = place]
    BY <1>2, <1>4, ProceedGoesOn, Places DEF At
  <2>2. pass' = Idle \/ pass' \in [at: Range(Order), cluster: Clusters]
    BY <1>2, <2>1, Places
  <2> QED
    BY <1>1, <2>2 DEF WorkerTyped, Idle
<1> QED
  BY <1>3, <1>4, CallEnds

\* The worker's calls write objects of their kinds.
LEMMA WorkerKeepsTypes ==
    ASSUME IInv, TypeOK,
           \/ EnsureClusterRole \/ EnsureServiceAccount
           \/ EnsureClusterRoleBinding \/ EnsureMember
    PROVE  TypeOK'
<1>1. /\ pass # Idle /\ UNCHANGED <<cluster, settings, seen, disturbances>>
      /\ Written \/ Refused \/ Kept
  BY DEF EnsureClusterRole, EnsureServiceAccount, EnsureClusterRoleBinding,
     EnsureMember, CreateMember, UpdateMember, KeepMember, MemberRefused, At,
     Idle, asked
<1>2. WorkerTyped'
  BY <1>1, TypedParts, CallTyped
<1>3. stale' \subseteq {"role", "member"}
  BY DEF EnsureClusterRole, EnsureServiceAccount, EnsureClusterRoleBinding,
     EnsureMember, CreateMember, UpdateMember, KeepMember, MemberRefused,
     TypeOK
<1>4. CachesTyped'
  BY <1>1, <1>3, TypedParts DEF CachesTyped
<1>5. ObjectsTyped'
  <2> USE TypedParts
  <2>1. CASE EnsureClusterRole
    <3>1. UNCHANGED <<cluster, settings, accounts, binding, member>>
      BY <2>1 DEF EnsureClusterRole, asked
    <3>2. IsRole(role')
      <4>1. ClusterRole \in Seq(Rule)
        BY DEF ClusterRole, Rule
      <4>2. Append(seen.role.rules, "deletes") \in Seq(Rule)
        <5>1. seen.role.rules \in Seq(Rule) /\ "deletes" \in Rule
          BY DEF CachesTyped, IsRole, Rule
        <5> QED
          BY <5>1, AppendProperties
      <4>3. RoleRecord(seen.role) /\ seen.role.exists \in BOOLEAN
        BY DEF IInv, CachesBehind, CachesTyped, IsRole
      <4>4. CASE role' = role
        BY <4>4 DEF ObjectsTyped, IsRole
      <4>5. CASE role' = [exists |-> TRUE, rules |-> ClusterRole]
        BY <4>1, <4>5 DEF IsRole
      <4>6. CASE role' = [seen.role EXCEPT !.rules = Append(@, "deletes")]
        BY <4>2, <4>3, <4>6 DEF IsRole, RoleRecord
      <4> QED
        BY <2>1, <4>4, <4>5, <4>6 DEF EnsureClusterRole
    <3> QED
      BY <3>1, <3>2 DEF ObjectsTyped
  <2>2. CASE EnsureServiceAccount
    <3>1. UNCHANGED <<cluster, settings, role, binding, member>>
      BY <2>2 DEF EnsureServiceAccount, asked
    <3>2. pass.cluster.account \in Account
      BY <1>1, SharedAssumption DEF WorkerTyped
    <3>3. accounts' \subseteq Account
      BY <2>2, <3>2 DEF EnsureServiceAccount, ObjectsTyped
    <3> QED
      BY <3>1, <3>3 DEF ObjectsTyped
  <2>3. CASE EnsureClusterRoleBinding
    <3>1. UNCHANGED <<cluster, settings, role, accounts, member>>
      BY <2>3 DEF EnsureClusterRoleBinding, asked
    <3>2. pass.cluster.account \in Account
      BY <1>1, SharedAssumption DEF WorkerTyped
    <3>3. binding' = binding \/ binding' = Bound(pass.cluster.account)
      BY <2>3 DEF EnsureClusterRoleBinding
    <3> QED
      BY <3>1, <3>2, <3>3 DEF ObjectsTyped, IsBinding
  <2>4. CASE EnsureMember
    <3>1. UNCHANGED <<cluster, settings, role, accounts, binding>>
      BY <2>4 DEF EnsureMember, asked
    <3>2. IsMember(member')
      <4>1. CASE member' = member
        BY <4>1 DEF ObjectsTyped, IsMember
      <4>2. CASE member' # member
        BY <2>4, <4>2, MemberWritten DEF HasWhatIsAsked, IsMember
      <4> QED
        BY <4>1, <4>2
    <3> QED
      BY <3>1, <3>2 DEF ObjectsTyped
  <2> QED
    BY <2>1, <2>2, <2>3, <2>4
<1> QED
  BY <1>2, <1>4, <1>5 DEF TypeOK, ObjectsTyped, CachesTyped, WorkerTyped

\* Passes begin, break off and are repeated, caches catch up.
LEMMA SurroundingsKeepTypes ==
    ASSUME IInv, TypeOK,
           StartPass \/ CallFails \/ Restart \/ Informers \/ Resync
    PROVE  TypeOK'
<1> USE TypedParts
<1>1. ObjectsTyped'
  <2>1. UNCHANGED <<cluster, objects>> /\ settings' \in Settings
    BY DEF StartPass, CallFails, Restart, Informers, CacheCatchesUp, Resync,
       asked, ObjectsTyped
  <2> QED
    BY <2>1 DEF ObjectsTyped, objects
<1>2. CachesTyped'
  <2>1. CASE Restart
    BY <2>1 DEF Restart, CachesTyped, ObjectsTyped, objects
  <2>2. CASE StartPass \/ CallFails \/ Resync
    BY <2>2 DEF StartPass, CallFails, Resync, CachesTyped
  <2>3. CASE Informers
    <3>1. stale' \subseteq {"role", "member"}
      BY <2>3 DEF Informers, CacheCatchesUp, CachesTyped
    <3>2. seen = [role |-> seen.role, accounts |-> seen.accounts,
                  binding |-> seen.binding, member |-> seen.member]
      BY DEF IInv, CachesBehind
    <3>3. CASE CacheCatchesUp("role", role)
      BY <3>1, <3>2, <3>3 DEF CacheCatchesUp, CachesTyped, ObjectsTyped
    <3>4. CASE CacheCatchesUp("accounts", accounts)
      BY <3>1, <3>2, <3>4 DEF CacheCatchesUp, CachesTyped, ObjectsTyped
    <3>5. CASE CacheCatchesUp("binding", binding)
      BY <3>1, <3>2, <3>5 DEF CacheCatchesUp, CachesTyped, ObjectsTyped
    <3>6. CASE CacheCatchesUp("member", member)
      BY <3>1, <3>2, <3>6 DEF CacheCatchesUp, CachesTyped, ObjectsTyped
    <3> QED
      BY <2>3, <3>3, <3>4, <3>5, <3>6 DEF Informers
  <2> QED
    BY <2>1, <2>2, <2>3
<1>3. WorkerTyped'
  <2>1. queued' \in BOOLEAN
    BY DEF StartPass, CallFails, Restart, Informers, CacheCatchesUp, Resync,
       ReturnError, WorkerTyped
  <2>2. pass' \in {pass, Idle} \/ pass' = [at |-> Order[1], cluster |-> cluster]
    BY DEF StartPass, CallFails, Restart, Informers, CacheCatchesUp, Resync,
       ReturnError
  <2>3. Order[1] \in Range(Order) /\ cluster \in Clusters
    BY Places DEF Order, ObjectsTyped
  <2>4. faults' = faults \/ Fault
    BY DEF StartPass, CallFails, Restart, Informers, CacheCatchesUp, Resync,
       budgets
  <2>5. faults' \in 0..MaxFaults
    BY <2>4, SharedAssumption DEF WorkerTyped, Fault
  <2>6. disturbances' = disturbances
    BY DEF StartPass, CallFails, Restart, Informers, CacheCatchesUp, Resync,
       budgets
  <2>7. pass' = Idle \/ pass' \in [at: Range(Order), cluster: Clusters]
    BY <2>2, <2>3 DEF WorkerTyped
  <2> QED
    BY <2>1, <2>5, <2>6, <2>7 DEF WorkerTyped, Idle
<1> QED
  BY <1>1, <1>2, <1>3 DEF TypeOK, ObjectsTyped, CachesTyped, WorkerTyped

\* Edits are edits of the same kind.
LEMMA EditsKeepTypes ==
    ASSUME IInv, TypeOK, EditCluster \/ EditRole \/ EditMember
    PROVE  TypeOK'
<1> USE TypedParts
<1>1. WorkerTyped'
  <2>1. /\ queued' = queued \/ queued' = TRUE
        /\ UNCHANGED <<pass, faults>> /\ Disturbance
    BY DEF EditCluster, EditRole, EditMember
  <2>2. disturbances' \in 0..MaxDisturbances
    BY <2>1, SharedAssumption DEF WorkerTyped, Disturbance
  <2>3. queued' \in BOOLEAN
    BY <2>1 DEF WorkerTyped
  <2> QED
    BY <2>1, <2>2, <2>3 DEF WorkerTyped, Idle
<1>2. CachesTyped'
  <2>1. seen' = seen /\ stale' \subseteq stale \cup {"role", "member"}
    BY DEF EditCluster, EditRole, EditMember
  <2> QED
    BY <2>1 DEF CachesTyped
<1>3. ObjectsTyped'
  <2>1. CASE EditCluster
    BY <2>1 DEF EditCluster, ObjectsTyped, objects
  <2>2. CASE EditRole
    <3>1. UNCHANGED <<cluster, settings, accounts, binding, member>>
      BY <2>2 DEF EditRole, asked
    <3>2. RoleRecord(role) /\ role.exists \in BOOLEAN
      BY DEF IInv, CachesBehind, ObjectsTyped, IsRole
    <3>3. PICK rules \in Seq(Rule) : role' = [role EXCEPT !.rules = rules]
      <4>1. role.rules \in Seq(Rule)
        BY DEF ObjectsTyped, IsRole
      <4>2. /\ \A rule \in Rule : Append(role.rules, rule) \in Seq(Rule)
            /\ \A i \in DOMAIN role.rules :
                  RemoveAt(role.rules, i) \in Seq(Rule)
        BY <4>1, ListEdited
      <4> QED
        BY <2>2, <4>2 DEF EditRole
    <3>4. IsRole(role')
      BY <3>2, <3>3 DEF IsRole, RoleRecord
    <3> QED
      BY <3>1, <3>4 DEF ObjectsTyped
  <2>3. CASE EditMember
    <3>1. UNCHANGED <<cluster, settings, role, accounts, binding>>
      BY <2>3 DEF EditMember, asked
    <3>2. /\ MemberRecord(member) /\ member.exists /\ member.account \in Account
          /\ member.env \in Seq(EnvVar) /\ member.args \in Seq(Arg)
      BY <2>3 DEF EditMember, IInv, CachesBehind, ObjectsTyped, IsMember,
         NoMember
    <3>3. EditedEnvs(member.env) \subseteq Seq(EnvVar)
      <4>1. {1, Len(member.env) + 1} \subseteq 1..Len(member.env) + 1
        BY <3>2, LenProperties
      <4>2. /\ \A i \in DOMAIN member.env : RemoveAt(member.env, i) \in Seq(EnvVar)
            /\ \A i \in 1..Len(member.env) + 1, e \in EnvVar :
                  InsertAt(member.env, i, e) \in Seq(EnvVar)
        BY <3>2, ListEdited
      <4> QED
        BY <4>1, <4>2 DEF EditedEnvs
    <3>4. EditedArgs(member.args) \subseteq Seq(Arg)
      <4>1. {1, Len(member.args) + 1} \subseteq 1..Len(member.args) + 1
        BY <3>2, LenProperties
      <4>2. /\ \A i \in DOMAIN member.args : RemoveAt(member.args, i) \in Seq(Arg)
            /\ \A i \in 1..Len(member.args) + 1, e \in Arg :
                  InsertAt(member.args, i, e) \in Seq(Arg)
        BY <3>2, ListEdited
      <4> QED
        BY <4>1, <4>2 DEF EditedArgs
    <3>5. ASSUME NEW env \in Seq(EnvVar), member' = [member EXCEPT !.env = env]
          PROVE  IsMember(member')
      BY <3>2, <3>5 DEF MemberRecord, IsMember
    <3>6. ASSUME NEW args \in Seq(Arg), member' = [member EXCEPT !.args = args]
          PROVE  IsMember(member')
      BY <3>2, <3>6 DEF MemberRecord, IsMember
    <3>7. member' = NoMember => IsMember(member')
      BY DEF IsMember
    <3>8. \/ \E env \in EditedEnvs(member.env) :
                member' = [member EXCEPT !.env = env]
          \/ \E args \in EditedArgs(member.args) :
                member' = [member EXCEPT !.args = args]
          \/ member' = NoMember
      BY <2>3, Zenon DEF EditMember
    <3>9. IsMember(member')
      BY <3>3, <3>4, <3>5, <3>6, <3>7, <3>8
    <3> QED
      BY <3>1, <3>9 DEF ObjectsTyped
  <2> QED
    BY <2>1, <2>2, <2>3
<1> QED
  BY <1>1, <1>2, <1>3 DEF TypeOK, ObjectsTyped, CachesTyped, WorkerTyped

LEMMA TypesStep == IInv /\ TypeOK /\ [Next]_vars => TypeOK'
<1> SUFFICES ASSUME IInv, TypeOK, [Next]_vars PROVE TypeOK'
  OBVIOUS
<1>1. CASE UNCHANGED vars
  <2>1. ObjectsTyped' /\ CachesTyped' /\ WorkerTyped'
    BY <1>1, TypedParts DEF vars, ObjectsTyped, CachesTyped, WorkerTyped, Idle
  <2> QED
    BY <2>1 DEF TypeOK, ObjectsTyped, CachesTyped, WorkerTyped
<1> QED
  BY <1>1, WorkerKeepsTypes, SurroundingsKeepTypes, EditsKeepTypes
     DEF Next, Worker

\* Every variable holds a value of its kind, whatever lists the edits and
\* the merges of the container's environment and arguments come to.
THEOREM TypeCorrect == Spec => []TypeOK
  BY InitTyped, TypesStep, InitHolds, NextHolds, PTL DEF Spec

-----------------------------------------------------------------------------
(* The writes of the DaemonSet *)

\* A step of the operator that changes the DaemonSet is its Ensure.
LEMMA OnlyEnsureWrites ==
    ASSUME TypeOK, Next, ByOperator, member' # member
    PROVE  EnsureMember
<1>1. ~EditMember
  BY DEF EditMember, Disturbance, ByOperator, TypeOK
<1> QED
  BY <1>1 DEF Next, Worker, StartPass, EnsureClusterRole, EnsureServiceAccount,
     EnsureClusterRoleBinding, CallFails, Restart, Informers, CacheCatchesUp,
     Resync, EditCluster, EditRole, objects

\* No write of the operator loses a variable or an argument of somebody else,
\* or moves it before another one, however long the lists are and also if it
\* was put there after the operator has read the DaemonSet.
THEOREM EntriesStay == Spec => EntriesKept
<1>1. IInv /\ TypeOK /\ [Next]_vars
        => [ByOperator /\ member.exists /\ member' # member =>
              LET names == Names(WantedEnv(pass.cluster, settings))
              IN /\ member'.account = member.account
                 /\ Among(member'.env, Foreign(names))
                      = Among(member.env, Foreign(names))
                 /\ OtherArgs(member'.args) = OtherArgs(member.args)]_vars
  BY OnlyEnsureWrites, MemberWritten
<1> QED
  BY <1>1, InitTyped, TypesStep, InitHolds, NextHolds, PTL DEF Spec, EntriesKept

\* One write is enough: after it the wanted variables and the flag are there
\* once and in order, and the comparison of the next pass finds nothing to
\* write.
THEOREM OneWriteIsEnough == Spec => WritesAreFinal
<1>1. IInv /\ TypeOK /\ [Next]_vars
        => [ByOperator /\ member' # member =>
              LET wanted == WantedEnv(pass.cluster, settings)
              IN /\ Among(member'.env, Configured(Names(wanted))) = wanted
                 /\ Among(member'.args, Flags) = <<Flag(settings.check)>>
                 /\ ~NeedToUpdate(member', pass.cluster, settings)]_vars
  BY OnlyEnsureWrites, MemberWritten DEF HasWhatIsAsked
<1> QED
  BY <1>1, InitTyped, TypesStep, InitHolds, NextHolds, PTL
     DEF Spec, WritesAreFinal
=============================================================================
