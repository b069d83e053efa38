--------------------------- MODULE SharedObjects ---------------------------
(***************************************************************************)
(* Objects that the operator does not own alone.  The ClusterRole of       *)
(* pkg/install/rbac may come from an older operator or be edited by an     *)
(* administrator: the operator only adds a missing rule.  The environment  *)
(* and the arguments of local-storage's member container may be edited     *)
(* with kubectl: the operator writes its own entries among the others.     *)
(*                                                                         *)
(* Every write of the DaemonSet rolls the pods of all nodes, and a write   *)
(* replaces the whole object by what was made of the cached copy.  So the  *)
(* questions are: does a write ever lose an entry of somebody else, do the *)
(* writes come to an end, and does what the Cluster asks for arrive?       *)
(*                                                                         *)
(* A pass of Reconcile is cut down to RBAC's Ensure and local-storage's;   *)
(* what the calls around them do to a pass is to fail.  A maintainer's     *)
(* read and write are one step: that the cache may catch up in between is  *)
(* as if it had been read before.  Images, volumes and the registrar       *)
(* container are left to Maintainers, and so is local-storage's removal.   *)
(***************************************************************************)
EXTENDS Naturals, Sequences, FiniteSets, SequencesExt

CONSTANTS
    Account,          \* the names a service account may be given
    Value,            \* the values of an environment variable
    Clusters,         \* the specs a user may ask for
    Settings,         \* the environments the operator may be deployed with
    MaxFaults,        \* bound: failed calls, lost replies and restarts
    MaxDisturbances   \* bound: edits of the Cluster and of the objects

VARIABLES
    cluster,       \* what the user asks for: account, value and extra
    settings,      \* the environment of the operator's process
    role,          \* the ClusterRole
    accounts,      \* the names of the ServiceAccounts
    binding,       \* the ClusterRoleBinding
    member,        \* the DaemonSet, above all its member container
    seen,          \* the operator's caches of these four
    stale,         \* which of the caches of role and member are behind
    queued, pass,  \* the workqueue and the worker's pass
    faults, disturbances

vars == <<cluster, settings, role, accounts, binding, member, seen, stale,
          queued, pass, faults, disturbances>>

objects == <<role, accounts, binding, member>>

asked == <<cluster, settings>>

budgets == <<faults, disturbances>>

-----------------------------------------------------------------------------
(* The ClusterRole *)

\* A rule about ConfigMaps that names the verb delete, or one that does not,
\* or a rule about anything else.
Rule == {"deletes", "reads", "other"}

ClusterRole == <<"other", "deletes", "other">>

ConfigMapRules(rules) == {i \in DOMAIN rules : rules[i] # "other"}

\* Mutant: any rule about ConfigMaps is taken for the one that is missing.
AnyRulePassed(rules) == ConfigMapRules(rules) # {}

CmCheckPassed(rules) ==
    \E i \in ConfigMapRules(rules) : rules[i] = "deletes"

-----------------------------------------------------------------------------
(* The member container *)

\* A variable of the template or of the Cluster's fields, JUICEFS_VERSION,
\* a variable of the extra environment, and one of somebody else.
Name == {"fixed", "version", "extra", "own"}

EnvVar == [name: Name, value: Value]

Names(env) == {env[i].name : i \in DOMAIN env}

Check == {"true", "false", "unsupported"}

\* Mutant: the flag and its value are one argument.
FlagWithValue(check) == "--migrate-check " \o check

Flag(check) == IF check = "true" THEN "--migrate-check=true"
                                 ELSE "--migrate-check=false"

Arg == {"--migrate-check=true", "--migrate-check=false", "--migrate-check",
        "true", "--v=5"}

\* What a user may ask for: an account, a value that the container's variables
\* are made of, and the annotation.
ASSUME SharedAssumption ==
    /\ Clusters # {} /\ Settings # {}
    /\ Clusters \subseteq [account: Account, value: Value,
                           extra: [parses: BOOLEAN, env: Seq(EnvVar)]]
    /\ Settings \subseteq [version: Value, check: Check]
    /\ MaxFaults \in Nat /\ MaxDisturbances \in Nat

Flags == {"--migrate-check", "--migrate-check=true", "--migrate-check=false"}

HasVersion(env) == "version" \in Names(env)

\* The version's default stands before the extra environment, which may
\* override it and any other variable.
WantedEnv(c, s) ==
    <<[name |-> "fixed", value |-> c.value]>>
    \o (IF HasVersion(c.extra.env) THEN <<>>
        ELSE <<[name |-> "version", value |-> s.version]>>)
    \o c.extra.env

\* Mutant: the environment is replaced by what the Cluster asks for.
ReplaceMemberEnv(current, wanted) == wanted

\* The entries of a list that are in a set, in their order.
Among(list, set) ==
    LET upTo[n \in 0..Len(list)] ==
            IF n = 0 THEN <<>>
            ELSE IF list[n] \in set THEN Append(upTo[n-1], list[n])
                                    ELSE upTo[n-1]
    IN upTo[Len(list)]

\* The first place in the wanted list after the next entry of an item's name.
PlaceAfter(wanted, first, item) ==
    LET hits == {i \in first..Len(wanted) : wanted[i].name = item.name}
    IN IF hits = {} THEN first ELSE Min(hits) + 1

\* An entry of somebody else stays.  At one that is wanted, the wanted entries
\* up to the next of its name are placed; what is left of them comes last.
\* next[n] is the first of them not yet placed after n current entries.
MergeMemberEnv(current, wanted) ==
    LET after == [n \in DOMAIN current |-> [first \in 1..Len(wanted)+1 |->
                    PlaceAfter(wanted, first, current[n])]]
        next[n \in 0..Len(current)] ==
            IF n = 0 THEN 1 ELSE after[n][next[n-1]]
        Batch(n) ==
            IF current[n].name \in Names(wanted)
            THEN SubSeq(wanted, next[n-1], next[n] - 1)
            ELSE <<current[n]>>
        merged[n \in 0..Len(current)] ==
            IF n = 0 THEN <<>> ELSE merged[n-1] \o Batch(n)
    IN merged[Len(current)]
       \o SubSeq(wanted, next[Len(current)], Len(wanted))

\* The arguments that are neither the flag nor the value of a flag without =.
OtherArgs(args) ==
    LET IsValue(i) == /\ i > 1 /\ args[i-1] = "--migrate-check"
                      /\ args[i] \in {"true", "false"}
        others == {i \in DOMAIN args : args[i] \notin Flags /\ ~IsValue(i)}
        places == Among([i \in DOMAIN args |-> i], others)
    IN [k \in DOMAIN places |-> args[places[k]]]

\* Mutant: a flag that is there is left alone.
AddMigrationCheck(args, s) ==
    IF \E i \in DOMAIN args : args[i] \in Flags THEN args
    ELSE Append(args, Flag(s.check))

SetMigrationCheck(args, s) == Append(OtherArgs(args), Flag(s.check))

NoMember == [exists |-> FALSE, account |-> "none", env |-> <<>>, args |-> <<>>]

NewMember(c, s) ==
    [exists |-> TRUE, account |-> c.account,
     env |-> WantedEnv(c, s), args |-> SetMigrationCheck(<<"--v=5">>, s)]

UpdatedMember(m, c, s) ==
    [m EXCEPT !.env = MergeMemberEnv(@, WantedEnv(c, s)),
              !.args = SetMigrationCheck(@, s)]

NeedToUpdate(m, c, s) == UpdatedMember(m, c, s) # m

\* The annotation and MIGRATE_CHECK are read before any call.
Malformed(c, s) == ~c.extra.parses \/ s.check = "unsupported"

-----------------------------------------------------------------------------
(* The initial states: a new installation, or one of an older operator that *)
(* knew neither the rule nor the flag of today, for another Cluster, with   *)
(* an entry that somebody has put into the environment.                     *)

Idle == [at |-> "idle"]

\* Mutant: the workloads before what their pods run as.
MemberFirst == <<"member", "role", "account", "binding">>

Order == <<"role", "account", "binding", "member">>

Absent == [exists |-> FALSE, subject |-> "none"]

Bound(a) == [exists |-> TRUE, subject |-> a]

NewInstallation ==
    /\ role = [exists |-> FALSE, rules |-> <<>>]
    /\ accounts = {}
    /\ binding = Absent
    /\ member = NoMember

OlderInstallation(old) ==
    /\ role = [exists |-> TRUE, rules |-> <<"other", "reads">>]
    /\ accounts = {old.account}
    /\ binding = Bound(old.account)
    /\ LET own == [name |-> "own", value |-> old.value]
       IN member = [exists |-> TRUE, account |-> old.account,
                    env |-> InsertAt(WantedEnv(old, settings), 2, own),
                    args |-> <<"--migrate-check", "true", "--v=5">>]

Init ==
    /\ cluster \in Clusters
    /\ settings \in Settings
    /\ \/ NewInstallation
       \/ \E old \in Clusters : OlderInstallation(old)
    /\ seen = [role |-> role, accounts |-> accounts,
               binding |-> binding, member |-> member]
    /\ stale = {}
    /\ queued = TRUE
    /\ pass = Idle
    /\ faults = 0 /\ disturbances = 0

-----------------------------------------------------------------------------
(* The worker *)

At(place) == pass.at = place

Proceed ==
    LET i == CHOOSE i \in DOMAIN Order : Order[i] = pass.at
    IN pass' = IF i = Len(Order) THEN Idle ELSE [pass EXCEPT !.at = Order[i+1]]

\* The Cluster is queued again, after a delay.
ReturnError == pass' = Idle /\ queued' = TRUE

Fault == faults < MaxFaults /\ faults' = faults + 1

\* A pass keeps the Cluster that it has read.
StartPass ==
    /\ At("idle") /\ queued
    /\ pass' = [at |-> Order[1], cluster |-> cluster]
    /\ queued' = FALSE
    /\ UNCHANGED <<asked, objects, seen, stale, budgets>>

\* The step of a write that the API server accepted: its reply may be lost.
Written ==
    \/ Proceed /\ UNCHANGED <<queued, faults>>
    \/ ReturnError /\ Fault

Refused == ReturnError /\ UNCHANGED faults

Kept == Proceed /\ UNCHANGED <<queued, faults>>

\* Mutant: the rules are written without the resourceVersion.
EnsureRoleBlindly ==
    /\ At("role")
    /\ IF CmCheckPassed(seen.role.rules)
       THEN Kept /\ UNCHANGED <<role, stale>>
       ELSE /\ seen.role.exists \/ ~role.exists
            /\ role' = [exists |-> TRUE,
                        rules |-> IF seen.role.exists
                                  THEN Append(seen.role.rules, "deletes")
                                  ELSE ClusterRole]
            /\ stale' = stale \cup {"role"}
            /\ Written
    /\ UNCHANGED <<asked, accounts, binding, member, seen, disturbances>>

\* The role is created, or a rule is added to the role as it was read.
EnsureClusterRole ==
    /\ At("role")
    /\ \/ /\ ~seen.role.exists /\ ~role.exists
          /\ role' = [exists |-> TRUE, rules |-> ClusterRole]
          /\ stale' = stale \cup {"role"}
          /\ Written
       \/ /\ seen.role.exists /\ CmCheckPassed(seen.role.rules)
          /\ Kept
          /\ UNCHANGED <<role, stale>>
       \/ /\ seen.role.exists /\ ~CmCheckPassed(seen.role.rules)
          /\ "role" \notin stale
          /\ role' = [seen.role EXCEPT !.rules = Append(@, "deletes")]
          /\ stale' = stale \cup {"role"}
          /\ Written
       \/ /\ "role" \in stale /\ ~CmCheckPassed(seen.role.rules)
          /\ seen.role.exists \/ role.exists
          /\ Refused
          /\ UNCHANGED <<role, stale>>
    /\ UNCHANGED <<asked, accounts, binding, member, seen, disturbances>>

EnsureServiceAccount ==
    /\ At("account")
    /\ \/ /\ pass.cluster.account \in seen.accounts
          /\ Kept
          /\ UNCHANGED accounts
       \/ /\ pass.cluster.account \notin seen.accounts \cup accounts
          /\ accounts' = accounts \cup {pass.cluster.account}
          /\ Written
       \/ /\ pass.cluster.account \in accounts \ seen.accounts
          /\ Refused
          /\ UNCHANGED accounts
    /\ UNCHANGED <<asked, role, binding, member, seen, stale, disturbances>>

\* A binding that exists is left alone, whatever its subject.
EnsureClusterRoleBinding ==
    /\ At("binding")
    /\ \/ /\ seen.binding.exists
          /\ Kept
          /\ UNCHANGED binding
       \/ /\ ~seen.binding.exists /\ ~binding.exists
          /\ binding' = Bound(pass.cluster.account)
          /\ Written
       \/ /\ ~seen.binding.exists /\ binding.exists
          /\ Refused
          /\ UNCHANGED binding
    /\ UNCHANGED <<asked, role, accounts, member, seen, stale, disturbances>>

CreateMember ==
    /\ ~seen.member.exists /\ ~member.exists
    /\ member' = NewMember(pass.cluster, settings)
    /\ stale' = stale \cup {"member"}
    /\ Written

\* The object written is the one that was read, with its resourceVersion.
UpdateMember ==
    /\ seen.member.exists /\ NeedToUpdate(seen.member, pass.cluster, settings)
    /\ "member" \notin stale
    /\ member' = UpdatedMember(seen.member, pass.cluster, settings)
    /\ stale' = stale \cup {"member"}
    /\ Written

KeepMember ==
    /\ seen.member.exists /\ ~NeedToUpdate(seen.member, pass.cluster, settings)
    /\ Kept
    /\ UNCHANGED <<member, stale>>

MemberRefused ==
    /\ "member" \in stale
    /\ IF seen.member.exists
       THEN NeedToUpdate(seen.member, pass.cluster, settings)
       ELSE member.exists
    /\ Refused
    /\ UNCHANGED <<member, stale>>

\* A malformed annotation or setting ends every pass here.
EnsureMember ==
    /\ At("member")
    /\ IF Malformed(pass.cluster, settings)
       THEN Refused /\ UNCHANGED <<member, stale>>
       ELSE CreateMember \/ UpdateMember \/ KeepMember \/ MemberRefused
    /\ UNCHANGED <<asked, role, accounts, binding, seen, disturbances>>

Worker ==
    \/ StartPass \/ EnsureClusterRole \/ EnsureServiceAccount
    \/ EnsureClusterRoleBinding \/ EnsureMember

\* Another call of the pass fails, or a call of these before its write.
CallFails ==
    /\ pass # Idle
    /\ Fault
    /\ ReturnError
    /\ UNCHANGED <<asked, objects, seen, stale, disturbances>>

\* The process starts again, as it was or with another environment, and
\* fills its caches before its first pass.
Restart ==
    /\ Fault
    /\ settings' \in Settings
    /\ pass' = Idle
    /\ queued' = TRUE
    /\ seen' = [role |-> role, accounts |-> accounts,
                binding |-> binding, member |-> member]
    /\ stale' = {}
    /\ UNCHANGED <<cluster, objects, disturbances>>

-----------------------------------------------------------------------------
(* What surrounds the operator *)

\* An informer delivers.  The Cluster owns the DaemonSet, so that an event of
\* it queues the Cluster; events of the other kinds do not.
CacheCatchesUp(kind, current) ==
    /\ seen[kind] # current \/ kind \in stale
    /\ seen' = [seen EXCEPT ![kind] = current]
    /\ stale' = stale \ {kind}
    /\ queued' = (queued \/ kind = "member")
    /\ UNCHANGED <<asked, objects, pass, budgets>>

Informers ==
    \/ CacheCatchesUp("role", role)
    \/ CacheCatchesUp("accounts", accounts)
    \/ CacheCatchesUp("binding", binding)
    \/ CacheCatchesUp("member", member)

\* The informers deliver the Cluster again from time to time.
Resync ==
    /\ ~queued
    /\ queued' = TRUE
    /\ UNCHANGED <<asked, objects, seen, stale, pass, budgets>>

Disturbance ==
    /\ disturbances < MaxDisturbances
    /\ disturbances' = disturbances + 1

EditCluster ==
    /\ Disturbance
    /\ cluster' \in Clusters \ {cluster}
    /\ queued' = TRUE
    /\ UNCHANGED <<settings, objects, seen, stale, pass, faults>>

\* An administrator adds a rule or takes one away.
EditRole ==
    /\ Disturbance
    /\ role.exists
    /\ \/ \E rule \in Rule : role' = [role EXCEPT !.rules = Append(@, rule)]
       \/ \E i \in DOMAIN role.rules :
              role' = [role EXCEPT !.rules = RemoveAt(@, i)]
    /\ stale' = stale \cup {"role"}
    /\ UNCHANGED <<asked, accounts, binding, member, seen, queued, pass, faults>>

EditedEnvs(env) ==
    {InsertAt(env, i, item) : i \in {1, Len(env)+1}, item \in EnvVar}
    \cup {RemoveAt(env, i) : i \in DOMAIN env}

EditedArgs(args) ==
    {InsertAt(args, i, arg) : i \in {1, Len(args)+1}, arg \in Arg}
    \cup {RemoveAt(args, i) : i \in DOMAIN args}

\* Somebody edits the DaemonSet, or deletes it.
EditMember ==
    /\ Disturbance
    /\ member.exists
    /\ \/ \E env \in EditedEnvs(member.env) : member' = [member EXCEPT !.env = env]
       \/ \E args \in EditedArgs(member.args) :
              member' = [member EXCEPT !.args = args]
       \/ member' = NoMember
    /\ stale' = stale \cup {"member"}
    /\ UNCHANGED <<asked, role, accounts, binding, seen, queued, pass, faults>>

Next ==
    \/ Worker \/ CallFails \/ Restart
    \/ Informers \/ Resync
    \/ EditCluster \/ EditRole \/ EditMember

Spec == Init /\ [][Next]_vars

\* The worker takes its steps, the informers deliver, also again.
FairSpec ==
    /\ Spec
    /\ WF_vars(Worker)
    /\ WF_vars(CacheCatchesUp("role", role))
    /\ WF_vars(CacheCatchesUp("accounts", accounts))
    /\ WF_vars(CacheCatchesUp("binding", binding))
    /\ WF_vars(CacheCatchesUp("member", member))
    /\ WF_vars(Resync)

-----------------------------------------------------------------------------
(* Properties *)

IsRole(r) == r.exists \in BOOLEAN /\ r.rules \in Seq(Rule)

IsBinding(b) == b = Absent \/ \E a \in Account : b = Bound(a)

IsMember(m) ==
    \/ m = NoMember
    \/ /\ m.exists /\ m.account \in Account
       /\ m.env \in Seq(EnvVar) /\ m.args \in Seq(Arg)

\* Every variable holds a value of its kind.
TypeOK ==
    /\ cluster \in Clusters /\ settings \in Settings
    /\ IsRole(role) /\ IsRole(seen.role)
    /\ accounts \subseteq Account /\ seen.accounts \subseteq Account
    /\ IsBinding(binding) /\ IsBinding(seen.binding)
    /\ IsMember(member) /\ IsMember(seen.member)
    /\ stale \subseteq {"role", "member"}
    /\ queued \in BOOLEAN
    /\ pass = Idle \/ pass \in [at: Range(Order), cluster: Clusters]
    /\ faults \in 0..MaxFaults /\ disturbances \in 0..MaxDisturbances

\* The order of a pass (cluster_controller.go:155, 197) and what is read
\* from caches: pods are only asked for once the account they run as exists
\* and the role and its binding do, whatever fails, restarts or is edited
\* between the calls.
AccountBeforePods ==
    member.exists =>
        /\ member.account \in accounts
        /\ binding.exists /\ role.exists

ByOperator == disturbances' = disturbances

\* The variables with a name of these, and the others.
Configured(names) == {item \in EnvVar : item.name \in names}

Foreign(names) == EnvVar \ Configured(names)

\* A rule in the role stays, in its place, through every write of the
\* operator (rbac.go:241): also one added after the operator has read.
RulesKept ==
    [][ByOperator /\ role.exists => IsPrefix(role.rules, role'.rules)]_vars

\* What others have put into the member container stays, and in its order,
\* through every write of the operator (member_env.go:5, localstorage.go:522):
\* variables that the Cluster no longer asks for and all the arguments but
\* the flag, also what was put there after the operator has read.
EntriesKept ==
    [][ByOperator /\ member.exists /\ member' # member =>
        LET names == Names(WantedEnv(pass.cluster, settings))
        IN /\ member'.account = member.account
           /\ Among(member'.env, Foreign(names))
                = Among(member.env, Foreign(names))
           /\ OtherArgs(member'.args) = OtherArgs(member.args)]_vars

\* A write of the DaemonSet, which rolls the pods of every node, leaves
\* nothing to be written by a next one: the wanted variables are there, in
\* the order in which Kubernetes expands references, none of them beside an
\* older value, and the flag is there once.
WritesAreFinal ==
    [][ByOperator /\ member' # member =>
        LET wanted == WantedEnv(pass.cluster, settings)
        IN /\ Among(member'.env, Configured(Names(wanted))) = wanted
           /\ Among(member'.args, Flags) = <<Flag(settings.check)>>
           /\ ~NeedToUpdate(member', pass.cluster, settings)]_vars

Granted ==
    /\ role.exists /\ "deletes" \in Range(role.rules)
    /\ cluster.account \in accounts
    /\ binding.exists

\* Once edits and faults are over, the role holds the rule, the account is
\* there and the member container is as the Cluster asks, or else what is
\* asked cannot be parsed; and so it stays.
Settled ==
    <>[](/\ Granted
         /\ \/ Malformed(cluster, settings)
            \/ member.exists /\ ~NeedToUpdate(member, cluster, settings))
=============================================================================
