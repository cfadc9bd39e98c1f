----------------------------- MODULE Validators -----------------------------
(***************************************************************************)
(* Validators and validator groups: celocli validator:* and                *)
(* validatorgroup:*, which check on the chain that a transaction is        *)
(* allowed, let ValidatorsWrapper look up the index or the neighbours that *)
(* its argument needs, and send it.  All accounts do so at the same time.  *)
(* The contracts Validators and Election are external.                     *)
(***************************************************************************)
EXTENDS SortedVotes, FiniteSets
CONSTANTS
  Accounts, Users,   \* the users' accounts run commands, the others do not
  Plans,      \* what every account wants, the chain to begin with, and how
              \*   many mishaps there may be
  Value,      \* locked gold that is required, per validator and member
  MaxGroupSize, \* members that a group may have
  Duration    \* time before somebody may deregister

ValidatorCommands == {"register", "deregister", "affiliate", "deaffiliate",
             "registerGroup", "deregisterGroup", "accept", "remove",
             "reorder", "queueUpdate", "apply"}

Registries ==
  [validators: Seq(Accounts), groups: Seq(Accounts),
   affiliation: [Accounts -> Accounts \cup {Nobody}],
   members: [Accounts -> Seq(Accounts)],
   left: [Accounts -> 0 .. Duration + 1], updated: [Accounts -> 0 .. Duration + 1],
   commission: [Accounts -> {"old", "queued", "due", "new"}],
   keys: SUBSET Accounts, list: Seq(Accounts), votes: [Accounts -> Nat]]

Goals ==
  [goal: {"join", "leave", "lead", "close", "none"},
   with: Accounts \cup {Nobody}, locked: Nat]

\* The lists of the contracts repeat nobody, and eligible are the groups that
\* have members.
ASSUME ValidatorsAssumption ==
  /\ IsFiniteSet(Accounts) /\ Users \subseteq Accounts /\ Nobody \notin Accounts
  /\ MaxGroupSize \in Nat /\ Value \in Nat \ {0} /\ Duration \in Nat \ {0} /\ Duration < Value
  /\ \A p \in Plans :
       /\ p.plan \in [Users -> Goals] /\ p.chain \in Registries /\ p.mishaps \in Nat
       /\ \A i, j \in DOMAIN p.chain.list : p.chain.list[i] = p.chain.list[j] => i = j
       /\ \A g \in Accounts : \A i, j \in DOMAIN p.chain.members[g] :
            p.chain.members[g][i] = p.chain.members[g][j] => i = j
       /\ Members(p.chain.list) = {g \in Accounts : p.chain.members[g] # <<>>}

VARIABLES
  plan,     \* of each account: goal, the group to join or the member to come
            \*   first, locked gold
  registry, \* external: the records of the contracts
  run,      \* the command of each account
  mishaps   \* bound of what may still go wrong: commands that do not serve a
            \*   plan, commands that are cut off, votes of others

validatorsVars == <<plan, registry, run, mishaps>>

None == [lesser |-> Nobody, greater |-> Nobody]
Idle == [pc |-> "idle", command |-> "none", arg |-> Nobody, to |-> 0, check |-> 1,
         seen |-> Nobody, index |-> 0, weight |-> 0, hint |-> None, fresh |-> TRUE]

ValidatorsInit ==
  /\ \E p \in Plans : plan = p.plan /\ registry = p.chain /\ mishaps = p.mishaps
  /\ run = [a \in Users |-> Idle]

-----------------------------------------------------------------------------
(* External: Validators.  Ages of events grow up to Duration + 1.          *)

IsValidator(a) == a \in Members(registry.validators)
IsGroup(a) == a \in Members(registry.groups)
IsMember(a, group) == group # Nobody /\ a \in Members(registry.members[group])
Size(group) == Len(registry.members[group])

\* The last entry takes the place of one that is removed.
SwapOut(entries, i) ==
  [j \in 1 .. Len(entries) - 1 |->
     IF j = i THEN entries[Len(entries)] ELSE entries[j]]

\* A group without members is not eligible.
Unmember(c, a) ==
  LET group == c.affiliation[a] IN
  IF group = Nobody \/ ~IsMember(a, group) THEN c
  ELSE [c EXCEPT !.members[group] = Rest(@, a),
                 !.left[a] = 0, !.updated[group] = 0,
                 !.list = IF Size(group) = 1 THEN Rest(@, group) ELSE @]

AddMember(c, group, a) ==
  [c EXCEPT !.members[group] = Append(@, a), !.updated[group] = 0]

\* The list with its new group, at a place which the hint names.
MarkEligible(c, group, hint) ==
  [c EXCEPT !.list =
     PutAt(@, group,
           CHOOSE p \in Places(@, c.votes, c.votes[group], hint) : TRUE)]

HintFits(group, hint) ==
  /\ hint # None \/ registry.list = <<>>
  /\ {hint.lesser, hint.greater} \subseteq Members(registry.list) \cup {Nobody}
  /\ Places(registry.list, registry.votes, registry.votes[group], hint) # {}

\* Where a member comes to stand between its new neighbours, which must be
\* next to each other without it.
Between(rest, hint) ==
  {p \in 0 .. Len(rest) :
     /\ hint.greater = (IF p = 0 THEN Nobody ELSE rest[p])
     /\ hint.lesser = (IF p = Len(rest) THEN Nobody ELSE rest[p + 1])}

\* What the contract demands of the transaction of an account.
Accepted(a) ==
  LET r == run[a] IN
  \/ /\ r.command = "register"
     /\ ~IsValidator(a) /\ ~IsGroup(a) /\ plan[a].locked >= Value
  \/ /\ r.command = "deregister"
     /\ r.index \in DOMAIN registry.validators /\ registry.validators[r.index] = a
     /\ ~IsMember(a, registry.affiliation[a]) /\ registry.left[a] > Duration
  \/ r.command = "affiliate" /\ IsValidator(a) /\ IsGroup(r.arg)
  \/ r.command = "deaffiliate" /\ IsValidator(a) /\ registry.affiliation[a] # Nobody
  \/ /\ r.command = "registerGroup"
     /\ ~IsValidator(a) /\ ~IsGroup(a) /\ plan[a].locked >= Value
  \/ /\ r.command = "deregisterGroup"
     /\ r.index \in DOMAIN registry.groups /\ registry.groups[r.index] = a
     /\ Size(a) = 0 /\ registry.updated[a] > Duration
  \/ /\ r.command = "accept" /\ IsGroup(a) /\ IsValidator(r.arg)
     /\ registry.affiliation[r.arg] = a /\ ~IsMember(r.arg, a)
     /\ Size(a) < MaxGroupSize
     /\ plan[a].locked >= Value * (Size(a) + 1)
     /\ IF r.to = 0 THEN Size(a) = 0 /\ HintFits(a, r.hint) ELSE Size(a) > 0
  \/ r.command = "remove" /\ IsGroup(a) /\ IsMember(r.arg, a)
  \/ /\ r.command = "reorder" /\ IsGroup(a) /\ IsMember(r.arg, a)
     /\ Between(Rest(registry.members[a], r.arg), r.hint) # {}
  \/ r.command = "queueUpdate" /\ IsGroup(a)
  \/ r.command = "apply" /\ IsGroup(a) /\ registry.commission[a] = "due"

\* What it then does.
Effect(a) ==
  LET r == run[a] IN
  CASE r.command = "register" ->
         [registry EXCEPT !.validators = Append(@, a), !.affiliation[a] = Nobody]
    [] r.command = "deregister" ->
         [registry EXCEPT !.validators = SwapOut(@, r.index),
                       !.affiliation[a] = Nobody]
    [] r.command = "affiliate" ->
         [Unmember(registry, a) EXCEPT !.affiliation[a] = r.arg]
    [] r.command = "deaffiliate" ->
         [Unmember(registry, a) EXCEPT !.affiliation[a] = Nobody]
    [] r.command = "registerGroup" -> [registry EXCEPT !.groups = Append(@, a)]
    [] r.command = "deregisterGroup" ->
         [registry EXCEPT !.groups = SwapOut(@, r.index), !.commission[a] = "old"]
    [] r.command = "accept" ->
         IF r.to = 0 THEN AddMember(MarkEligible(registry, a, r.hint), a, r.arg)
         ELSE AddMember(registry, a, r.arg)
    [] r.command = "remove" -> Unmember(registry, r.arg)
    [] r.command = "reorder" ->
         LET rest == Rest(registry.members[a], r.arg) IN
         [registry EXCEPT !.members[a] =
            PutAt(rest, r.arg, CHOOSE p \in Between(rest, r.hint) : TRUE)]
    [] r.command = "queueUpdate" -> [registry EXCEPT !.commission[a] = "queued"]
    [] OTHER -> [registry EXCEPT !.commission[a] = "new"]

-----------------------------------------------------------------------------
(* CheckBuilder.                                                           *)

\* The checks of the commands in their order.  Those that begin with "read"
\* only remember what a later one needs.
RegisterChecks == <<"isNotValidator", "isNotValidatorGroup", "meetsBalance">>
GroupRegisterChecks == <<"isNotValidator", "isNotValidatorGroup", "meetsBalance">>
DeregisterChecks == <<"isValidator", "readAffiliation", "isNotMember", "leftLongAgo">>
GroupDeregisterChecks == <<"readIfGroup", "isGroup", "updatedLongAgo">>
AffiliateChecks == <<"isValidator", "argIsGroup">>
DeaffiliateChecks == <<"isValidator">>
MemberChecks == <<"isGroup", "argIsValidator">>
\* That the account is a group is commented out.
CommissionChecks(command) ==
  IF command = "apply" THEN <<"isQueued", "isDue">> ELSE <<>>

ChecksOf(command) ==
  CASE command = "register"        -> RegisterChecks
    [] command = "registerGroup"   -> GroupRegisterChecks
    [] command = "deregister"      -> DeregisterChecks
    [] command = "deregisterGroup" -> GroupDeregisterChecks
    [] command = "affiliate"       -> AffiliateChecks
    [] command = "deaffiliate"     -> DeaffiliateChecks
    [] command \in {"accept", "remove", "reorder"} -> MemberChecks
    [] OTHER                       -> CommissionChecks(command)

\* MUTANT of LongAgo: the moment at which the duration ends is enough.
SinceDuration(age) == age >= Duration

\* waitPeriodEnd < Date.now() / 1000
LongAgo(age) == age > Duration

\* A check fails when it is false or when what it calls throws.  The balance
\* is compared with requirements[1], which is the duration.
Passes(a, check) ==
  LET seen == run[a].seen IN
  \/ check = "isValidator" /\ IsValidator(a)
  \/ check = "isNotValidator" /\ ~IsValidator(a)
  \/ check = "isGroup" /\ IsGroup(a)
  \/ check = "isNotValidatorGroup" /\ ~IsGroup(a)
  \/ check = "argIsGroup" /\ IsGroup(run[a].arg)
  \/ check = "argIsValidator" /\ IsValidator(run[a].arg)
  \/ check = "meetsBalance" /\ Duration <= plan[a].locked
  \/ check = "readAffiliation" /\ IsValidator(a)
  \/ check = "isNotMember" /\ (seen # Nobody => IsGroup(seen) /\ ~IsMember(a, seen))
  \/ check = "leftLongAgo" /\ LongAgo(registry.left[a])
  \/ check = "readIfGroup"
  \/ check = "updatedLongAgo" /\ (seen = a => IsGroup(a) /\ LongAgo(registry.updated[a]))
  \/ check = "isQueued" /\ IsGroup(a) /\ registry.commission[a] \in {"queued", "due"}
  \/ check = "isDue" /\ IsGroup(a) /\ registry.commission[a] # "queued"

Remembers(a, check) ==
  CASE check = "readAffiliation" -> registry.affiliation[a]
    [] check = "readIfGroup" -> IF IsGroup(a) THEN a ELSE Nobody
    [] OTHER -> run[a].seen

Reads == UNCHANGED <<plan, registry, mishaps>>

StartCommand(a, command, arg, to) ==
  /\ run[a].pc = "idle"
  /\ run' = [run EXCEPT ![a] = [Idle EXCEPT !.pc = "checks", !.command = command,
                                            !.arg = arg, !.to = to]]

\* One check of runChecks.  Those after one that fails are run as well, but
\* the command ends without a transaction.
RunCheck(a) ==
  LET checks == ChecksOf(run[a].command)
      check  == checks[run[a].check]
  IN
  /\ run[a].pc = "checks" /\ run[a].check \in DOMAIN checks
  /\ run' = [run EXCEPT ![a] = IF Passes(a, check)
                               THEN [@ EXCEPT !.check = run[a].check + 1,
                                              !.seen = Remembers(a, check)]
                               ELSE Idle]
  /\ Reads

-----------------------------------------------------------------------------
(* ValidatorsWrapper: what a transaction needs is read after the checks.   *)

Built(a) == run[a].pc = "checks" /\ run[a].check > Len(ChecksOf(run[a].command))

\* MUTANT of FindAddressIndex: one too far.
IndexAfter(a, entries) ==
  IF a \in Members(entries) THEN PlaceOf(entries, a) + 1 ELSE 0

\* 0 is for -1: the wrapper throws.
FindAddressIndex(a, entries) ==
  IF a \in Members(entries) THEN PlaceOf(entries, a) ELSE 0

\* deregisterValidator and deregisterValidatorGroup.
BuildDeregister(a) ==
  LET entries == IF run[a].command = "deregister" THEN registry.validators
                 ELSE registry.groups
      index == FindAddressIndex(a, entries)
  IN
  /\ Built(a) /\ run[a].command \in {"deregister", "deregisterGroup"}
  /\ run' = [run EXCEPT ![a] = IF index = 0 THEN Idle
                               ELSE [@ EXCEPT !.pc = "send", !.index = index]]
  /\ Reads

\* addMember: the size decides which transaction it is, 0 for addFirstMember.
BuildAccept(a) ==
  /\ Built(a) /\ run[a].command = "accept"
  /\ run' = [run EXCEPT ![a].pc = IF Size(a) = 0 THEN "weight" ELSE "send",
                        ![a].to = Size(a)]
  /\ Reads

\* getTotalVotesForGroup, then findLesserAndGreaterAfterVote with what it gave.
ReadWeight(a) ==
  /\ run[a].pc = "weight"
  /\ run' = [run EXCEPT ![a].pc = "hints", ![a].weight = registry.votes[a]]
  /\ Reads

ReadHints(a) ==
  /\ run[a].pc = "hints"
  /\ run' = [run EXCEPT ![a].pc = "send",
               ![a].hint = LesserAndGreater(registry.list, registry.votes, a,
                                            run[a].weight)]
  /\ Reads

\* MUTANT of NewNeighbours: put at its new index before it is taken out.
NeighboursUnshifted(members, a, to) ==
  LET place == IF to < PlaceOf(members, a) THEN to ELSE to - 1
      moved == PutAt(Rest(members, a), a, place)
  IN
  [lesser  |-> IF place = Len(moved) - 1 THEN Nobody ELSE moved[place + 2],
   greater |-> IF place = 0 THEN Nobody ELSE moved[place]]

\* Out of the list and into it again before index to, counted from 0.
NewNeighbours(members, a, to) ==
  LET moved == PutAt(Rest(members, a), a, to) IN
  [lesser  |-> IF to = Len(moved) - 1 THEN Nobody ELSE moved[to + 2],
   greater |-> IF to = 0 THEN Nobody ELSE moved[to]]

\* reorderMember throws when there is nothing to move.
BuildReorder(a) ==
  LET r == run[a]
      members == IF IsGroup(a) THEN registry.members[a] ELSE <<>>
  IN
  /\ Built(a) /\ r.command = "reorder"
  /\ run' = [run EXCEPT ![a] =
       IF /\ r.to < Len(members) /\ r.arg \in Members(members)
          /\ PlaceOf(members, r.arg) # r.to + 1
       THEN [@ EXCEPT !.pc = "send", !.hint = NewNeighbours(members, r.arg, r.to)]
       ELSE Idle]
  /\ Reads

BuildNothing(a) ==
  /\ Built(a)
  /\ run[a].command \notin {"deregister", "deregisterGroup", "accept", "reorder"}
  /\ run' = [run EXCEPT ![a].pc = "send"]
  /\ Reads

\* Whoever is underway may have read what this changes.
Unfresh(a, next) ==
  [b \in Users |-> IF b = a THEN next ELSE [run[b] EXCEPT !.fresh = FALSE]]

\* The transaction is accepted or reverts; register goes on to the key.
SendTx(a) ==
  /\ run[a].pc = "send"
  /\ IF Accepted(a)
     THEN /\ registry' = Effect(a)
          /\ run' = Unfresh(a, IF run[a].command = "register"
                               THEN [run[a] EXCEPT !.pc = "key"] ELSE Idle)
     ELSE /\ run' = [run EXCEPT ![a] = Idle]
          /\ UNCHANGED registry
  /\ UNCHANGED <<plan, mishaps>>

\* setAccountDataEncryptionKey, the second transaction of register.
SendKey(a) ==
  /\ run[a].pc = "key"
  /\ registry' = [registry EXCEPT !.keys = @ \cup {a}]
  /\ run' = [run EXCEPT ![a] = Idle]
  /\ UNCHANGED <<plan, mishaps>>

\* Ctrl-C or a lost connection ends a command before a transaction.
Cut(a) ==
  /\ run[a].pc \in {"send", "key"} /\ mishaps > 0
  /\ mishaps' = mishaps - 1 /\ run' = [run EXCEPT ![a] = Idle]
  /\ UNCHANGED <<plan, registry>>

-----------------------------------------------------------------------------
(* The accounts and their plans.                                           *)

Affiliates(a) == {v \in Members(registry.validators) : registry.affiliation[v] = a}
Order(command, arg) == [command |-> command, arg |-> arg]

ToLeave(a) ==
  IF ~IsValidator(a) THEN {}
  ELSE IF registry.affiliation[a] # Nobody THEN {Order("deaffiliate", Nobody)}
  ELSE {Order("deregister", Nobody)}

ToClose(a) ==
  IF ~IsGroup(a) THEN {}
  ELSE IF Size(a) = 0 THEN {Order("deregisterGroup", Nobody)}
  ELSE {Order("remove", v) : v \in Members(registry.members[a])}

ToJoin(a, group) ==
  IF IsGroup(a) THEN ToClose(a)
  ELSE IF ~IsValidator(a) THEN {Order("register", Nobody)}
  ELSE IF registry.affiliation[a] # group THEN {Order("affiliate", group)}
  ELSE {}

ToLead(a, first) ==
  IF IsValidator(a) THEN ToLeave(a)
  ELSE IF ~IsGroup(a) THEN {Order("registerGroup", Nobody)}
  ELSE {Order("accept", v) : v \in Affiliates(a) \ Members(registry.members[a])}
       \cup (IF IsMember(first, a) /\ registry.members[a][1] # first
             THEN {Order("reorder", first)} ELSE {})
       \cup (CASE registry.commission[a] = "old" -> {Order("queueUpdate", Nobody)}
               [] registry.commission[a] = "new" -> {}
               [] OTHER                       -> {Order("apply", Nobody)})

\* What a user who looks at the chain does next.
Wants(a) ==
  LET goal == plan[a].goal IN
  CASE goal = "join"  -> ToJoin(a, plan[a].with)
    [] goal = "leave" -> ToLeave(a)
    [] goal = "lead"  -> ToLead(a, plan[a].with)
    [] goal = "close" -> ToClose(a)
    [] OTHER          -> {}

Pursue(a) ==
  /\ \E o \in Wants(a) : StartCommand(a, o.command, o.arg, 0)
  /\ Reads

\* Anybody may mistake what to do.
Stray(a) ==
  /\ mishaps > 0
  /\ \E command \in ValidatorCommands, arg \in Users, to \in 0 .. 1 :
       /\ command \notin {"affiliate", "accept", "remove", "reorder"} =>
            arg = a
       /\ command # "reorder" => to = 0
       /\ StartCommand(a, command, arg, to)
  /\ mishaps' = mishaps - 1
  /\ UNCHANGED <<plan, registry>>

\* Others vote, so that a group changes its place in the list.
VotesChange(group) ==
  /\ mishaps > 0 /\ group \in Members(registry.list)
  /\ \E total \in {0, 9} :
       LET rest == Rest(registry.list, group) IN
       \E p \in 0 .. Len(rest) :
         /\ Fits(rest, registry.votes, total, p)
         /\ registry' = [registry EXCEPT !.votes[group] = total,
                                   !.list = PutAt(rest, group, p)]
  /\ mishaps' = mishaps - 1
  /\ run' = [a \in Users |-> [run[a] EXCEPT !.fresh = FALSE]]
  /\ UNCHANGED plan

Older(age) == IF age > Duration THEN age ELSE age + 1

\* Time passes, and with it the delay of the commissions.
Tick ==
  LET next == [registry EXCEPT
                 !.left = [a \in Accounts |-> Older(@[a])],
                 !.updated = [a \in Accounts |-> Older(@[a])],
                 !.commission = [a \in Accounts |->
                                   IF @[a] = "queued" THEN "due" ELSE @[a]]]
  IN
  /\ next # registry /\ registry' = next
  /\ UNCHANGED <<plan, run, mishaps>>

Command(a) ==
  \/ RunCheck(a) \/ BuildDeregister(a) \/ BuildAccept(a)
  \/ ReadWeight(a) \/ ReadHints(a)
  \/ BuildReorder(a) \/ BuildNothing(a) \/ SendTx(a) \/ SendKey(a)

AllIdle == \A a \in Users : run[a].pc = "idle"
AtRest == AllIdle /\ UNCHANGED validatorsVars

ValidatorsNext ==
  \/ \E a \in Users : Pursue(a) \/ Stray(a) \/ Command(a) \/ Cut(a)
  \/ \E group \in Accounts : VotesChange(group)
  \/ Tick \/ AtRest

ValidatorsSpec == ValidatorsInit /\ [][ValidatorsNext]_validatorsVars

\* Everybody goes on until his plan is done; nodes answer and time passes.
ValidatorsFairSpec == /\ ValidatorsSpec /\ WF_validatorsVars(Tick)
            /\ \A a \in Users : WF_validatorsVars(Pursue(a) \/ Command(a))

-----------------------------------------------------------------------------
\* The parts of the records have their types.
ValidatorsTypeOK ==
  /\ registry \in Registries
  /\ \A a \in Users : run[a].command \in ValidatorCommands \cup {"none"}

\* What the checks of a command leave to the contract.
Unchecked(a) ==
  LET r == run[a] IN
  \/ r.command \in {"register", "registerGroup"} /\ plan[a].locked < Value
  \/ r.command = "deaffiliate" /\ registry.affiliation[a] = Nobody
  \/ r.command = "deregisterGroup" /\ Size(a) > 0
  \/ /\ r.command = "accept"
     /\ \/ registry.affiliation[r.arg] # a \/ IsMember(r.arg, a)
        \/ Size(a) >= MaxGroupSize
        \/ plan[a].locked < Value * (Size(a) + 1)
  \/ r.command = "remove" /\ ~IsMember(r.arg, a)
  \/ r.command = "queueUpdate" /\ ~IsGroup(a)

\* A transaction whose checks have passed is reverted only if somebody else
\* changed something since the command began, or if it breaks one of the rules
\* that no check of its command looks at: the checks, the indexes and the
\* neighbours of every command are right otherwise.
ChecksSuffice ==
  [][\A a \in Users : SendTx(a) /\ ~Accepted(a) =>
       ~run[a].fresh \/ Unchecked(a)]_validatorsVars

\* An accepted reorderMember puts the member at the index that was asked for,
\* if nobody changed the group meanwhile.
ReordersToPlace ==
  [][\A a \in Users :
       LET r == run[a] IN
       (SendTx(a) /\ Accepted(a) /\ r.command = "reorder" /\ r.fresh) =>
         registry'.members[a][r.to + 1] = r.arg]_validatorsVars

Reached(a) ==
  LET goal == plan[a].goal
      with == plan[a].with
  IN
  \/ goal = "none"
  \/ goal = "join" /\ IsValidator(a) /\ registry.affiliation[a] = with
  \/ goal = "leave" /\ ~IsValidator(a)
  \/ /\ goal = "lead" /\ IsGroup(a) /\ registry.commission[a] = "new"
     /\ Affiliates(a) \subseteq Members(registry.members[a]) \/ Size(a) = MaxGroupSize
     /\ IsMember(with, a) => registry.members[a][1] = with
  \/ goal = "close" /\ ~IsGroup(a)

Funded(a) ==
  plan[a].locked >=
    Value * (IF plan[a].goal = "lead" THEN Cardinality(Accounts) ELSE 1)

\* Whoever has the gold for it and repeats the command that comes next gets
\* where he wants to be and stays there, also when a command was cut off, was
\* reverted because of another one, or was a mistake: no index stays stale, no
\* group is left that cannot be closed, and every affiliate is accepted until the
\* group is full.
GoalsReached ==
  <>[](\A a \in Users : Funded(a) => Reached(a))
=============================================================================
