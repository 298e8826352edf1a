-------------------------- MODULE ToolAccessProofs ---------------------------
(***************************************************************************)
(* Proofs about ToolAccess, for all files, commands, contents and calls,   *)
(* and for every project configuration, however long its list of rules.    *)
(***************************************************************************)
EXTENDS ToolAccess, ListProofs

-----------------------------------------------------------------------------
(***************************************************************************)
(* Lists of rules                                                          *)
(***************************************************************************)
\* The rule that decides is a matching one, and none before it matches.
LEMMA FirstRuleIs ==
  ASSUME NEW rules \in Seq(Rule), NEW tool, NEW target,
         Matching(rules, tool, target) # {}
  PROVE  \E i \in Matching(rules, tool, target) :
           /\ \A j \in Matching(rules, tool, target) : i <= j
           /\ FirstRule(rules, tool, target) = rules[i].kind
<1>1. Matching(rules, tool, target) \subseteq Nat
  BY DEF Matching
<1>2. \E i \in Matching(rules, tool, target) : \A j \in Matching(rules, tool, target) : i <= j
  BY <1>1, LeastMember
<1>3. QED  BY <1>2 DEF FirstRule

\* What the project says first is still said first when rules were added.
LEMMA ProjectFirst ==
  ASSUME NEW rules \in Seq(Rule), NEW project \in Seq(Rule), NEW keys,
         NEW tool, NEW target,
         Grown(rules, project, keys), Matching(project, tool, target) # {}
  PROVE  /\ Matching(rules, tool, target) # {}
         /\ FirstRule(rules, tool, target) = FirstRule(project, tool, target)
<1>1. Matching(project, tool, target) \subseteq Matching(rules, tool, target)
  BY DEF Matching, Grown
<1>2. PICK i \in Matching(project, tool, target) :
        /\ \A j \in Matching(project, tool, target) : i <= j
        /\ FirstRule(project, tool, target) = project[i].kind
  BY FirstRuleIs
<1>3. PICK k \in Matching(rules, tool, target) :
        /\ \A j \in Matching(rules, tool, target) : k <= j
        /\ FirstRule(rules, tool, target) = rules[k].kind
  BY <1>1, <1>2, FirstRuleIs
<1>4. k <= i /\ i \in 1..Len(project) /\ k \in 1..Len(rules)
  BY <1>1, <1>2, <1>3 DEF Matching
<1>5. k \in 1..Len(project) /\ rules[k] = project[k] /\ rules[i] = project[i]
  BY <1>4 DEF Grown
<1>6. k \in Matching(project, tool, target)
  BY <1>3, <1>5 DEF Matching
<1>7. k = i
  BY <1>2, <1>4, <1>6
<1>8. QED  BY <1>1, <1>2, <1>3, <1>5, <1>7

\* Where the project says nothing, only a consent to this tool and this target does.
LEMMA ConsentSecond ==
  ASSUME NEW rules \in Seq(Rule), NEW project \in Seq(Rule),
         NEW keys \in SUBSET (Tools \X Targets), NEW tool, NEW target,
         Grown(rules, project, keys), Matching(project, tool, target) = {},
         Matching(rules, tool, target) # {}
  PROVE  FirstRule(rules, tool, target) = "allow" /\ <<tool, target>> \in keys
<1>1. PICK i \in Matching(rules, tool, target) : FirstRule(rules, tool, target) = rules[i].kind
  BY FirstRuleIs
<1>2. i \in 1..Len(rules) /\ i \notin 1..Len(project)
  BY <1>1 DEF Matching, Grown
<1>3. rules[i].kind = "allow" /\ <<rules[i].tool, rules[i].target>> \in keys
  BY <1>2 DEF Grown
<1>4. rules[i].tool # "*"
  BY <1>3 DEF Tools
<1>5. QED  BY <1>1, <1>3, <1>4 DEF Matching

-----------------------------------------------------------------------------
(***************************************************************************)
(* Decisions                                                               *)
(***************************************************************************)
\* A policy whose rules have grown by consent denies what the project denies.
LEMMA NotDenied ==
  ASSUME NEW policy \in Policies, NEW project \in Seq(Rule),
         NEW keys \in SUBSET (Tools \X Targets),
         Grown(policy.rules, project, keys), policy.session \subseteq keys,
         \A key \in keys : Askable(project, key[1], key[2]),
         NEW tool, NEW target, NEW exists,
         Decision(policy, tool, target, exists) # "deny"
  PROVE  Askable(project, tool, target)
<1>1. policy.rules \in Seq(Rule)
  BY DEF Policies
<1>2. CASE <<tool, target>> \in policy.session
  BY <1>2
<1>3. CASE <<tool, target>> \notin policy.session
  BY <1>1, <1>3, ProjectFirst DEF Decision, Askable
<1>4. QED  BY <1>2, <1>3

\* What it allows, the project's file and the mode allow, or the user did.
LEMMA AllowedByWhom ==
  ASSUME NEW policy \in Policies, NEW project \in Seq(Rule),
         NEW keys \in SUBSET (Tools \X Targets),
         Grown(policy.rules, project, keys), policy.session \subseteq keys,
         NEW tool, NEW target, NEW exists,
         Decision(policy, tool, target, exists) = "allow"
  PROVE  \/ <<tool, target>> \in keys
         \/ Decision([mode |-> policy.mode, rules |-> project, session |-> {}],
                     tool, target, exists) = "allow"
<1> DEFINE bare == [mode |-> policy.mode, rules |-> project, session |-> {}]
<1> SUFFICES ASSUME <<tool, target>> \notin keys
             PROVE  Decision(bare, tool, target, exists) = "allow"
  OBVIOUS
<1>1. policy.rules \in Seq(Rule) /\ <<tool, target>> \notin policy.session
  BY DEF Policies
<1>2. target \notin HardBlocked
  BY DEF Decision
<1>3. CASE Matching(project, tool, target) # {}
  <2>1. FirstRule(project, tool, target) = "allow"
    BY <1>1, <1>2, <1>3, ProjectFirst DEF Decision
  <2>2. QED  BY <1>2, <1>3, <2>1 DEF Decision
<1>4. CASE Matching(project, tool, target) = {}
  <2>1. Matching(policy.rules, tool, target) = {}
    BY <1>1, <1>4, ConsentSecond
  <2>2. ByMode(policy.mode, tool, target, exists) = "allow"
    BY <1>1, <1>2, <2>1 DEF Decision
  <2>3. QED  BY <1>2, <1>4, <2>2 DEF Decision
<1>5. QED  BY <1>3, <1>4

\* A permanent permission: the list keeps its type, grows by consent, keeps
\* what matched and now matches the new key.
LEMMA RuleAdded ==
  ASSUME NEW rules \in Seq(Rule), NEW project \in Seq(Rule), NEW keys,
         NEW key \in Tools \X Targets, Grown(rules, project, keys)
  PROVE  /\ WithRule(rules, key) \in Seq(Rule)
         /\ Grown(WithRule(rules, key), project, keys \cup {key})
         /\ Has(WithRule(rules, key), key)
         /\ \A k : Has(rules, k) => Has(WithRule(rules, key), k)
<1> DEFINE rule == [tool |-> key[1], kind |-> "allow", target |-> key[2]]
           more == WithRule(rules, key)
<1>1. rule \in Rule /\ key = <<key[1], key[2]>>
  BY DEF Rule
<1>2. CASE \E i \in DOMAIN rules : rules[i] = rule
  <2>1. more = rules
    BY <1>2 DEF WithRule
  <2>2. Has(rules, key)
    BY <1>2 DEF Has, Matching
  <2>3. QED  BY <2>1, <2>2 DEF Grown
<1>3. CASE ~ \E i \in DOMAIN rules : rules[i] = rule
  <2>1. more = Append(rules, rule)
    BY <1>3 DEF WithRule
  <2>2. /\ more \in Seq(Rule) /\ Len(more) = Len(rules) + 1
        /\ \A i \in 1..Len(rules) : more[i] = rules[i]
        /\ more[Len(rules) + 1] = rule
    BY <1>1, <2>1
  <2>3. Grown(more, project, keys \cup {key})
    <3>1. Len(project) <= Len(rules) /\ Len(rules) \in Nat /\ Len(project) \in Nat
      BY DEF Grown
    <3>2. \A i \in 1..Len(project) : more[i] = project[i]
      BY <2>2, <3>1 DEF Grown
    <3>3. ASSUME NEW i \in (Len(project) + 1)..Len(more)
          PROVE  more[i].kind = "allow" /\ <<more[i].tool, more[i].target>> \in keys \cup {key}
      <4>1. CASE i = Len(rules) + 1
        BY <1>1, <2>2, <4>1
      <4>2. CASE i # Len(rules) + 1
        <5>1. i \in (Len(project) + 1)..Len(rules) /\ more[i] = rules[i]
          BY <2>2, <3>1, <3>3, <4>2
        <5>2. QED  BY <5>1 DEF Grown
      <4>3. QED  BY <4>1, <4>2
    <3>4. QED  BY <2>2, <3>1, <3>2, <3>3 DEF Grown
  <2>4. Has(more, key)
    <3>1. Len(rules) + 1 \in Matching(more, key[1], key[2])
      BY <2>2 DEF Matching
    <3>2. QED  BY <3>1 DEF Has
  <2>5. ASSUME NEW k, Has(rules, k) PROVE Has(more, k)
    BY <2>2, <2>5 DEF Has, Matching
  <2>6. QED  BY <2>2, <2>3, <2>4, <2>5
<1>4. QED  BY <1>2, <1>3
\* A list with a rule for what may be asked allows it, unless the project asks.
LEMMA AddedDecides ==
  ASSUME NEW policy, policy.rules \in Seq(Rule), NEW project \in Seq(Rule),
         NEW keys \in SUBSET (Tools \X Targets), NEW tool, NEW target, NEW exists,
         Grown(policy.rules, project, keys), Askable(project, tool, target),
         Matching(policy.rules, tool, target) # {},
         ~(Matching(project, tool, target) # {} /\ FirstRule(project, tool, target) = "ask")
  PROVE  Decision(policy, tool, target, exists) = "allow"
<1>1. FirstRule(policy.rules, tool, target) = "allow"
  <2>1. CASE Matching(project, tool, target) = {}
    <3>1. FirstRule(policy.rules, tool, target) = "allow" /\ <<tool, target>> \in keys
      BY <2>1, ConsentSecond, Zenon
    <3>2. QED  BY <3>1
  <2>2. CASE Matching(project, tool, target) # {}
    <3>1. PICK i \in Matching(project, tool, target) :
            FirstRule(project, tool, target) = project[i].kind
      BY <2>2, FirstRuleIs
    <3>2. project[i] \in Rule
      BY <3>1 DEF Matching
    <3>3. FirstRule(project, tool, target) = "allow"
      BY <2>2, <3>1, <3>2 DEF Askable, Rule
    <3>4. QED  BY <2>2, <3>3, ProjectFirst
  <2>3. QED  BY <2>1, <2>2
<1>2. QED  BY <1>1 DEF Decision, Askable

\* More consents keep a list grown.
LEMMA StillGrown ==
  ASSUME NEW rules, NEW project, NEW keys, NEW more, keys \subseteq more,
         Grown(rules, project, keys)
  PROVE  Grown(rules, project, more)
BY DEF Grown

\* The project's own list has grown by nothing.
LEMMA GrownByNothing ==
  ASSUME NEW project \in Seq(Rule), NEW keys
  PROVE  Grown(project, project, keys)
BY DEF Grown

-----------------------------------------------------------------------------
(***************************************************************************)
(* Types                                                                   *)
(***************************************************************************)
LEMMA LoadedType ==
  ASSUME NEW file \in ConfigFiles, NEW mode \in Modes
  PROVE  LoadPolicy(file, mode) \in Policies /\ LoadPolicy(file, mode).session = {}
BY DEF LoadPolicy, ConfigFiles, Policies, Modes

\* What a call's end leaves of the table of calls.
LEMMA EndsLeaves ==
  ASSUME TypeOK, NEW c \in DOMAIN calls, Ends(c)
  PROVE  /\ calls' \in [AppCalls \cup WorkerCalls -> CallRecords]
         /\ \A d \in DOMAIN calls' : Asking(d)' => Asking(d) /\ calls'[d] = calls[d]
BY DEF TypeOK, Ends, Idle, CallRecords, Asking

LEMMA AskedStays ==
  ASSUME TypeOK, calls' \in [AppCalls \cup WorkerCalls -> CallRecords],
         \A d \in DOMAIN calls' : Asking(d)' => Asking(d) /\ calls'[d] = calls[d]
  PROVE  AskedSensibly'
BY DEF TypeOK, AskedSensibly, Asking, Key

LEMMA EffectType ==
  ASSUME TypeOK, NEW c \in DOMAIN calls, NEW call, NEW approved \in BOOLEAN,
         TakesEffect(c, call, approved), policies[Owner(c)] \in Policies,
         call.tool \in Tools, call.target \in Targets, call.found \in BOOLEAN,
         call.tool # "Bash" => call.target \in Files /\ call.text \in Contents
  PROVE  /\ disk' \in [Files -> Contents \cup {Nothing}]
         /\ effects' \subseteq [tool : Tools, target : Targets, existed : BOOLEAN,
                                mode : Modes, approved : BOOLEAN]
         /\ Ends(c)
<1>1. Ends(c) /\ disk' \in [Files -> Contents \cup {Nothing}]
  BY DEF TakesEffect, TypeOK
<1>2. policies[Owner(c)].mode \in Modes
  BY DEF Policies
<1>3. QED  BY <1>1, <1>2 DEF TakesEffect, TypeOK

\* An answered call: it has its effect, or only ends.
LEMMA AnsweredType ==
  ASSUME TypeOK, NEW c \in DOMAIN calls, Asking(c), AfterApproval(c)
  PROVE  /\ disk' \in [Files -> Contents \cup {Nothing}]
         /\ effects' \subseteq [tool : Tools, target : Targets, existed : BOOLEAN,
                                mode : Modes, approved : BOOLEAN]
         /\ Ends(c)
<1>1. /\ c \in AppCalls /\ calls[c].tool \in Tools /\ calls[c].target \in Targets
      /\ calls[c].found \in BOOLEAN
      /\ calls[c].tool # "Bash" => calls[c].target \in Files /\ calls[c].text \in Contents
  BY DEF TypeOK, AskedSensibly, Key, CallRecords
<1>2. policies[Owner(c)] \in Policies
  BY <1>1 DEF TypeOK, Owner
<1>3. CASE TakesEffect(c, calls[c], TRUE)
  BY <1>1, <1>2, <1>3, EffectType
<1>4. CASE Ends(c) /\ UNCHANGED <<disk, effects>>
  BY <1>4 DEF TypeOK
<1>5. QED  BY <1>3, <1>4 DEF AfterApproval

\* A call that starts: what it is for, before it goes on in one of three ways.
LEMMA StartsAs ==
  ASSUME TypeOK, NEW c \in DOMAIN calls, CallStarts(c)
  PROVE  /\ policies[Owner(c)] \in Policies
         /\ \E call \in CallRecords :
              /\ call.tool \in Tools /\ call.target \in Targets
              /\ call.tool # "Bash" => call.target \in Files /\ call.text \in Contents
              /\ GoesOn(c, call)
<1>1. policies[Owner(c)] \in Policies
  BY DEF CallStarts, TypeOK, Owner
<1>2. PICK tool \in Tools, target \in Targets,
           expected \in Contents \cup {Nothing}, text \in Contents \cup {Nothing} :
        /\ tool = "Bash" <=> target \in Commands
        /\ tool = "Bash" <=> text = Nothing
        /\ GoesOn(c, [phase |-> "asking", tool |-> tool, target |-> target,
                      expected |-> expected, text |-> text, found |-> Exists(target)])
  BY DEF CallStarts
<1> DEFINE call == [phase |-> "asking", tool |-> tool, target |-> target,
                    expected |-> expected, text |-> text, found |-> Exists(target)]
<1>3. Exists(target) \in BOOLEAN
  BY DEF Exists
<1>4. call \in CallRecords
  BY <1>3 DEF CallRecords
<1>5. tool # "Bash" => target \in Files /\ text \in Contents
  BY <1>2 DEF Targets
<1>6. call.tool = tool /\ call.target = target /\ call.text = text
  OBVIOUS
<1>7. GoesOn(c, call)
  BY <1>2
<1> HIDE DEF call
<1>8. QED  BY <1>1, <1>4, <1>5, <1>6, <1>7

-----------------------------------------------------------------------------
LEMMA TypeInit == Init => TypeOK
<1> SUFFICES ASSUME Init PROVE TypeOK
  OBVIOUS
<1>1. saved \in ConfigFiles /\ AppMode \in Modes
  BY AccessAssumption DEF Init
<1>2. policies.app \in Policies /\ policies \in [app : Policies, worker : Policies \cup {Nothing}]
  BY <1>1, LoadedType DEF Init
<1>3. rules0 \in Seq(Rule)
  BY <1>2 DEF Init, Policies
<1>4. Idle \in CallRecords /\ Idle.phase = "idle"
  BY DEF Idle, CallRecords
<1>5. calls \in [AppCalls \cup WorkerCalls -> CallRecords] /\ AskedSensibly
  BY <1>4 DEF Init, AskedSensibly, Asking
<1>6. 0 \in 0..MaxOutside /\ 0 \in 0..MaxRestarts
  BY AccessAssumption
<1>7. QED
  BY <1>1, <1>2, <1>3, <1>5, <1>6 DEF Init, TypeOK

\* The user's answers keep the policy's type.
LEMMA ConsentType ==
  ASSUME TypeOK, NEW c \in DOMAIN calls, Asking(c)
  PROVE  /\ Key(c) \in Tools \X Targets
         /\ NewRules(c) \in Seq(Rule)
         /\ [policies EXCEPT !.app.session = @ \cup {Key(c)}]
              \in [app : Policies, worker : Policies \cup {Nothing}]
         /\ [policies EXCEPT !.app.rules = NewRules(c)]
              \in [app : Policies, worker : Policies \cup {Nothing}]
         /\ Written(NewRules(c)) \in ConfigFiles
         /\ CutFiles(c) \subseteq ConfigFiles
<1>1. Key(c) \in Tools \X Targets
  BY DEF TypeOK, AskedSensibly
<1>2. policies.app \in Policies /\ policies.app.rules \in Seq(Rule) /\ policies.app.mode \in Modes
  BY DEF TypeOK, Policies
<1>3. NewRules(c) \in Seq(Rule)
  <2>1. [tool |-> Key(c)[1], kind |-> "allow", target |-> Key(c)[2]] \in Rule
    BY <1>1 DEF Rule
  <2>2. QED  BY <1>2, <2>1 DEF NewRules, WithRule
<1>4. /\ [policies EXCEPT !.app.session = @ \cup {Key(c)}]
            \in [app : Policies, worker : Policies \cup {Nothing}]
      /\ [policies EXCEPT !.app.rules = NewRules(c)]
            \in [app : Policies, worker : Policies \cup {Nothing}]
  BY <1>1, <1>3 DEF TypeOK, Policies
<1>5. Written(NewRules(c)) \in ConfigFiles
  BY <1>2, <1>3 DEF ConfigFiles, Written
<1>6. CutFiles(c) \subseteq ConfigFiles
  <2>1. ASSUME NEW n \in 0..Len(NewRules(c)) PROVE SubSeq(NewRules(c), 1, n) \in Seq(Rule)
    BY <1>3, <2>1
  <2>2. << >> \in Seq(Rule)
    OBVIOUS
  <2>3. ASSUME NEW file \in CutFiles(c) PROVE file \in ConfigFiles
    <3>1. CASE file = [state |-> "ok", mode |-> Nothing, rules |-> << >>]
      BY <2>2, <3>1 DEF ConfigFiles
    <3>2. CASE \E n \in 0..Len(NewRules(c)), state \in {"ok", "broken"} :
                 file = [state |-> state, mode |-> policies.app.mode,
                         rules |-> SubSeq(NewRules(c), 1, n)]
      BY <1>2, <2>1, <3>2 DEF ConfigFiles
    <3>3. QED  BY <3>1, <3>2 DEF CutFiles
  <2>4. QED  BY <2>3
<1>7. QED  BY <1>1, <1>3, <1>4, <1>5, <1>6

LEMMA TypeCall ==
  ASSUME TypeOK, NEW c \in DOMAIN calls,
         CallStarts(c) \/ Refused(c) \/ ApprovedOnce(c) \/ ApprovedForSession(c)
           \/ ApprovedForEver(c) \/ SaveFails(c)
  PROVE  TypeOK'
<1>1. CASE CallStarts(c)
  <2>1. PICK call \in CallRecords :
          /\ policies[Owner(c)] \in Policies
          /\ call.tool \in Tools /\ call.target \in Targets
          /\ call.tool # "Bash" => call.target \in Files /\ call.text \in Contents
          /\ GoesOn(c, call)
    BY <1>1, StartsAs
  <2>2. UNCHANGED <<saved, policies, outside, restarts, rules0, consents, forever,
                    intact, misread>>
    BY <1>1 DEF CallStarts
  <2>3. CASE Ends(c) /\ UNCHANGED <<disk, effects>>
    <3>1. calls' \in [AppCalls \cup WorkerCalls -> CallRecords] /\ AskedSensibly'
      BY <2>3, EndsLeaves, AskedStays
    <3>2. QED  BY <2>2, <2>3, <3>1 DEF TypeOK
  <2>4. CASE /\ Decision(policies[Owner(c)], call.tool, call.target, call.found) = "ask"
             /\ c \in AppCalls
             /\ calls' = [calls EXCEPT ![c] = call] /\ UNCHANGED <<disk, effects>>
    <3>1. call.target \notin HardBlocked
      BY <2>4 DEF Decision
    <3>2. calls' \in [AppCalls \cup WorkerCalls -> CallRecords]
      BY <2>4 DEF TypeOK
    <3>3. AskedSensibly'
      BY <2>1, <3>2, <2>4, <3>1 DEF TypeOK, AskedSensibly, Asking, Key
    <3>4. QED  BY <2>2, <2>4, <3>2, <3>3 DEF TypeOK
  <2>5. CASE TakesEffect(c, call, FALSE)
    <3>1. /\ disk' \in [Files -> Contents \cup {Nothing}] /\ Ends(c)
          /\ effects' \subseteq [tool : Tools, target : Targets, existed : BOOLEAN,
                                 mode : Modes, approved : BOOLEAN]
      <4>1. call.found \in BOOLEAN
        BY DEF CallRecords
      <4>2. QED  BY <2>1, <2>5, <4>1, EffectType
    <3>2. calls' \in [AppCalls \cup WorkerCalls -> CallRecords] /\ AskedSensibly'
      BY <3>1, EndsLeaves, AskedStays
    <3>3. QED  BY <2>2, <3>1, <3>2 DEF TypeOK
  <2>6. QED  BY <2>1, <2>3, <2>4, <2>5 DEF GoesOn
<1>2. CASE Refused(c) \/ SaveFails(c)
  <2>1. Asking(c) /\ Ends(c) /\ UNCHANGED <<disk, effects, rules0, forever, outside, restarts>>
    BY <1>2 DEF Refused, SaveFails, ghosts
  <2>2. calls' \in [AppCalls \cup WorkerCalls -> CallRecords] /\ AskedSensibly'
    BY <2>1, EndsLeaves, AskedStays
  <2>3. /\ policies' \in [app : Policies, worker : Policies \cup {Nothing}]
        /\ saved' \in ConfigFiles /\ consents' \subseteq Tools \X Targets
        /\ {intact', misread'} \subseteq BOOLEAN
    BY <1>2, <2>1, ConsentType DEF Refused, SaveFails, ghosts, TypeOK
  <2>4. QED  BY <2>1, <2>2, <2>3 DEF TypeOK
<1>3. CASE ApprovedOnce(c) \/ ApprovedForSession(c) \/ ApprovedForEver(c)
  <2>1. Asking(c) /\ AfterApproval(c) /\ UNCHANGED <<rules0, outside, restarts, misread>>
    BY <1>3 DEF ApprovedOnce, ApprovedForSession, ApprovedForEver
  <2>2. /\ disk' \in [Files -> Contents \cup {Nothing}] /\ Ends(c)
        /\ effects' \subseteq [tool : Tools, target : Targets, existed : BOOLEAN,
                               mode : Modes, approved : BOOLEAN]
    BY <2>1, AnsweredType
  <2>3. calls' \in [AppCalls \cup WorkerCalls -> CallRecords] /\ AskedSensibly'
    BY <2>2, EndsLeaves, AskedStays
  <2>4. /\ policies' \in [app : Policies, worker : Policies \cup {Nothing}]
        /\ saved' \in ConfigFiles
        /\ consents' \cup forever' \subseteq Tools \X Targets
        /\ intact' \in BOOLEAN
    <3>1. CASE ApprovedOnce(c)
      BY <3>1 DEF ApprovedOnce, TypeOK
    <3>2. CASE ApprovedForSession(c)
      BY <2>1, <3>2, ConsentType DEF ApprovedForSession, TypeOK
    <3>3. CASE ApprovedForEver(c)
      BY <2>1, <3>3, ConsentType DEF ApprovedForEver, TypeOK, Readable
    <3>4. QED  BY <1>3, <3>1, <3>2, <3>3
  <2>5. QED  BY <2>1, <2>2, <2>3, <2>4 DEF TypeOK
<1>4. QED  BY <1>1, <1>2, <1>3

LEMMA TypeRestart ==
  ASSUME TypeOK, NEW file \in ConfigFiles, NEW whole \in BOOLEAN,
         StartsAgainWith(file, whole)
  PROVE  TypeOK'
<1>1. policies' \in [app : Policies, worker : Policies \cup {Nothing}]
  BY LoadedType, AccessAssumption DEF StartsAgainWith
<1>2. /\ calls' \in [AppCalls \cup WorkerCalls -> CallRecords]
      /\ \A d \in DOMAIN calls' : ~Asking(d)'
  BY DEF StartsAgainWith, TypeOK, Idle, CallRecords, Asking
<1>3. restarts' \in 0..MaxRestarts
  BY AccessAssumption DEF StartsAgainWith, TypeOK
<1>4. QED  BY <1>1, <1>2, <1>3 DEF StartsAgainWith, TypeOK, AskedSensibly

LEMMA TypeNext == TypeOK /\ [Next]_vars => TypeOK'
<1> SUFFICES ASSUME TypeOK, [Next]_vars PROVE TypeOK'
  OBVIOUS
<1>1. ASSUME NEW c \in DOMAIN calls, SaveTorn(c) PROVE TypeOK'
  BY <1>1, ConsentType, TypeRestart DEF SaveTorn
<1>2. CASE Restart
  <2>1. saved \in ConfigFiles /\ StartsAgainWith(saved, intact) /\ intact \in BOOLEAN
    BY <1>2 DEF Restart, TypeOK
  <2>2. QED  BY <2>1, TypeRestart
<1>3. CASE WorkerStarts
  <2>1. PICK mode \in RoleModes : policies' = [policies EXCEPT !.worker = LoadPolicy(saved, mode)]
    BY <1>3 DEF WorkerStarts
  <2>2. LoadPolicy(saved, mode) \in Policies
    BY LoadedType, AccessAssumption DEF TypeOK
  <2>3. policies' \in [app : Policies, worker : Policies \cup {Nothing}]
    BY <2>1, <2>2 DEF TypeOK
  <2>4. {intact', misread'} \subseteq BOOLEAN
    BY <1>3, Zenon DEF WorkerStarts, TypeOK
  <2>5. UNCHANGED <<disk, saved, calls, outside, restarts, rules0, effects, consents, forever>>
    BY <1>3 DEF WorkerStarts
  <2>6. QED  BY <2>3, <2>4, <2>5 DEF TypeOK, AskedSensibly, Asking, Key
<1>4. ASSUME NEW f \in Files, OutsideChanges(f) PROVE TypeOK'
  BY <1>4, AccessAssumption DEF OutsideChanges, TypeOK, AskedSensibly, Asking, Key, ghosts
<1>5. CASE RulesRewritten
  <2>1. saved' \in ConfigFiles /\ outside' \in 0..MaxOutside
    BY <1>5, AccessAssumption DEF RulesRewritten, TypeOK
  <2>2. {intact', misread'} \subseteq BOOLEAN
    BY <1>5 DEF RulesRewritten, TypeOK
  <2>3. UNCHANGED <<disk, policies, calls, restarts, rules0, effects, consents, forever>>
    BY <1>5 DEF RulesRewritten
  <2>4. QED  BY <2>1, <2>2, <2>3 DEF TypeOK, AskedSensibly, Asking, Key
<1>6. CASE UNCHANGED vars
  BY <1>6 DEF vars, TypeOK, AskedSensibly, Asking, Key
<1>7. QED  BY <1>1, <1>2, <1>3, <1>4, <1>5, <1>6, TypeCall DEF Next

-----------------------------------------------------------------------------
(***************************************************************************)
(* Rules and effects                                                       *)
(***************************************************************************)
\* While no policy was misread, what a call may do the project allows or leaves
\* to the user.
LEMMA CallPermitted ==
  ASSUME IInv, ~misread, NEW c \in DOMAIN calls,
         policies[Owner(c)] \in Policies, policies[Owner(c)] # Nothing,
         NEW tool, NEW target, NEW exists,
         Decision(policies[Owner(c)], tool, target, exists) # "deny"
  PROVE  /\ Askable(rules0, tool, target)
         /\ Decision(policies[Owner(c)], tool, target, exists) = "allow" =>
              \/ <<tool, target>> \in consents
              \/ Decision([mode |-> policies[Owner(c)].mode, rules |-> rules0, session |-> {}],
                          tool, target, exists) = "allow"
<1>1. /\ rules0 \in Seq(Rule) /\ consents \in SUBSET (Tools \X Targets)
      /\ \A key \in consents : Askable(rules0, key[1], key[2])
  BY DEF IInv, TypeOK, RulesSound
<1>2. /\ Grown(policies[Owner(c)].rules, rules0, consents)
      /\ policies[Owner(c)].session \subseteq consents
  <2>1. CASE c \in AppCalls
    BY <2>1 DEF IInv, RulesSound, Owner
  <2>2. CASE c \notin AppCalls
    BY <2>2 DEF IInv, RulesSound, Owner
  <2>3. QED  BY <2>1, <2>2
<1>3. QED  BY <1>1, <1>2, NotDenied, AllowedByWhom

\* Effects that were there stay justified.
LEMMA EffectsStay ==
  ASSUME IInv, rules0' = rules0, consents \subseteq consents', effects' = effects,
         misread => misread'
  PROVE  (DenyHolds /\ EffectsConsented)'
BY DEF IInv, DenyHolds, EffectsConsented

\* A new effect is justified by the call's permission.
LEMMA EffectAdded ==
  ASSUME IInv, NEW c, NEW call, NEW approved, TakesEffect(c, call, approved),
         rules0' = rules0, consents \subseteq consents', misread' = misread,
         ~misread =>
           /\ Askable(rules0, call.tool, call.target)
           /\ \/ approved
              \/ <<call.tool, call.target>> \in consents
              \/ Decision([mode |-> policies[Owner(c)].mode, rules |-> rules0, session |-> {}],
                          call.tool, call.target, call.found) = "allow"
  PROVE  (DenyHolds /\ EffectsConsented)'
<1> DEFINE new == [tool |-> call.tool, target |-> call.target, existed |-> call.found,
                   mode |-> policies[Owner(c)].mode, approved |-> approved]
<1>1. effects' = effects \cup {new}
  BY DEF TakesEffect
<1>2. /\ new.tool = call.tool /\ new.target = call.target /\ new.existed = call.found
      /\ new.mode = policies[Owner(c)].mode /\ new.approved = approved
  OBVIOUS
<1> HIDE DEF new
<1>3. DenyHolds'
  BY <1>1, <1>2 DEF IInv, DenyHolds, Askable
<1>4. EffectsConsented'
  BY <1>1, <1>2 DEF IInv, EffectsConsented
<1>5. QED  BY <1>3, <1>4

\* Nothing about rules changed, and what is newly asked may be asked.
LEMMA SoundStays ==
  ASSUME IInv, ~misread, UNCHANGED <<saved, policies, rules0, consents, forever, intact>>,
         calls' \in [AppCalls \cup WorkerCalls -> CallRecords],
         \A d \in DOMAIN calls' : Asking(d)' =>
           \/ Asking(d) /\ calls'[d] = calls[d]
           \/ Askable(rules0, calls'[d].tool, calls'[d].target)
  PROVE  RulesSound'
<1>1. DOMAIN calls' = DOMAIN calls
  BY DEF IInv, TypeOK
<1>2. SavedRules' = SavedRules
  BY DEF SavedRules
<1>3. \A d \in DOMAIN calls' : Asking(d)' => Askable(rules0', calls'[d].tool, calls'[d].target)
  BY <1>1 DEF IInv, RulesSound
<1>4. QED  BY <1>2, <1>3 DEF IInv, RulesSound

LEMMA StartKeeps ==
  ASSUME IInv, NEW c \in DOMAIN calls, CallStarts(c), TypeOK'
  PROVE  IInv'
<1>1. /\ UNCHANGED <<saved, policies, rules0, consents, forever, intact, misread>>
      /\ policies[Owner(c)] # Nothing
  BY DEF CallStarts
<1>2. PICK call \in CallRecords : policies[Owner(c)] \in Policies /\ GoesOn(c, call)
  BY StartsAs DEF IInv
<1>3. CASE Ends(c) /\ UNCHANGED <<disk, effects>>
  <2>1. ~misread => RulesSound'
    BY <1>1, <1>3, EndsLeaves, SoundStays DEF IInv
  <2>2. QED  BY <1>1, <1>3, <2>1, EffectsStay DEF IInv
<1>4. CASE /\ Decision(policies[Owner(c)], call.tool, call.target, call.found) = "ask"
           /\ calls' = [calls EXCEPT ![c] = call] /\ UNCHANGED <<disk, effects>>
  <2>1. ASSUME ~misread PROVE RulesSound'
    <3>1. Askable(rules0, call.tool, call.target)
      BY <1>1, <1>2, <1>4, <2>1, CallPermitted
    <3>2. calls' \in [AppCalls \cup WorkerCalls -> CallRecords]
      BY DEF TypeOK
    <3>3. \A d \in DOMAIN calls' : Asking(d)' =>
            \/ Asking(d) /\ calls'[d] = calls[d]
            \/ Askable(rules0, calls'[d].tool, calls'[d].target)
      BY <1>4, <3>1 DEF IInv, TypeOK, Asking
    <3>4. QED  BY <1>1, <2>1, <3>2, <3>3, SoundStays
  <2>2. QED  BY <1>1, <1>4, <2>1, EffectsStay DEF IInv
<1>5. CASE /\ Decision(policies[Owner(c)], call.tool, call.target, call.found) = "allow"
           /\ TakesEffect(c, call, FALSE)
  <2>1. ~misread => RulesSound'
    BY <1>1, <1>5, EndsLeaves, SoundStays DEF IInv, TakesEffect
  <2>2. ~misread =>
          /\ Askable(rules0, call.tool, call.target)
          /\ \/ <<call.tool, call.target>> \in consents
             \/ Decision([mode |-> policies[Owner(c)].mode, rules |-> rules0, session |-> {}],
                         call.tool, call.target, call.found) = "allow"
    BY <1>1, <1>2, <1>5, CallPermitted
  <2>3. (DenyHolds /\ EffectsConsented)'
    BY <1>1, <1>5, <2>2, EffectAdded
  <2>4. QED  BY <1>1, <2>1, <2>3 DEF IInv
<1>6. QED  BY <1>2, <1>3, <1>4, <1>5 DEF GoesOn

\* The user's consent, given with or without an effect: the rules stay sound
\* when the new key, which may be asked, joins a list and the consents.
LEMMA ConsentKeeps ==
  ASSUME IInv, ~misread, NEW c \in DOMAIN calls, Asking(c), Ends(c), rules0' = rules0,
         consents' = consents \cup {Key(c)},
         \/ /\ policies' = [policies EXCEPT !.app.session = @ \cup {Key(c)}]
            /\ UNCHANGED <<saved, forever, intact>>
         \/ /\ policies' = [policies EXCEPT !.app.rules = NewRules(c)]
            /\ \/ UNCHANGED <<saved, forever, intact>>
               \/ ~intact' /\ UNCHANGED forever
               \/ /\ intact' => SavedRules' = NewRules(c)
                  /\ forever' = forever \cup {Key(c)}
  PROVE  RulesSound'
<1>1. Key(c) \in Tools \X Targets /\ Key(c)[1] = calls[c].tool /\ Key(c)[2] = calls[c].target
  BY DEF IInv, TypeOK, AskedSensibly, Key
<1>2. Askable(rules0, Key(c)[1], Key(c)[2])
  BY <1>1 DEF IInv, RulesSound
<1>3. /\ \A d \in DOMAIN calls' : Asking(d)' => Askable(rules0, calls'[d].tool, calls'[d].target)
      /\ \A key \in consents' : Askable(rules0, key[1], key[2])
  BY <1>2, EndsLeaves DEF IInv, TypeOK, RulesSound
<1>4. /\ policies.app.rules \in Seq(Rule) /\ rules0 \in Seq(Rule)
      /\ policies \in [app : Policies, worker : Policies \cup {Nothing}]
  BY DEF IInv, TypeOK, Policies
<1>5. /\ NewRules(c) \in Seq(Rule) /\ Grown(NewRules(c), rules0, consents')
      /\ Has(NewRules(c), Key(c))
      /\ \A key : Has(policies.app.rules, key) => Has(NewRules(c), key)
  BY <1>1, <1>4, RuleAdded DEF NewRules, IInv, RulesSound
<1>6. /\ Grown(policies.app.rules, rules0, consents')
      /\ intact => Grown(SavedRules, rules0, consents')
      /\ policies.worker # Nothing =>
           Grown(policies.worker.rules, rules0, consents') /\ policies.worker.session = {}
  BY StillGrown DEF IInv, RulesSound
<1>7. policies'.worker = policies.worker
  BY <1>4
<1>8. CASE /\ policies' = [policies EXCEPT !.app.session = @ \cup {Key(c)}]
           /\ UNCHANGED <<saved, forever, intact>>
  <2>1. policies'.app.rules = policies.app.rules
    BY <1>4, <1>8 DEF Policies
  <2>2. policies'.app.session = policies.app.session \cup {Key(c)}
    BY <1>4, <1>8 DEF Policies
  <2>3. SavedRules' = SavedRules
    BY <1>8 DEF SavedRules
  <2>4. QED  BY <1>3, <1>6, <1>7, <1>8, <2>1, <2>2, <2>3 DEF IInv, RulesSound
<1>9. CASE policies' = [policies EXCEPT !.app.rules = NewRules(c)]
  <2>1. policies'.app.rules = NewRules(c) /\ policies'.app.session = policies.app.session
    BY <1>4, <1>9 DEF Policies
  <2>2. CASE UNCHANGED <<saved, forever, intact>>
    <3>1. SavedRules' = SavedRules
      BY <2>2 DEF SavedRules
    <3>2. QED  BY <1>3, <1>5, <1>6, <1>7, <2>1, <2>2, <3>1 DEF IInv, RulesSound
  <2>3. CASE ~intact' /\ UNCHANGED forever
    BY <1>3, <1>5, <1>6, <1>7, <2>1, <2>3 DEF IInv, RulesSound
  <2>4. CASE (intact' => SavedRules' = NewRules(c)) /\ forever' = forever \cup {Key(c)}
    BY <1>3, <1>5, <1>6, <1>7, <2>1, <2>4 DEF IInv, RulesSound
  <2>5. QED  BY <1>9, <2>2, <2>3, <2>4, <1>4 DEF Policies
<1>10. QED  BY <1>8, <1>9

\* The user's answers.
LEMMA AnswerKeeps ==
  ASSUME IInv, NEW c \in DOMAIN calls, TypeOK',
         Refused(c) \/ ApprovedOnce(c) \/ ApprovedForSession(c) \/ ApprovedForEver(c)
           \/ SaveFails(c)
  PROVE  IInv'
<1>1. Asking(c) /\ rules0' = rules0 /\ consents \subseteq consents' /\ misread' = misread
  BY DEF Refused, ApprovedOnce, ApprovedForSession, ApprovedForEver, SaveFails, ghosts, IInv, TypeOK
<1>2. Ends(c)
  BY <1>1, AnsweredType
     DEF Refused, ApprovedOnce, ApprovedForSession, ApprovedForEver, SaveFails, IInv
<1>3. ASSUME ~misread' PROVE RulesSound'
  <2>1. ~misread
    BY <1>1, <1>3
  <2>2. CASE Refused(c) \/ ApprovedOnce(c)
    <3>1. UNCHANGED <<saved, policies, rules0, consents, forever, intact>>
      BY <2>2 DEF Refused, ApprovedOnce, ghosts
    <3>2. QED  BY <1>2, <2>1, <3>1, EndsLeaves, SoundStays DEF IInv
  <2>3. CASE ApprovedForSession(c)
    <3>1. /\ consents' = consents \cup {Key(c)} /\ UNCHANGED <<saved, forever, intact>>
          /\ policies' = [policies EXCEPT !.app.session = @ \cup {Key(c)}]
      BY <2>3 DEF ApprovedForSession
    <3>2. QED  BY <1>1, <1>2, <2>1, <3>1, ConsentKeeps
  <2>4. CASE ApprovedForEver(c)
    <3>1. /\ consents' = consents \cup {Key(c)}
          /\ policies' = [policies EXCEPT !.app.rules = NewRules(c)]
      BY <2>4 DEF ApprovedForEver
    <3>2. \/ UNCHANGED <<saved, forever, intact>>
          \/ (intact' => SavedRules' = NewRules(c)) /\ forever' = forever \cup {Key(c)}
      BY <2>4 DEF ApprovedForEver, Written, SavedRules, LoadPolicy
    <3>3. QED  BY <1>1, <1>2, <2>1, <3>1, <3>2, ConsentKeeps
  <2>5. CASE SaveFails(c)
    <3>1. /\ consents' = consents \cup {Key(c)}
          /\ UNCHANGED <<saved, forever, intact>> \/ (~intact' /\ UNCHANGED forever)
          /\ policies' = [policies EXCEPT !.app.rules = NewRules(c)]
      BY <2>5 DEF SaveFails
    <3>2. QED  BY <1>1, <1>2, <2>1, <3>1, ConsentKeeps
  <2>6. QED  BY <2>2, <2>3, <2>4, <2>5
<1>4. (DenyHolds /\ EffectsConsented)'
  <2>1. CASE effects' = effects
    BY <1>1, <2>1, EffectsStay
  <2>2. CASE /\ TakesEffect(c, calls[c], TRUE)
             /\ ApprovedOnce(c) \/ ApprovedForSession(c) \/ ApprovedForEver(c)
    <3>1. ~misread => Askable(rules0, calls[c].tool, calls[c].target)
      BY <1>1 DEF IInv, RulesSound
    <3>2. QED  BY <1>1, <2>2, <3>1, EffectAdded
  <2>3. QED
    BY <2>1, <2>2
       DEF Refused, ApprovedOnce, ApprovedForSession, ApprovedForEver, SaveFails, AfterApproval, ghosts
<1>5. QED  BY <1>3, <1>4 DEF IInv

\* A new process reads what the old one wrote.
LEMMA RestartKeeps ==
  ASSUME IInv, Restart, TypeOK'
  PROVE  IInv'
<1>1. /\ UNCHANGED <<saved, rules0, effects, consents, forever, intact>>
      /\ misread' = (misread \/ ~intact)
      /\ policies' = [app |-> LoadPolicy(saved, AppMode), worker |-> Nothing]
      /\ \A d \in DOMAIN calls' : ~Asking(d)'
  BY DEF Restart, StartsAgainWith, Asking, Idle, IInv, TypeOK
<1>2. ASSUME ~misread' PROVE RulesSound'
  <2>1. SavedRules' = SavedRules /\ policies'.app.rules = SavedRules
    BY <1>1 DEF SavedRules
  <2>2. policies'.app.session = {}
    BY <1>1 DEF LoadPolicy
  <2>3. policies'.worker = Nothing
    BY <1>1
  <2>4. QED  BY <1>1, <1>2, <2>1, <2>2, <2>3 DEF IInv, RulesSound
<1>3. QED  BY <1>1, <1>2, EffectsStay DEF IInv

LEMMA WorkerKeeps ==
  ASSUME IInv, WorkerStarts, TypeOK'
  PROVE  IInv'
<1>1. /\ UNCHANGED <<saved, calls, rules0, effects, consents, forever, intact>>
      /\ misread' = (misread \/ ~intact)
  BY DEF WorkerStarts
<1>2. PICK mode \in RoleModes : policies' = [policies EXCEPT !.worker = LoadPolicy(saved, mode)]
  BY DEF WorkerStarts
<1>3. policies'.app = policies.app /\ policies'.worker = LoadPolicy(saved, mode)
  BY <1>2 DEF IInv, TypeOK
<1>4. LoadPolicy(saved, mode).rules = SavedRules /\ LoadPolicy(saved, mode).session = {}
  BY DEF SavedRules, LoadPolicy
<1>5. SavedRules' = SavedRules
  BY <1>1 DEF SavedRules
<1>6. \A d \in DOMAIN calls' : Asking(d)' => Asking(d)
  BY <1>1 DEF Asking
<1>7. ~misread' => RulesSound'
  BY <1>1, <1>3, <1>4, <1>5, <1>6 DEF IInv, RulesSound
<1>8. QED  BY <1>1, <1>7, EffectsStay DEF IInv

-----------------------------------------------------------------------------
LEMMA IInvInit == Init => IInv
<1> SUFFICES ASSUME Init PROVE IInv
  OBVIOUS
<1>1. TypeOK
  BY TypeInit
<1>2. policies.app.rules = rules0 /\ SavedRules = rules0 /\ policies.app.session = {}
      /\ policies.worker = Nothing
  BY DEF Init, SavedRules, LoadPolicy
<1>3. Grown(rules0, rules0, consents)
  BY <1>1, GrownByNothing DEF TypeOK
<1>4. \A c \in DOMAIN calls : ~Asking(c)
  BY DEF Init, Asking, Idle
<1>5. RulesSound
  BY <1>2, <1>3, <1>4 DEF Init, RulesSound
<1>6. QED  BY <1>1, <1>5 DEF Init, IInv, DenyHolds, EffectsConsented

LEMMA IInvNext == IInv /\ [Next]_vars => IInv'
<1> SUFFICES ASSUME IInv, [Next]_vars PROVE IInv'
  OBVIOUS
<1>1. TypeOK'
  BY TypeNext DEF IInv
<1>2. ASSUME NEW c \in DOMAIN calls, SaveTorn(c) PROVE IInv'
  <2>1. misread' = TRUE
    BY <1>2 DEF SaveTorn, StartsAgainWith
  <2>2. QED  BY <1>1, <2>1 DEF IInv, DenyHolds, EffectsConsented
<1>3. ASSUME NEW f \in Files, OutsideChanges(f) PROVE IInv'
  <2>1. UNCHANGED <<saved, policies, calls, rules0, effects, consents, forever,
                    intact, misread>>
    BY <1>3 DEF OutsideChanges, ghosts
  <2>2. \A d \in DOMAIN calls' : Asking(d)' => Asking(d)
    BY <2>1 DEF Asking
  <2>3. ~misread => RulesSound'
    BY <1>1, <2>1, <2>2, SoundStays DEF TypeOK
  <2>4. QED  BY <1>1, <2>1, <2>3, EffectsStay DEF IInv
<1>4. CASE UNCHANGED vars
  <2>1. UNCHANGED <<saved, policies, calls, rules0, effects, consents, forever,
                    intact, misread>>
    BY <1>4 DEF vars
  <2>2. \A d \in DOMAIN calls' : Asking(d)' => Asking(d)
    BY <2>1 DEF Asking
  <2>3. ~misread => RulesSound'
    BY <1>1, <2>1, <2>2, SoundStays DEF TypeOK
  <2>4. QED  BY <1>1, <2>1, <2>3, EffectsStay DEF IInv
<1>5. CASE RulesRewritten
  <2>1. /\ UNCHANGED <<policies, calls, rules0, effects, consents, forever, misread>>
        /\ ~intact'
    BY <1>5 DEF RulesRewritten
  <2>2. \A d \in DOMAIN calls' : Asking(d)' => Asking(d)
    BY <2>1 DEF Asking
  <2>3. ~misread => RulesSound'
    BY <2>1, <2>2 DEF IInv, RulesSound
  <2>4. QED  BY <1>1, <2>1, <2>3, EffectsStay DEF IInv
<1>6. QED
  BY <1>1, <1>2, <1>3, <1>4, <1>5, StartKeeps, AnswerKeeps, RestartKeeps, WorkerKeeps DEF Next

-----------------------------------------------------------------------------
(***************************************************************************)
(* Theorems                                                                *)
(***************************************************************************)
\* The strengthening holds in every reachable state.
THEOREM Inductive == Spec => []IInv
<1>1. QED  BY IInvInit, IInvNext, PTL DEF Spec

\* The policies, the files and the calls keep their types, and no call waits
\* for the user about something that no answer could allow.
THEOREM TypeCorrect == Spec => []TypeOK
<1>1. IInv => TypeOK
  BY DEF IInv
<1>2. QED  BY <1>1, Inductive, PTL

\* What a rule of the project denies, or a hard limit of SecurityPolicy, is
\* done by no tool, whatever was allowed since, until load_policy reads a file
\* that was cut off, made unreadable by a multi-line command, or rewritten.
THEOREM DeniedIsNotDone == Spec => []DenyHolds
<1>1. IInv => DenyHolds
  BY DEF IInv
<1>2. QED  BY <1>1, Inductive, PTL

\* Everything the tools did was allowed by the file, the mode or the user, with
\* the same exception.
THEOREM NothingWithoutConsent == Spec => []EffectsConsented
<1>1. IInv => EffectsConsented
  BY DEF IInv
<1>2. QED  BY <1>1, Inductive, PTL

\* A permission that was saved as permanent decides, in this process and in
\* later ones, unless a rule of the project asks first or the file that a later
\* one reads is no longer the one that was saved.
THEOREM PermanentIsPermanent == Spec => []PermanentLasts
<1>1. IInv => PermanentLasts
  <2> SUFFICES ASSUME IInv, ~misread, NEW key \in forever,
                      ~(Matching(rules0, key[1], key[2]) # {}
                          /\ FirstRule(rules0, key[1], key[2]) = "ask")
               PROVE  Decision(policies.app, key[1], key[2], TRUE) = "allow"
    BY DEF PermanentLasts
  <2>1. /\ Grown(policies.app.rules, rules0, consents) /\ Askable(rules0, key[1], key[2])
        /\ Matching(policies.app.rules, key[1], key[2]) # {}
    BY DEF IInv, RulesSound, Has
  <2>2. /\ policies.app.rules \in Seq(Rule) /\ rules0 \in Seq(Rule)
        /\ consents \in SUBSET (Tools \X Targets)
    BY DEF IInv, TypeOK, Policies
  <2>3. QED  BY <2>1, <2>2, AddedDecides
<1>2. QED  BY <1>1, Inductive, PTL

\* Only the call that ends in a step changes a file in it, and it has just
\* read the file again.
LEMMA EndsHavingRead ==
  ASSUME TypeOK, [Next]_vars, NEW c \in DOMAIN calls,
         Asking(c), calls[c].found, disk' # disk, ~Asking(c)'
  PROVE  disk[calls[c].target] = calls[c].expected
<1>1. ASSUME NEW d \in DOMAIN calls, Ends(d) PROVE d = c
  BY <1>1 DEF Ends, Asking, TypeOK
<1>2. ASSUME NEW d \in DOMAIN calls, CallStarts(d) PROVE FALSE
  <2>1. d # c
    BY <1>2 DEF CallStarts, Asking
  <2>2. PICK call \in CallRecords : GoesOn(d, call)
    BY <1>2, StartsAs
  <2>3. TakesEffect(d, call, FALSE)
    BY <2>2 DEF GoesOn
  <2>4. QED  BY <1>1, <2>1, <2>3 DEF TakesEffect
<1>3. ASSUME NEW d \in DOMAIN calls, Asking(d), AfterApproval(d)
      PROVE  disk[calls[c].target] = calls[c].expected
  <2>1. TakesEffect(d, calls[d], TRUE) /\ (calls[d].found => disk[calls[d].target] = calls[d].expected)
    BY <1>3 DEF AfterApproval
  <2>2. QED  BY <1>1, <2>1 DEF TakesEffect
<1>4. ASSUME NEW d \in DOMAIN calls,
             Refused(d) \/ SaveFails(d) \/ SaveTorn(d)
      PROVE  FALSE
  BY <1>4 DEF Refused, SaveFails, SaveTorn, StartsAgainWith
<1>5. ~Restart /\ ~WorkerStarts /\ ~RulesRewritten /\ ~UNCHANGED vars
  BY DEF Restart, StartsAgainWith, WorkerStarts, RulesRewritten, vars
<1>6. ASSUME NEW f \in Files, OutsideChanges(f) PROVE FALSE
  BY <1>6 DEF OutsideChanges, Asking
<1>7. QED
  BY <1>2, <1>3, <1>4, <1>5, <1>6
     DEF Next, ApprovedOnce, ApprovedForSession, ApprovedForEver

\* WriteFile and EditFile replace what the caller had read and nothing newer.
THEOREM OverwritesWhatWasRead == Spec => ReplacesWhatItRead
<1>1. TypeOK /\ [Next]_vars =>
        [\A c \in DOMAIN calls :
           Asking(c) /\ calls[c].found /\ disk' # disk /\ ~Asking(c)' =>
             disk[calls[c].target] = calls[c].expected]_vars
  BY EndsHavingRead
<1>2. QED  BY <1>1, TypeCorrect, PTL DEF Spec, ReplacesWhatItRead
=============================================================================
