------------------------------ MODULE MCReplay ------------------------------
(***************************************************************************)
(* The instance of Replay for TLC, and the bounded inputs on which the     *)
(* fault plans are compared with their reference definitions.              *)
(***************************************************************************)
EXTENDS Replay, SequencesExt

VARIABLE probe   \* an input for the fault plans, or NoProbe and Replay runs

Letters == {"a", "b"}
UpTo(S, n) == UNION {[1 .. m -> S] : m \in 0 .. n}

Fail == [class |-> "Platform", kind |-> 1, arg |-> 2]
Custom == [class |-> "Workload", kind |-> 2, arg |-> 3]

MCPoint == <<"a", "b">>
MCRules == <<[name_glob |-> <<"a", "*">>, occurrence |-> 1, decision |-> Fail],
             [name_glob |-> <<"*">>, occurrence |-> Every, decision |-> Custom]>>

-----------------------------------------------------------------------------
Globs == UpTo(Letters \cup {"*"}, 3)
Texts == UpTo(Letters, 3)

\* A text matches when it can be cut into one piece per letter of the pattern:
\* the letter itself, or anything at all for a star.
Fits(p, t) ==
    \E cut \in [0 .. Len(p) -> 0 .. Len(t)] :
      /\ cut[0] = 0 /\ cut[Len(p)] = Len(t)
      /\ \A i \in 1 .. Len(p) :
           IF p[i] = "*" THEN cut[i] >= cut[i - 1]
           ELSE cut[i] = cut[i - 1] + 1 /\ t[cut[i]] = p[i]

\* Two points, "a" and "ab", and one whose name the host never learnt.
NameOf(id) == CASE id = 1 -> <<"a">> [] id = 2 -> <<"a", "b">> [] id = 3 -> NoName

RuleSets ==
    {<<[name_glob |-> g, occurrence |-> o, decision |-> Fail],
       [name_glob |-> h, occurrence |-> n, decision |-> Custom]>> :
         g \in {<<"a">>, <<"a", "*">>}, h \in {<<"*">>, <<"*", "b">>},
         o \in {Every, 0, 1}, n \in {Every, 0, 1}}

Queries == [iseq : 1 .. 2, name_id : 1 .. 3]

\* The packed answers a leg gives to a sequence of queries, and the plan it
\* leaves behind.
RecordLeg(rules, qs) ==
    FoldLeft(LAMBDA acc, q :
               LET r == table_decide(rules, acc.plan, q.iseq, NameOf(q.name_id))
               IN  [answers |-> Append(acc.answers, pack(r.out)), plan |-> r.plan],
             [answers |-> <<>>, plan |-> NewTable(rules)], qs)

ReplayLeg(log, qs) ==
    FoldLeft(LAMBDA acc, q :
               LET r == log_decide(acc.plan, q.iseq, q.name_id)
               IN  [answers |-> Append(acc.answers, pack(r.out)), plan |-> r.plan],
             [answers |-> <<>>, plan |-> NewLog(log)], qs)

\* The rules that precede the one that won the l-th query, and itself.
Tried(rules, decisions, l) ==
    {i \in DOMAIN rules :
       \A j \in 1 .. (i - 1) : decisions[l].decision # rules[j].decision}

\* The log a record leg leaves.
LogOf(rules, qs) ==
    LET decisions == RecordLeg(rules, qs).plan.decisions
    IN  [i \in DOMAIN qs |-> [iseq |-> qs[i].iseq, name_id |-> qs[i].name_id,
                              decision |-> decisions[i].decision]]

NoProbe == [of |-> "none"]
Probes ==
    {NoProbe}
      \cup [of : {"glob"}, glob : Globs, text : Texts]
      \cup [of : {"pack"}, decision : Decisions]
      \cup [of : {"rules"}, rules : RuleSets, qs : UpTo(Queries, 3)]
      \cup [of : {"log"}, qs : UpTo(Queries, 2), asked : UpTo(Queries, 2)]

MCInit == RInit /\ probe \in Probes
MCNext == probe = NoProbe /\ RNext /\ UNCHANGED probe
MCSpec == MCInit /\ [][MCNext]_<<rvars, probe>>

-----------------------------------------------------------------------------
\* TableFaultPlan and glob_match against what their comments say: the first rule
\* whose glob fits the name, at the occurrence it asks for, decides; a rule's
\* occurrences are the earlier queries that got as far as the rule and fitted.
DecisionsFollowRules ==
    /\ probe.of = "glob" => (glob_match(probe.glob, probe.text) <=> Fits(probe.glob, probe.text))
    /\ probe.of = "rules" =>
         LET rules == probe.rules
             qs == probe.qs
             decisions == RecordLeg(rules, qs).plan.decisions
             Fit(i, l) ==
               LET name == NameOf(qs[l].name_id)
               IN  IF name = NoName THEN rules[i].name_glob = <<"*">>
                   ELSE Fits(rules[i].name_glob, name)
             Occ(i, l) == Cardinality({k \in 1 .. (l - 1) :
                            Fit(i, k) /\ i \in Tried(rules, decisions, k)})
             Right(l) == {i \in DOMAIN rules :
                            Fit(i, l) /\ rules[i].occurrence \in {Every, Occ(i, l)}}
         IN  \A l \in DOMAIN qs :
               decisions[l].decision =
                 IF Right(l) = {} THEN Proceed
                 ELSE rules[CHOOSE i \in Right(l) : \A j \in Right(l) : i <= j].decision

\* LogFaultPlan over a record leg's decisions: a replay that asks the same
\* questions gets, unpacked, the decisions of the record leg, and no divergence;
\* any other replay shows one, or entries left over, and each question is
\* compared with the entry of its own place, whatever happened before it.
ReplayIsVerbatim ==
    /\ probe.of = "pack" => unpack(pack(probe.decision)) = probe.decision
    /\ probe.of = "log" =>
         LET log == LogOf(MCRules, probe.qs)
             leg == ReplayLeg(log, probe.asked)
             Same(i) == i <= Len(probe.qs) /\ probe.asked[i] = probe.qs[i]
         IN  /\ (leg.plan.divergences = <<>> /\ remaining(leg.plan) = 0)
                  <=> probe.asked = probe.qs
             /\ \A i \in DOMAIN probe.asked :
                  unpack(leg.answers[i]) = IF Same(i) THEN log[i].decision ELSE Proceed
=============================================================================
