----------------------------- MODULE FaultPlan -----------------------------
(***************************************************************************)
(* How an inject query is decided (detguest-host inject.rs) and how the    *)
(* decision travels (detguest-wire ports.rs): the table plan of the record *)
(* leg, the log plan of the replay leg, the glob they name points by, and  *)
(* the packing of a decision into the 32 bits of the IN answer.            *)
(***************************************************************************)
EXTENDS Integers, Sequences

CONSTANTS KindMod,     \* the kind field's width (256 in the code)
          FirstWorkload, \* the first workload-defined kind (64 in the code)
          ArgMod       \* the arg field's width (2^24 in the code)

ASSUME FaultAssumption ==
    /\ KindMod \in Nat /\ ArgMod \in Nat \ {0}
    /\ FirstWorkload \in 2 .. (KindMod - 1)

-----------------------------------------------------------------------------
Proceed == [class |-> "Proceed", kind |-> 0, arg |-> 0]

\* The decisions that keep the ranges the enum's comments give.
Decisions ==
    {Proceed}
      \cup [class : {"Platform"}, kind : 1 .. (FirstWorkload - 1), arg : 0 .. (ArgMod - 1)]
      \cup [class : {"Workload"}, kind : FirstWorkload .. (KindMod - 1), arg : 0 .. (ArgMod - 1)]

pack(d) == IF d.class = "Proceed" THEN 0 ELSE d.kind + (d.arg % ArgMod) * KindMod

unpack(v) ==
    LET kind == v % KindMod
        class == IF kind < FirstWorkload THEN "Platform" ELSE "Workload"
    IN  IF kind = 0 THEN Proceed ELSE [class |-> class, kind |-> kind, arg |-> v \div KindMod]

-----------------------------------------------------------------------------
\* glob_match: m[i, j] says that the pattern from its i-th letter on matches the
\* text from its j-th on; a star tries every rest of the text.
glob_match(p, t) ==
    LET m[i \in 1 .. (Len(p) + 1), j \in 1 .. (Len(t) + 1)] ==
          IF i > Len(p) THEN j > Len(t)
          ELSE IF p[i] = "*" THEN \E k \in j .. (Len(t) + 1) : m[i + 1, k]
          ELSE j <= Len(t) /\ t[j] = p[i] /\ m[i + 1, j + 1]
    IN  m[1, 1]

NoName == <<"?">>

\* A name the host could not resolve matches the pattern "*" alone.
Matches(rule, name) ==
    IF name = NoName THEN rule.name_glob = <<"*">> ELSE glob_match(rule.name_glob, name)

\* A rule's occurrence is a number, or Every when it matches each time.
Every == -1

NewTable(rules) == [hits |-> [i \in DOMAIN rules |-> 0], decisions |-> <<>>]

\* Mutant: only the rule that wins counts a hit.
TableCountsWins(rules, plan, iseq, name) ==
    LET Wins(i) == /\ Matches(rules[i], name)
                   /\ rules[i].occurrence \in {Every, plan.hits[i]}
        winners == {i \in DOMAIN rules : Wins(i)}
        last == IF winners = {} THEN Len(rules)
                ELSE CHOOSE i \in winners : \A j \in winners : i <= j
        out == IF winners = {} THEN Proceed ELSE rules[last].decision
    IN  [out |-> out,
         plan |-> [hits |-> [i \in DOMAIN rules |->
                               IF i = last /\ Matches(rules[i], name)
                               THEN plan.hits[i] + 1 ELSE plan.hits[i]],
                   decisions |-> Append(plan.decisions, [iseq |-> iseq, decision |-> out])]]

\* TableFaultPlan::decide: the rules are tried in order up to the first that
\* both matches the name and is at its occurrence; each rule tried whose name
\* matches counts a hit, those after the winner do not.
table_decide(rules, plan, iseq, name) ==
    LET Wins(i) == /\ Matches(rules[i], name)
                   /\ rules[i].occurrence \in {Every, plan.hits[i]}
        winners == {i \in DOMAIN rules : Wins(i)}
        last == IF winners = {} THEN Len(rules)
                ELSE CHOOSE i \in winners : \A j \in winners : i <= j
        out == IF winners = {} THEN Proceed ELSE rules[last].decision
    IN  [out |-> out,
         plan |-> [hits |-> [i \in DOMAIN rules |->
                               IF i <= last /\ Matches(rules[i], name)
                               THEN plan.hits[i] + 1 ELSE plan.hits[i]],
                   decisions |-> Append(plan.decisions, [iseq |-> iseq, decision |-> out])]]

NewLog(log) == [log |-> log, cursor |-> 0, divergences |-> <<>>]

remaining(plan) == Len(plan.log) - plan.cursor

\* Mutant: the name the query carries is not compared.
LogDecideTrusts(plan, iseq, name_id) ==
    LET at == plan.cursor + 1
        why == IF at > Len(plan.log) THEN "PastEnd"
               ELSE IF plan.log[at].iseq # iseq THEN "IseqMismatch"
               ELSE "none"
    IN  [out |-> IF why = "none" THEN plan.log[at].decision ELSE Proceed,
         plan |-> [plan EXCEPT !.cursor = IF why = "PastEnd" THEN @ ELSE at,
                               !.divergences = IF why = "none" THEN @ ELSE Append(@, why)]]

\* LogFaultPlan::decide: the entry at the cursor, verbatim; a divergence of any
\* kind is recorded, answers Proceed and uses its entry up all the same.
log_decide(plan, iseq, name_id) ==
    LET at == plan.cursor + 1
        why == IF at > Len(plan.log) THEN "PastEnd"
               ELSE IF plan.log[at].iseq # iseq THEN "IseqMismatch"
               ELSE IF plan.log[at].name_id # name_id THEN "NameIdMismatch"
               ELSE "none"
    IN  [out |-> IF why = "none" THEN plan.log[at].decision ELSE Proceed,
         plan |-> [plan EXCEPT !.cursor = IF why = "PastEnd" THEN @ ELSE at,
                               !.divergences = IF why = "none" THEN @ ELSE Append(@, why)]]
=============================================================================
