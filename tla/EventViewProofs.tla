--------------------------- MODULE EventViewProofs ---------------------------
(***************************************************************************)
(* Until the workload is restarted, the host knows every name it meets,    *)
(* and knows of the workload what the SDK does.  The argument follows Told *)
(* of EventFlowProofs: a drain leaves it alone, and a record that is       *)
(* pushed is folded into it at once.                                       *)
(***************************************************************************)
EXTENDS EventFlowProofs

-----------------------------------------------------------------------------
(***************************************************************************)
(* The calls: what each will tell the host, and what it will record.       *)
(***************************************************************************)
\* Steps put together in threes.
LEMMA JoinThree ==
    ASSUME NEW S, NEW s \in Seq(S), NEW t \in Seq(S), NEW u \in Seq(S)
    PROVE  (s \o t) \o u = s \o (t \o u)
<1> DEFINE a == (s \o t) \o u
           b == s \o (t \o u)
<1>1. a \in Seq(S) /\ b \in Seq(S) /\ Len(a) = Len(b)
  OBVIOUS
<1>2. \A i \in 1 .. Len(a) : a[i] = b[i]
  OBVIOUS
<1> HIDE DEF a, b
<1>3. a = b
  BY ONLY SMTT(30), <1>1, <1>2
<1> QED
  BY <1>3 DEF a, b

\* A call under one name begins with the name's record when its number is new.
LEMMA NamedCall ==
    ASSUME TypedSdk, NEW n \in Names, NEW decl \in BOOLEAN, NEW t \in Seq(Steps),
           call'["W"] = intern_name(n, decl) \o t
    PROVE  /\ \A ev \in Owed' :
                \/ ev.kind = "NameIntern" /\ ev.name = n /\ ev.id = NameId(n)
                \/ ev \in OwedBy(t)
           /\ \A ev \in OwedBy(t) : ev \in Owed'
           /\ \A d : d \in Due' <=> d \in DueBy(t)
           /\ ids[n] = 0 => \A id : id = NameId(n) => Naming(id)'
<1>1. intern_name(n, decl) \in Seq(Steps)
  <2>1. intern_name(n, decl) \in Seq(PlainSteps) /\ PlainSteps \subseteq Steps
    BY InternSteps DEF Steps
  <2> QED
    BY <2>1
<1>2. PICK name : name = NameIntern(NameId(n), n, decl)
  OBVIOUS
<1>3. name.kind = "NameIntern" /\ name.name = n /\ name.id = NameId(n)
  BY Zenon, <1>2 DEF NameIntern
<1>4. intern_name(n, decl) = IF ids[n] = 0 THEN Emit(name) ELSE <<>>
  BY <1>2 DEF intern_name
<1>5. PICK s : s = intern_name(n, decl)
  OBVIOUS
<1>6. /\ \A ev : ev \in Owed' <=> ev \in OwedBy(s) \/ ev \in OwedBy(t)
      /\ \A d : d \in Due' <=> d \in DueBy(s) \/ d \in DueBy(t)
  BY ZenonT(30), <1>1, <1>5, OwedJoin DEF Owed, Due
<1>7. \A x : (x \in OwedBy(s) => x = name) /\ x \notin DueBy(s)
  BY ZenonT(30), <1>4, <1>5, OwedSingle
<1>8. ids[n] = 0 => \A id : id = NameId(n) => Naming(id)'
  <2> SUFFICES ASSUME ids[n] = 0, NEW id, id = NameId(n) PROVE Naming(id)'
    OBVIOUS
  <2>1. s = Emit(name) /\ s \in Seq(Steps)
    BY ZenonT(30), <1>1, <1>4, <1>5
  <2>2. s # <<>> /\ Head(s).do = "emit" /\ Head(s).ev = name
    BY <2>1 DEF Emit
  <2>3. \A q \in Seq(Steps) : q # <<>> => q \o t # <<>> /\ Head(q \o t) = Head(q)
    OBVIOUS
  <2>4. call'["W"] # <<>> /\ Head(call'["W"]) = Head(s)
    BY ZenonT(30), <1>5, <2>1, <2>2, <2>3
  <2> QED
    BY ZenonT(30), <1>3, <2>2, <2>4 DEF Naming, Does, Event
<1> QED
  BY <1>3, <1>6, <1>7, <1>8

\* A call that records does so right after the name's record.
LEMMA RecordsFirst ==
    ASSUME TypedSdk, NEW n \in Names, NEW decl \in BOOLEAN, NEW table, NEW id, NEW count,
           Stat(table, id, count) \in Seq(Steps), NEW u \in Seq(Steps), \A d : d \notin DueBy(u),
           call'["W"] = intern_name(n, decl) \o (Stat(table, id, count) \o u)
    PROVE  StatsBeforeReports'
<1>1. PICK s, t, v : s = intern_name(n, decl) /\ t = Stat(table, id, count) /\ v = t \o u
  BY ZenonT(30)
<1>2. s \in Seq(Steps) /\ Len(s) <= 1
      /\ \A i \in 1 .. Len(s) : s[i].do = "emit" /\ s[i].ev.kind = "NameIntern"
  <2>1. intern_name(n, decl) \in Seq(PlainSteps) /\ PlainSteps \subseteq Steps
    BY ZenonT(30), InternSteps DEF Steps
  <2>2. PICK name : name = NameIntern(NameId(n), n, decl)
    OBVIOUS
  <2>3. name.kind = "NameIntern" /\ (s = Emit(name) \/ s = <<>>)
    BY ZenonT(30), <1>1, <2>2 DEF NameIntern, intern_name
  <2>4. s \in Seq(Steps)
    BY SMTT(30), <1>1, <2>1
  <2>5. CASE s = <<>>
    <3>1. Len(s) = 0
      BY ZenonT(30), <2>5
    <3> QED
      BY <2>4, <3>1
  <2>6. CASE s = Emit(name)
    <3>1. Len(s) = 1 /\ s[1].do = "emit" /\ s[1].ev = name
      BY ZenonT(30), <2>6 DEF Emit
    <3>2. \A i \in 1 .. Len(s) : i = 1
      BY <3>1
    <3> QED
      BY SMTT(30), <2>3, <2>4, <3>1, <3>2
  <2> QED
    BY ZenonT(30), <2>3, <2>5, <2>6
<1>3. t \in Seq(Steps) /\ Len(t) = 1 /\ v \in Seq(Steps)
  <2>1. t \in Seq(Steps) /\ Len(t) = 1
    BY ZenonT(30), <1>1 DEF Stat
  <2> QED
    BY SMTT(30), <1>1, <2>1
<1>4. call'["W"] = s \o v
  BY ZenonT(30), <1>1
<1>5. \A i \in 2 .. Len(v) : v[i].do # "stat"
  <2> SUFFICES ASSUME NEW i \in 2 .. Len(v), v[i].do = "stat" PROVE FALSE
    OBVIOUS
  <2> DEFINE k == i - 1
  <2>0. Len(v) = Len(u) + 1 /\ Len(u) \in Nat /\ \A j \in 1 .. Len(u) : v[j + 1] = u[j]
    <3>1. \A a, b \in Seq(Steps) :
            Len(a \o b) = Len(b) + Len(a) /\ \A j \in 1 .. Len(b) : (a \o b)[j + Len(a)] = b[j]
      BY SMTT(30)
    <3>2. Len(v) = Len(u) + Len(t) /\ \A j \in 1 .. Len(u) : v[j + Len(t)] = u[j]
      BY ZenonT(30), <1>1, <1>3, <3>1
    <3> QED
      BY SMTT(30), <1>3, <3>2
  <2>1. k \in 1 .. Len(u) /\ k + 1 = i
    BY <2>0
  <2>2. v[i] = u[k]
    BY ZenonT(30), <2>0, <2>1
  <2> HIDE DEF k
  <2>3. u[k] \in DueBy(u)
    BY SMTT(30), <2>1, <2>2 DEF DueBy
  <2> QED
    BY ZenonT(30), <2>3
<1>6. ASSUME NEW j \in 1 .. Len(s \o v), (s \o v)[j].do = "stat", NEW i \in 1 .. (j - 1)
      PROVE  (s \o v)[i].do = "emit" /\ (s \o v)[i].ev.kind = "NameIntern"
  <2>1. j = Len(s) + 1
    <3>1. CASE j <= Len(s)
      <4>1. (s \o v)[j] = s[j] /\ j \in 1 .. Len(s)
        BY SMTT(30), <1>2, <1>3, <3>1
      <4> QED
        BY Zenon, <1>2, <1>6, <4>1
    <3>2. CASE j > Len(s) + 1
      <4> DEFINE k == j - Len(s)
      <4>1. k \in 2 .. Len(v) /\ (s \o v)[j] = v[k]
        BY SMTT(30), <1>2, <1>3, <3>2
      <4> HIDE DEF k
      <4> QED
        BY ZenonT(30), <1>5, <1>6, <4>1
    <3>3. Len(s) \in Nat /\ j \in Nat
      BY <1>2
    <3>4. j <= Len(s) \/ j > Len(s) + 1 \/ j = Len(s) + 1
      BY ONLY SMTT(30), <3>3
    <3> QED
      BY Zenon, <3>1, <3>2, <3>4
  <2>2. i \in 1 .. Len(s) /\ (s \o v)[i] = s[i]
    BY SMTT(30), <1>2, <1>3, <2>1
  <2> QED
    BY Zenon, <1>2, <2>2
<1>7. DOMAIN (s \o v) = 1 .. Len(s \o v)
  BY <1>2, <1>3
<1> QED
  BY ZenonT(30), <1>4, <1>6, <1>7 DEF StatsBeforeReports

\* A call under name n begins.
Begins(n) ==
    /\ call["W"] = <<>> /\ UNCHANGED <<ring, host, stats, lives>>
    /\ ids' = [ids EXCEPT ![n] = NameId(n)]
    /\ \A ev \in Owed' : ev.kind \in NameKinds => ev.name = n /\ ev.id = NameId(n)
    /\ ids[n] = 0 => \A id : id = NameId(n) => Naming(id)'
    /\ StatsBeforeReports'

\* assert_always reports a new count, while there are reports left.
Asserts(n, count) ==
    /\ Begins(n) /\ UNCHANGED <<hits, frame_index>>
    /\ count \in Nat /\ count >= fails[n] /\ fails' = [fails EXCEPT ![n] = count]
    /\ \A ev \in Owed' : ev.kind = "NameIntern" \/
         (ev.kind = "AssertViolation" /\ ev.count = count /\ count <= ASSERT_REPEAT_LIMIT + 1)
    /\ count = fails[n] \/ fails[n] > ASSERT_REPEAT_LIMIT \/ Owes("AssertViolation", n)'
    /\ \A d \in Due' : d.table = "assertions" /\ d.id = NameId(n) /\ d.count = count
    /\ \E d \in Due' : d.table = "assertions" /\ d.id = NameId(n)

\* What assert_always leaves to be told and recorded.
LEMMA CallAssert ==
    ASSUME FlowInv, NEW n \in Names, NEW cond \in BOOLEAN, assert_always(n, cond)
    PROVE  \E count : Asserts(n, count)
<1>0. PICK count : count = fails[n] + IF cond THEN 0 ELSE 1
  OBVIOUS
<1> DEFINE L == ASSERT_REPEAT_LIMIT + 1
           id == NameId(n)
           ev == AssertViolation(id, n, count)
           stat == Stat("assertions", id, count)
           u == IF cond \/ count > L THEN <<>> ELSE Emit(ev)
           t == stat \o u
<1>1. TypedSdk /\ Typed
  BY DEF FlowInv
<1>2. /\ Calls("W", (intern_name(n, FALSE) \o stat) \o u) /\ fails' = [fails EXCEPT ![n] = count]
      /\ ids' = [ids EXCEPT ![n] = id]
      /\ UNCHANGED <<outside, hits, seen, frame_index, next_iseq, offered>>
  BY ZenonT(30), <1>0 DEF assert_always, Interned
<1>3. count \in Nat /\ count >= fails[n] /\ (cond => count = fails[n])
      /\ (count > L => fails[n] > ASSERT_REPEAT_LIMIT) /\ L = ASSERT_REPEAT_LIMIT + 1
  BY <1>0, <1>1, EventFlowAssumption DEF TypedSdk
<1>4. id \in Ids
  BY ZenonT(30), <1>1, NameIdType
<1>5. ev \in Events /\ ev.kind = "AssertViolation" /\ ev.count = count /\ ev.name = n /\ ev.id = id
  BY <1>3, <1>4 DEF AssertViolation, Events
<1> HIDE DEF ev, L
<1>6. \A q \in Seq(PlainSteps) : q \in Seq(Steps)
  <2>1. PlainSteps \subseteq Steps
    BY Zenon DEF Steps
  <2> QED
    BY SMTT(30), <2>1
<1>7. u \in Seq(Steps) /\ \A d : d \notin DueBy(u)
  <2>1. <<>> \in Seq(Steps) /\ Emit(ev) \in Seq(Steps)
    BY SMTT(30), <1>5, <1>6, EmitSteps
  <2> QED
    BY ZenonT(30), <2>1, OwedSingle
<1>8. \A x : x \in OwedBy(u) <=> ~cond /\ count <= L /\ x = ev
  <2>1. L \in Nat
    BY SMTT(30), <1>3, EventFlowAssumption
  <2> QED
    BY SMTT(30), <1>3, <2>1, OwedSingle
<1>9. stat \in Seq(Steps) /\ intern_name(n, FALSE) \in Seq(Steps)
  BY ZenonT(30), <1>1, <1>3, <1>4, <1>6, StatSteps, InternSteps DEF Tables
<1> HIDE DEF u, id
<1>10. /\ \A x : x \notin OwedBy(stat)
       /\ \A d \in DueBy(stat) : d.table = "assertions" /\ d.id = id /\ d.count = count
       /\ \E d \in DueBy(stat) : d.table = "assertions" /\ d.id = id
  BY OwedStat
<1>11. call["W"] = <<>> /\ call'["W"] = intern_name(n, FALSE) \o t
  <2>1. call["W"] = <<>> /\ call'["W"] = (intern_name(n, FALSE) \o stat) \o u
    BY ZenonT(30), <1>1, <1>2 DEF Calls, Typed, Rings
  <2>2. \A a, b, c \in Seq(Steps) : (a \o b) \o c = a \o (b \o c)
    BY SMTT(30), JoinThree
  <2> HIDE DEF stat
  <2> QED
    BY ZenonT(30), <1>7, <1>9, <2>1, <2>2
<1>12. StatsBeforeReports'
  BY ZenonT(30), <1>1, <1>7, <1>9, <1>11, RecordsFirst
<1> HIDE DEF stat
<1>13. t \in Seq(Steps)
  BY Zenon, <1>7, <1>9, Joined
<1>14. /\ \A x : x \in OwedBy(t) <=> x \in OwedBy(u)
       /\ \A d : d \in DueBy(t) <=> d \in DueBy(stat)
  BY Zenon, <1>7, <1>9, <1>10, OwedJoin
<1> HIDE DEF t
<1>15. /\ \A x \in Owed' : \/ x.kind = "NameIntern" /\ x.name = n /\ x.id = id
                           \/ x \in OwedBy(t)
       /\ \A x \in OwedBy(t) : x \in Owed'
       /\ \A d : d \in Due' <=> d \in DueBy(t)
       /\ ids[n] = 0 => \A k : k = id => Naming(k)'
  BY ZenonT(30), <1>1, <1>11, <1>13, NamedCall DEF id
<1>16. \A x \in Owed' : x.kind = "NameIntern" \/ (x = ev /\ count <= L)
  BY ZenonT(30), <1>8, <1>14, <1>15
<1>17. Begins(n)
  <2>1. UNCHANGED <<ring, host, stats, lives>>
    BY SMTT(30), <1>2 DEF outside
  <2>2. \A x \in Owed' : x.name = n /\ x.id = id
    BY ZenonT(30), <1>5, <1>8, <1>14, <1>15
  <2> QED
    BY SMTT(30), <1>2, <1>11, <1>12, <1>15, <2>1, <2>2 DEF Begins, id
<1>18. count = fails[n] \/ fails[n] > ASSERT_REPEAT_LIMIT \/ Owes("AssertViolation", n)'
  <2>1. L \in Nat
    BY <1>3, EventFlowAssumption
  <2>2. ~cond /\ count <= L => Owes("AssertViolation", n)'
    BY ZenonT(30), <1>5, <1>8, <1>14, <1>15 DEF Owes
  <2> QED
    BY SMTT(30), <1>3, <2>1, <2>2
<1>19. /\ \A d \in Due' : d.table = "assertions" /\ d.id = NameId(n) /\ d.count = count
       /\ \E d \in Due' : d.table = "assertions" /\ d.id = NameId(n)
  BY ZenonT(30), <1>10, <1>14, <1>15 DEF id
<1>20. \A x \in Owed' : x.kind = "NameIntern" \/
         (x.kind = "AssertViolation" /\ x.count = count /\ count <= ASSERT_REPEAT_LIMIT + 1)
  BY ZenonT(30), <1>3, <1>5, <1>16
<1>21. Asserts(n, count)
  BY SMTT(30), <1>2, <1>3, <1>17, <1>18, <1>19, <1>20 DEF Asserts
<1> QED
  BY <1>21

\* expect_reachable reports a name's first hit.
Reaching(n) ==
    /\ Begins(n) /\ UNCHANGED <<fails, frame_index>> /\ hits' = [hits EXCEPT ![n] = 1]
    /\ \A ev \in Owed' : ev.kind \in {"NameIntern", "Reachable"}
    /\ hits[n] # 0 \/ Owes("Reachable", n)'
    /\ \A d \in Due' : d.table = "reachable" /\ d.id = NameId(n) /\ d.count = 1
    /\ \E d \in Due' : d.table = "reachable" /\ d.id = NameId(n)

\* What expect_reachable leaves to be told and recorded.
LEMMA CallReachable ==
    ASSUME FlowInv, NEW n \in Names, expect_reachable(n)
    PROVE  Reaching(n)
<1> DEFINE id == NameId(n)
           ev == Reachable(id, n)
           stat == Stat("reachable", id, 1)
           u == IF hits[n] = 0 THEN Emit(ev) ELSE <<>>
           t == stat \o u
<1>1. TypedSdk /\ Typed
  BY DEF FlowInv
<1>2. /\ Calls("W", (intern_name(n, FALSE) \o stat) \o u) /\ hits' = [hits EXCEPT ![n] = 1]
      /\ ids' = [ids EXCEPT ![n] = id]
      /\ UNCHANGED <<outside, fails, seen, frame_index, next_iseq, offered>>
  BY ZenonT(30) DEF expect_reachable, Interned
<1>4. id \in Ids
  BY ZenonT(30), <1>1, NameIdType
<1>5. ev \in Events /\ ev.kind = "Reachable" /\ ev.name = n /\ ev.id = id
  BY <1>4 DEF Reachable, Events
<1> HIDE DEF ev
<1>6. \A q \in Seq(PlainSteps) : q \in Seq(Steps)
  <2>1. PlainSteps \subseteq Steps
    BY Zenon DEF Steps
  <2> QED
    BY <2>1
<1>7. u \in Seq(Steps) /\ \A d : d \notin DueBy(u)
  <2>1. <<>> \in Seq(Steps) /\ Emit(ev) \in Seq(Steps)
    BY SMTT(30), <1>5, <1>6, EmitSteps
  <2> QED
    BY ZenonT(30), <2>1, OwedSingle
<1>8. \A x : x \in OwedBy(u) <=> hits[n] = 0 /\ x = ev
  BY OwedSingle
<1>9. stat \in Seq(Steps) /\ intern_name(n, FALSE) \in Seq(Steps)
  BY ZenonT(30), <1>1, <1>4, <1>6, StatSteps, InternSteps DEF Tables
<1> HIDE DEF u, id
<1>10. /\ \A x : x \notin OwedBy(stat)
       /\ \A d \in DueBy(stat) : d.table = "reachable" /\ d.id = id /\ d.count = 1
       /\ \E d \in DueBy(stat) : d.table = "reachable" /\ d.id = id
  BY OwedStat
<1>11. call["W"] = <<>> /\ call'["W"] = intern_name(n, FALSE) \o t
  <2>1. call["W"] = <<>> /\ call'["W"] = (intern_name(n, FALSE) \o stat) \o u
    BY ZenonT(30), <1>1, <1>2 DEF Calls, Typed, Rings
  <2>2. \A a, b, c \in Seq(Steps) : (a \o b) \o c = a \o (b \o c)
    BY SMTT(30), JoinThree
  <2> HIDE DEF stat
  <2> QED
    BY ZenonT(30), <1>7, <1>9, <2>1, <2>2
<1>12. StatsBeforeReports'
  BY ZenonT(30), <1>1, <1>7, <1>9, <1>11, RecordsFirst
<1> HIDE DEF stat
<1>13. t \in Seq(Steps)
  BY <1>7, <1>9, Joined
<1>14. /\ \A x : x \in OwedBy(t) <=> x \in OwedBy(u)
       /\ \A d : d \in DueBy(t) <=> d \in DueBy(stat)
  BY SMTT(30), <1>7, <1>9, <1>10, OwedJoin
<1> HIDE DEF t
<1>15. /\ \A x \in Owed' : \/ x.kind = "NameIntern" /\ x.name = n /\ x.id = id
                           \/ x \in OwedBy(t)
       /\ \A x \in OwedBy(t) : x \in Owed'
       /\ \A d : d \in Due' <=> d \in DueBy(t)
       /\ ids[n] = 0 => \A k : k = id => Naming(k)'
  BY ZenonT(30), <1>1, <1>11, <1>13, NamedCall DEF id
<1>16. \A x \in Owed' : x.kind \in {"NameIntern", "Reachable"}
  BY <1>5, <1>8, <1>14, <1>15
<1>17. Begins(n)
  <2>1. UNCHANGED <<ring, host, stats, lives>>
    BY ZenonT(30), <1>2 DEF outside
  <2>2. \A x \in Owed' : x.name = n /\ x.id = id
    BY ZenonT(30), <1>5, <1>8, <1>14, <1>15
  <2> QED
    BY ZenonT(30), <1>2, <1>11, <1>12, <1>15, <2>1, <2>2 DEF Begins, id
<1>18. hits[n] # 0 \/ Owes("Reachable", n)'
  BY ZenonT(30), <1>5, <1>8, <1>14, <1>15 DEF Owes
<1>19. /\ \A d \in Due' : d.table = "reachable" /\ d.id = NameId(n) /\ d.count = 1
       /\ \E d \in Due' : d.table = "reachable" /\ d.id = NameId(n)
  BY SMTT(30), <1>10, <1>14, <1>15 DEF id
<1> QED
  BY SMTT(30), <1>2, <1>16, <1>17, <1>18, <1>19 DEF Reaching

\* A call with nothing to record.
LEMMA NoRecords ==
    ASSUME \A d : d \notin Due'
    PROVE  StatsBeforeReports'
BY ZenonT(30) DEF Due, DueBy, StatsBeforeReports

\* declare_reachable and inject_point report nothing but the name and the query.
Mentions(n) ==
    /\ Begins(n) /\ UNCHANGED <<hits, fails, frame_index>>
    /\ \A ev \in Owed' : ev.kind \in {"NameIntern", "InjectQuery"}
    /\ \A d : d \notin Due'

\* What declare_reachable and inject_point leave to be told and recorded.
LEMMA CallMentions ==
    ASSUME FlowInv, NEW n \in Names, declare_reachable(n) \/ inject_point(n)
    PROVE  Mentions(n)
<1>0. PICK id, iseq : id = NameId(n) /\ iseq = next_iseq
  OBVIOUS
<1>1. TypedSdk /\ Typed /\ id \in Ids /\ iseq \in Nat
  BY ZenonT(30), <1>0, NameIdType DEF FlowInv, TypedSdk
<1> DEFINE ev == InjectQuery(iseq, id, n)
           q == Emit(ev)
           a == Doorbell
           b == Out(iseq)
           c == In(iseq, id)
           t == ((q \o a) \o b) \o c
<1>2. ev \in Events /\ ev.kind = "InjectQuery" /\ ev.name = n /\ ev.id = id
  BY <1>1 DEF InjectQuery, Events
<1> HIDE DEF ev
<1>3. \A s \in Seq(PlainSteps) : s \in Seq(Steps)
  <2>1. PlainSteps \subseteq Steps
    BY DEF Steps
  <2> QED
    BY <2>1
<1>4. q \in Seq(Steps) /\ <<>> \in Seq(Steps)
  BY ONLY SMTT(30), <1>2, <1>3, EmitSteps
<1>5. a \in Seq(Steps) /\ b \in Seq(Steps) /\ c \in Seq(Steps)
  <2>1. /\ [do |-> "doorbell"] \in Steps /\ [do |-> "out", iseq |-> iseq] \in Steps
        /\ [do |-> "in", iseq |-> iseq, id |-> id] \in Steps
    BY ZenonT(30), <1>1 DEF Steps
  <2> QED
    BY SMTT(30), <2>1 DEF Doorbell, Out, In
<1>6. /\ \A x : (x \in OwedBy(q) <=> x = ev) /\ x \notin DueBy(q)
      /\ \A x : x \notin OwedBy(a) /\ x \notin DueBy(a)
      /\ \A x : x \notin OwedBy(b) /\ x \notin DueBy(b)
      /\ \A x : x \notin OwedBy(c) /\ x \notin DueBy(c)
  BY ZenonT(30), OwedSingle, OwedOthers
<1> HIDE DEF q, a, b, c
<1>7. t \in Seq(Steps) /\ \A x : (x \in OwedBy(t) <=> x = ev) /\ x \notin DueBy(t)
  <2>0. \A x, y \in Seq(Steps) : x \o y \in Seq(Steps)
    BY Zenon, Joined
  <2>1. PICK qa : qa = q \o a /\ qa \in Seq(Steps)
    BY ZenonT(30), <1>4, <1>5, <2>0
  <2>2. qa \in Seq(Steps) /\ \A x : (x \in OwedBy(qa) <=> x = ev) /\ x \notin DueBy(qa)
    <3>1. \A x : (x \in OwedBy(q \o a) <=> x = ev) /\ x \notin DueBy(q \o a)
      BY SMTT(30), <1>4, <1>5, <1>6, OwedJoin
    <3> QED
      BY ZenonT(30), <2>1, <3>1
  <2>3. PICK qb : qb = qa \o b /\ qb \in Seq(Steps)
    BY ZenonT(30), <1>5, <2>0, <2>1
  <2>4. qb \in Seq(Steps) /\ \A x : (x \in OwedBy(qb) <=> x = ev) /\ x \notin DueBy(qb)
    <3>1. \A x : (x \in OwedBy(qa \o b) <=> x = ev) /\ x \notin DueBy(qa \o b)
      BY SMTT(30), <1>5, <1>6, <2>2, OwedJoin
    <3> QED
      BY Zenon, <2>3, <3>1
  <2>5. t = qb \o c
    BY Zenon, <2>1, <2>3
  <2>6. qb \o c \in Seq(Steps)
    BY Zenon, <1>5, <2>0, <2>3
  <2> HIDE DEF t
  <2> QED
    BY SMTT(30), <1>5, <1>6, <2>4, <2>5, <2>6, OwedJoin
<1>8. \E s \in Seq(Steps), decl \in BOOLEAN :
        /\ \A x : (x \in OwedBy(s) => x = ev) /\ x \notin DueBy(s)
        /\ call["W"] = <<>> /\ call'["W"] = intern_name(n, decl) \o s
  <2>1. CASE declare_reachable(n)
    <3>1. call["W"] = <<>> /\ call'["W"] = intern_name(n, TRUE)
      BY ZenonT(30), <1>1, <2>1 DEF declare_reachable, Calls, Typed, Rings
    <3>2. \A s \in Seq(Steps) : s \o <<>> = s
      OBVIOUS
    <3>3. intern_name(n, TRUE) \in Seq(Steps)
      BY ZenonT(30), <1>1, <1>3, InternSteps
    <3>4. call'["W"] = intern_name(n, TRUE) \o <<>>
      BY <3>1, <3>2, <3>3
    <3> QED
      BY ZenonT(30), <1>4, <3>1, <3>4, OwedSingle
  <2>2. CASE inject_point(n)
    <3>1. PICK m : m = intern_name(n, FALSE)
      BY ZenonT(30)
    <3>2. call["W"] = <<>> /\ call'["W"] = (((m \o q) \o a) \o b) \o c
      BY ZenonT(30), <1>0, <1>1, <2>2, <3>1 DEF inject_point, Calls, Typed, Rings, ev, q, a, b, c
    <3>3. m \in Seq(Steps)
      BY ZenonT(30), <1>1, <1>3, <3>1, InternSteps
    <3>4. \A x, y, z \in Seq(Steps) : (x \o y) \o z = x \o (y \o z) /\ x \o y \in Seq(Steps)
      BY ONLY SMTT(30), JoinThree, Joined
    <3>5. PICK qa : qa = q \o a
      BY ZenonT(30)
    <3>6. (m \o q) \o a = m \o qa /\ qa \in Seq(Steps)
      BY ZenonT(30), <1>4, <1>5, <3>3, <3>4, <3>5
    <3>7. PICK qb : qb = qa \o b
      BY ZenonT(30)
    <3>8. (m \o qa) \o b = m \o qb /\ qb \in Seq(Steps)
      BY SMTT(30), <1>5, <3>3, <3>4, <3>6, <3>7
    <3>9. (m \o qb) \o c = m \o t
      <4>1. (m \o qb) \o c = m \o (qb \o c)
        BY SMTT(30), <1>5, <3>3, <3>4, <3>8
      <4>2. t = qb \o c
        BY ONLY SMTT(30), <3>5, <3>7
      <4> QED
        BY Zenon, <4>1, <4>2
    <3>10. call'["W"] = m \o t
      BY ZenonT(30), <3>2, <3>6, <3>8, <3>9
    <3> HIDE DEF t
    <3> QED
      BY ZenonT(30), <1>7, <3>1, <3>2, <3>10
  <2> QED
    BY SMTT(30), <2>1, <2>2
<1>9. PICK s \in Seq(Steps), decl \in BOOLEAN :
        /\ \A x : (x \in OwedBy(s) => x = ev) /\ x \notin DueBy(s)
        /\ call["W"] = <<>> /\ call'["W"] = intern_name(n, decl) \o s
  BY ZenonT(30), <1>8
<1>10. /\ \A x \in Owed' : \/ x.kind = "NameIntern" /\ x.name = n /\ x.id = NameId(n)
                           \/ x \in OwedBy(s)
       /\ \A d : d \notin Due'
       /\ ids[n] = 0 => \A k : k = NameId(n) => Naming(k)'
  BY ZenonT(30), <1>1, <1>9, NamedCall
<1>11. \A x \in Owed' : x.kind \in {"NameIntern", "InjectQuery"} /\ x.name = n /\ x.id = NameId(n)
  BY ZenonT(30), <1>0, <1>2, <1>9, <1>10
<1>12. /\ ids' = [ids EXCEPT ![n] = NameId(n)] /\ UNCHANGED <<ring, host, stats, lives>>
       /\ UNCHANGED <<hits, fails, frame_index>>
  BY ZenonT(30) DEF declare_reachable, inject_point, Interned, outside
<1>13. StatsBeforeReports'
  BY <1>10, NoRecords
<1> QED
  BY ZenonT(30), <1>9, <1>10, <1>11, <1>12, <1>13 DEF Mentions, Begins

\* coverage_beacon, and log_line of the SDK.
Chats ==
    /\ call["W"] = <<>> /\ UNCHANGED <<ring, host, stats, lives, ids, hits, fails, frame_index>>
    /\ \A ev \in Owed' : ev.kind \in {"Beacon", "LogLine"}
    /\ \A d : d \notin Due'

\* What coverage_beacon and log_line leave to be told and recorded.
LEMMA CallChats ==
    ASSUME FlowInv, (\E id \in BeaconIds : coverage_beacon(id)) \/ log_line("W")
    PROVE  Chats
<1>1. Typed /\ DOMAIN call = Rings
  BY ZenonT(30) DEF FlowInv, Typed
<1>2. CASE log_line("W")
  <2>1. /\ call["W"] = <<>> /\ call'["W"] = Emit(LogLine)
        /\ UNCHANGED <<ring, host, stats, lives, ids, hits, fails, frame_index>>
    BY ZenonT(30), <1>1, <1>2 DEF log_line, Calls, Rings, sdk
  <2>2. LogLine.kind = "LogLine"
    BY Zenon DEF LogLine
  <2> QED
    BY ZenonT(30), <2>1, <2>2, OwedSingle DEF Chats, Owed, Due
<1>3. ASSUME NEW id \in BeaconIds, coverage_beacon(id) PROVE Chats
  <2>1. PICK slot : slot = id % BEACON_SLOTS
    BY Zenon
  <2>2. /\ call["W"] = <<>> /\ call'["W"] \in {<<>>, Emit(Beacon(slot))}
        /\ UNCHANGED <<ring, host, stats, lives, ids, hits, fails, frame_index>>
    BY ZenonT(30), <1>1, <1>3, <2>1 DEF coverage_beacon, Calls, Rings, outside
  <2>3. Beacon(slot).kind = "Beacon"
    BY Zenon DEF Beacon
  <2> QED
    BY ZenonT(30), <2>2, <2>3, OwedSingle DEF Chats, Owed, Due
<1> QED
  BY ZenonT(30), <1>2, <1>3

\* frame_mark
Marks ==
    /\ call["W"] = <<>> /\ UNCHANGED <<ring, host, stats, lives, ids, hits, fails>>
    /\ \A ev \in Owed' : ev.kind = "FrameMark" /\ ev.index = frame_index'
    /\ OwesFrame'
    /\ \A d : d \notin Due'

\* What frame_mark leaves to be told and recorded.
LEMMA CallMarks ==
    ASSUME FlowInv, frame_mark
    PROVE  Marks
<1>0. PICK i : i = frame_index + 1
  OBVIOUS
<1> DEFINE ev == FrameMark(i)
           s == Emit(ev)
           t == FrameReg(i)
<1>1. Typed /\ TypedSdk /\ i \in Nat
  BY SMTT(30), <1>0 DEF FlowInv, TypedSdk
<1>2. /\ call["W"] = <<>> /\ call'["W"] = s \o t /\ frame_index' = i
      /\ UNCHANGED <<ring, host, stats, lives, ids, hits, fails>>
  BY ZenonT(30), <1>0, <1>1 DEF frame_mark, Calls, Typed, Rings, outside
<1>3. ev \in Events /\ ev.kind = "FrameMark" /\ ev.index = i
  BY ZenonT(30), <1>1 DEF FrameMark, Events
<1> HIDE DEF ev
<1>4. s \in Seq(Steps) /\ t \in Seq(Steps)
  <2>1. s \in Seq(PlainSteps) /\ PlainSteps \subseteq Steps
    BY ZenonT(30), <1>3, EmitSteps DEF Steps
  <2>2. [do |-> "frame_reg", index |-> i] \in Steps
    BY ZenonT(30), <1>1 DEF Steps
  <2>3. t \in Seq(Steps)
    BY ONLY SMTT(30), <2>2 DEF FrameReg
  <2> HIDE DEF s, t
  <2> QED
    BY ONLY SMTT(30), <2>1, <2>3
<1>5. /\ \A x : (x \in OwedBy(s) <=> x = ev) /\ x \notin DueBy(s)
      /\ \A x : x \notin OwedBy(t) /\ x \notin DueBy(t)
  BY ONLY SMTT(30), OwedSingle, OwedOthers
<1> HIDE DEF s, t
<1>6. \A x : (x \in OwedBy(s \o t) <=> x = ev) /\ x \notin DueBy(s \o t)
  BY ONLY SMTT(30), <1>4, <1>5, OwedJoin
<1>7. \A x : (x \in Owed' <=> x = ev) /\ x \notin Due'
  BY Zenon, <1>2, <1>6 DEF Owed, Due
<1> QED
  BY SMTT(30), <1>2, <1>3, <1>7 DEF Marks, OwesFrame

-----------------------------------------------------------------------------
(***************************************************************************)
(* ViewInv at the start of a call.                                         *)
(***************************************************************************)
\* Between two calls the host will know all there is: a new call owes it the change.
LEMMA ViewCall ==
    ASSUME ViewInv, call["W"] = <<>>, UNCHANGED <<ring, host>>, OwedIsNews',
           OwesFrame' \/ frame_index' = frame_index,
           \A m \in Names :
             /\ \/ Owes("AssertViolation", m)'
                \/ Min({fails'[m], ASSERT_REPEAT_LIMIT + 1}) = Min({fails[m], ASSERT_REPEAT_LIMIT + 1})
             /\ Owes("Reachable", m)' \/ (hits'[m] > 0 <=> hits[m] > 0)
    PROVE  ViewInv'
<1>1. Told' = Told
  BY Zenon DEF Told, drain_ring
<1>2. \A x : x \notin Owed
  BY ZenonT(30), OwedSingle DEF Owed
<1>3. ~OwesFrame /\ \A k, m : ~Owes(k, m)
  BY SMTT(30), <1>2 DEF OwesFrame, Owes
<1>4. /\ Told.frame = frame_index
      /\ Told.violations \in [Names -> Nat] /\ Told.reached \subseteq Names
      /\ host.violations \in [Names -> Nat]
      /\ \A m \in Names : /\ Told.violations[m] = Min({fails[m], ASSERT_REPEAT_LIMIT + 1})
                          /\ m \in Told.reached <=> hits[m] > 0
  BY ZenonT(30), <1>3 DEF ViewInv
<1>5. OwesFrame' \/ Told'.frame = frame_index'
  BY SMTT(30), <1>1, <1>4
<1>6. (\A m \in Names :
         /\ \/ Owes("AssertViolation", m)
            \/ Told.violations[m] = Min({fails[m], ASSERT_REPEAT_LIMIT + 1})
         /\ Owes("Reachable", m) \/ (m \in Told.reached <=> hits[m] > 0))'
  BY ZenonT(30), <1>1, <1>4
<1> QED
  BY ZenonT(30), <1>1, <1>4, <1>5, <1>6 DEF ViewInv

\* assert_always
LEMMA ViewAssert ==
    ASSUME TypedSdk, ViewInv, NEW n \in Names, NEW count, Asserts(n, count)
    PROVE  ViewInv'
<1>1. /\ Begins(n) /\ UNCHANGED <<hits, frame_index>> /\ count \in Nat /\ count >= fails[n]
      /\ fails' = [fails EXCEPT ![n] = count]
      /\ count = fails[n] \/ fails[n] > ASSERT_REPEAT_LIMIT \/ Owes("AssertViolation", n)'
  BY Zenon DEF Asserts
<1>2. fails \in [Names -> Nat] /\ fails'[n] = count
  BY SMTT(30), <1>1 DEF TypedSdk
<1>3. OwedIsNews'
  BY ZenonT(30), <1>1, <1>2 DEF OwedIsNews, Asserts, Begins, NameKinds
<1>4. ASSUME NEW m \in Names
      PROVE  \/ Owes("AssertViolation", m)'
             \/ Min({fails'[m], ASSERT_REPEAT_LIMIT + 1}) = Min({fails[m], ASSERT_REPEAT_LIMIT + 1})
  <2>1. CASE m # n \/ count = fails[n]
    <3>1. fails'[m] = fails[m]
      BY SMTT(30), <1>1, <1>2, <2>1
    <3> QED
      BY ZenonT(30), <3>1
  <2>2. CASE m = n /\ fails[n] > ASSERT_REPEAT_LIMIT
    <3>1. PICK L : L = ASSERT_REPEAT_LIMIT + 1
      OBVIOUS
    <3>2. L \in Nat /\ fails[n] \in Nat /\ fails[n] >= L /\ count >= L
      BY SMTT(30), <1>1, <1>2, <2>2, <3>1, EventFlowAssumption
    <3>3. Min({fails[n], L}) = L /\ Min({count, L}) = L
      BY SMTT(30), <1>1, <3>2, MinTwo
    <3> QED
      BY SMTT(30), <1>2, <2>2, <3>1, <3>3
  <2> QED
    BY SMTT(30), <1>1, <2>1, <2>2
<1> QED
  BY ZenonT(30), <1>1, <1>3, <1>4, ViewCall DEF Begins

\* expect_reachable
LEMMA ViewReach ==
    ASSUME TypedSdk, ViewInv, NEW n \in Names, Reaching(n)
    PROVE  ViewInv'
<1>1. /\ Begins(n) /\ UNCHANGED <<fails, frame_index>> /\ hits' = [hits EXCEPT ![n] = 1]
      /\ hits[n] # 0 \/ Owes("Reachable", n)'
  BY Zenon DEF Reaching
<1>2. hits \in [Names -> Nat] /\ hits'[n] = 1
  BY ZenonT(30), <1>1 DEF TypedSdk
<1>3. OwedIsNews'
  BY <1>1, <1>2 DEF OwedIsNews, Reaching, Begins, NameKinds
<1>4. \A m \in Names : Owes("Reachable", m)' \/ (hits'[m] > 0 <=> hits[m] > 0)
  BY <1>1, <1>2
<1> QED
  BY Zenon, <1>1, <1>3, <1>4, ViewCall DEF Begins

\* declare_reachable, inject_point, coverage_beacon, log_line and frame_mark
LEMMA ViewOthers ==
    ASSUME ViewInv, (\E n \in Names : Mentions(n)) \/ Chats \/ Marks
    PROVE  ViewInv'
<1>1. /\ call["W"] = <<>> /\ UNCHANGED <<ring, host, fails, hits>>
      /\ OwesFrame' \/ frame_index' = frame_index
  BY ZenonT(30) DEF Mentions, Chats, Marks, Begins
<1>2. OwedIsNews'
  BY ZenonT(30) DEF OwedIsNews, Mentions, Chats, Marks
<1> QED
  BY Zenon, <1>1, <1>2, ViewCall

-----------------------------------------------------------------------------
(***************************************************************************)
(* StatsInv.                                                               *)
(***************************************************************************)
\* record_assert and record_reachable keep one entry for each name: that of the id
\* gets the count, or the id the first entry free, or nothing changes.
LEMMA RecordedFacts ==
    ASSUME NEW e \in Seq(Entries), Len(e) <= NAME_SLOTS, NEW id \in Ids, NEW count \in Nat,
           \A i, j \in DOMAIN e : e[i].id = e[j].id => i = j,
           NEW r, r = Recorded(e, id, count)
    PROVE  /\ r \in Seq(Entries) /\ Len(r) <= NAME_SLOTS
           /\ \A i, j \in DOMAIN r : r[i].id = r[j].id => i = j
           /\ \A i \in DOMAIN e : i \in DOMAIN r /\ r[i].id = e[i].id
           /\ \A i \in DOMAIN r : \/ r[i].id = id /\ r[i].count = count
                                  \/ r[i].id # id /\ i \in DOMAIN e /\ r[i] = e[i]
           /\ Len(r) = NAME_SLOTS \/ \E i \in DOMAIN r : r[i].id = id
           /\ Len(e) = NAME_SLOTS => Len(r) = NAME_SLOTS
<1> DEFINE at == {i \in DOMAIN e : e[i].id = id}
           n == Len(e)
<1>1. n \in Nat /\ DOMAIN e = 1 .. n /\ NAME_SLOTS \in Nat /\ \A i \in 1 .. n : e[i] \in Entries
  BY SMTT(30), EventFlowAssumption
<1>2. CASE at # {}
  <2>1. PICK k \in 1 .. n : e[k].id = id
    BY <1>1, <1>2
  <2>2. at = {k}
    BY SMTT(30), <1>1, <2>1
  <2>3. Min({k}) = k
    BY SMTT(30), <2>1, MinTwo
  <2>4. named_slot(e, id) = k
    BY ZenonT(30), <2>2, <2>3 DEF named_slot
  <2>5. ~(k > NAME_SLOTS) /\ ~(k > Len(e))
    BY <1>1, <2>1
  <2>6. r = [e EXCEPT ![k].count = count]
    BY <2>4, <2>5, Zenon DEF Recorded
  <2>7. PICK x : x = [e[k] EXCEPT !.count = count]
    BY ZenonT(30)
  <2>8. x \in Entries /\ x.id = id /\ x.count = count
    BY ONLY SMTT(30), <1>1, <2>1, <2>7 DEF Entries
  <2>9. r = [e EXCEPT ![k] = x]
    BY <2>6, <2>7, Zenon
  <2>10. r \in Seq(Entries) /\ Len(r) = n /\ DOMAIN r = 1 .. n
    BY ONLY SMTT(30), <1>1, <2>8, <2>9
  <2>11. \A i \in 1 .. n : r[i] = IF i = k THEN x ELSE e[i]
    BY Zenon, <1>1, <2>9
  <2> HIDE DEF n, at
  <2>12. \A i \in 1 .. n : r[i].id = e[i].id
    BY Zenon, <2>1, <2>8, <2>11
  <2>13. \A i, j \in 1 .. n : r[i].id = r[j].id => i = j
    BY ZenonT(30), <1>1, <2>12
  <2>14. \A i \in 1 .. n : \/ r[i].id = id /\ r[i].count = count
                           \/ r[i].id # id /\ r[i] = e[i]
    BY ZenonT(30), <1>1, <2>1, <2>8, <2>11
  <2> QED
    BY ZenonT(30), <1>1, <2>1, <2>10, <2>12, <2>13, <2>14 DEF n
<1>3. CASE at = {} /\ n = NAME_SLOTS
  <2>1. named_slot(e, id) = n + 1
    BY <1>3 DEF named_slot
  <2>2. r = e
    BY SMTT(30), <1>1, <1>3, <2>1 DEF Recorded
  <2>3. \A i \in DOMAIN e : e[i].id # id
    BY Zenon, <1>3
  <2> QED
    BY ZenonT(30), <1>1, <1>3, <2>2, <2>3
<1>4. CASE at = {} /\ n < NAME_SLOTS
  <2>1. named_slot(e, id) = n + 1
    BY <1>4 DEF named_slot
  <2>2. PICK x : x = [id |-> id, count |-> count]
    BY ZenonT(30)
  <2>3. r = Append(e, x)
    BY <1>1, <1>4, <2>1, <2>2 DEF Recorded
  <2>4. x \in Entries /\ x.id = id /\ x.count = count
    BY Zenon, <2>2 DEF Entries
  <2>5. /\ r \in Seq(Entries) /\ Len(r) = n + 1 /\ DOMAIN r = 1 .. n + 1
        /\ \A i \in 1 .. n : r[i] = e[i]
        /\ r[n + 1] = x
    BY ONLY SMTT(30), <1>1, <2>3, <2>4
  <2>6. \A i \in 1 .. n : e[i].id # id
    BY ZenonT(30), <1>1, <1>4
  <2> HIDE DEF n, at
  <2>7. \A i \in 1 .. n + 1 : i \in 1 .. n \/ i = n + 1
    BY ONLY SMTT(30), <1>1
  <2>8. \A i, j \in 1 .. n + 1 : r[i].id = r[j].id => i = j
    BY SMTT(30), <1>1, <2>4, <2>5, <2>6, <2>7
  <2>9. \A i \in 1 .. n + 1 : \/ r[i].id = id /\ r[i].count = count
                              \/ r[i].id # id /\ i \in 1 .. n /\ r[i] = e[i]
    BY Zenon, <2>4, <2>5, <2>6, <2>7
  <2>10. n + 1 \in 1 .. n + 1 /\ n + 1 <= NAME_SLOTS /\ \A i \in 1 .. n : i \in 1 .. n + 1
    BY ONLY SMTT(30), <1>1, <1>4
  <2>11. n # NAME_SLOTS /\ DOMAIN r = 1 .. n + 1 /\ DOMAIN e = 1 .. n
    BY ONLY SMTT(30), <1>1, <1>4, <2>5
  <2>12. \A i \in DOMAIN e : i \in DOMAIN r /\ r[i].id = e[i].id
    BY ZenonT(30), <2>5, <2>10, <2>11
  <2>13. \E i \in DOMAIN r : r[i].id = id
    BY SMTT(30), <2>4, <2>5, <2>10
  <2> QED
    BY ZenonT(30), <2>5, <2>8, <2>9, <2>10, <2>11, <2>12, <2>13 DEF n
<1>5. n <= NAME_SLOTS
  OBVIOUS
<1> HIDE DEF at, n
<1>6. n = NAME_SLOTS \/ n < NAME_SLOTS
  BY SMTT(30), <1>1, <1>5
<1> QED
  BY ZenonT(30), <1>2, <1>3, <1>4, <1>6

\* The call goes on by one step: its stats stay before its reports.
LEMMA RecordsTail ==
    ASSUME Typed, StatsBeforeReports, call["W"] # <<>>, call'["W"] = Tail(call["W"])
    PROVE  /\ StatsBeforeReports'
           /\ \A d : d \in Due <=> (Head(call["W"]).do = "stat" /\ d = Head(call["W"])) \/ d \in Due'
           /\ \/ Head(call["W"]).do = "emit" /\ Head(call["W"]).ev.kind = "NameIntern"
              \/ \A d : d \notin Due'
<1> DEFINE s == call["W"]
           t == call'["W"]
           n == Len(s)
           m == n - 1
<1>1. s \in Seq(Steps) /\ s # <<>>
  BY Zenon DEF Typed
<1>2. /\ n \in Nat /\ n # 0 /\ DOMAIN s = 1 .. n /\ DOMAIN t = 1 .. m /\ Head(s) = s[1]
      /\ \A i \in 1 .. m : t[i] = s[i + 1]
  BY SMTT(30), <1>1
<1>3. \A d : d \in Due <=> (Head(s).do = "stat" /\ d = Head(s)) \/ d \in Due'
  BY ZenonT(30), <1>1, OwedTail DEF Due
<1>4. \A j \in 1 .. n : s[j].do = "stat" =>
        \A i \in 1 .. (j - 1) : s[i].do = "emit" /\ s[i].ev.kind = "NameIntern"
  BY ZenonT(30), <1>2 DEF StatsBeforeReports
<1> HIDE DEF s, t, n
<1>5. ASSUME NEW j \in 1 .. m, t[j].do = "stat"
      PROVE  /\ s[1].do = "emit" /\ s[1].ev.kind = "NameIntern"
             /\ \A i \in 1 .. (j - 1) : t[i].do = "emit" /\ t[i].ev.kind = "NameIntern"
  <2>1. j + 1 \in 1 .. n /\ s[j + 1].do = "stat"
    BY ONLY SMTT(30), <1>2, <1>5
  <2>2. \A i \in 1 .. ((j + 1) - 1) : s[i].do = "emit" /\ s[i].ev.kind = "NameIntern"
    BY ZenonT(30), <1>4, <2>1
  <2>3. \A i \in 1 .. j : s[i].do = "emit" /\ s[i].ev.kind = "NameIntern"
    BY ONLY SMTT(30), <1>2, <2>2
  <2>4. \A i \in 1 .. (j - 1) : i + 1 \in 1 .. j /\ i \in 1 .. m
    BY ONLY SMTT(30), <1>2
  <2>5. 1 \in 1 .. j
    BY ONLY SMTT(30), <1>2
  <2> QED
    BY ONLY SMTT(30), <1>2, <2>3, <2>4, <2>5
<1>6. StatsBeforeReports'
  BY Zenon, <1>2, <1>5 DEF StatsBeforeReports, t
<1>7. (s[1].do = "emit" /\ s[1].ev.kind = "NameIntern") \/ \A d : d \notin Due'
  BY Zenon, <1>2, <1>5 DEF Due, DueBy, t
<1> QED
  BY ZenonT(30), <1>2, <1>3, <1>6, <1>7 DEF s

\* The host folds no more violations of a name than were reported.
LEMMA ToldAtMost ==
    ASSUME Typed, NamesResolve, host.violations \in [Names -> Nat],
           NEW n \in Names, NEW c \in Nat, AtMost(n, c)
    PROVE  Told.violations[n] <= c
<1> DEFINE evs == ring["W"]
           f == Folding(host, evs, "W")
           k == Len(evs)
           T == {i \in 0 .. k : /\ HasFields(f[i]) /\ f[i].violations \in [Names -> Nat]
                                /\ f[i].violations[n] <= c}
           M == {"AssertViolation", "Reachable", "InjectQuery"}
<1>1. evs \in Seq(Events) /\ k \in Nat /\ HasFields(host) /\ host.violations[n] <= c
      /\ \A i \in 1 .. k : evs[i] \in Events
  BY SMTT(30) DEF Typed, IsChannel, AtMost
<1>2. f[0] = host /\ \A i \in 0 .. k - 1 : f[i + 1] = FoldEvent(f[i], evs[i + 1], "W")
  <2>1. FoldsBy(f, host, evs, "W")
    BY Zenon, <1>1, FoldingSteps
  <2> QED
    BY Zenon, <1>1, <2>1 DEF FoldsBy
<1>3. \A i \in 1 .. k : evs[i].kind \in M => f[i - 1].interns[evs[i].id].name = evs[i].name
  BY ZenonT(30) DEF NamesResolve
<1>4. \A i \in 1 .. k : evs[i].kind = "AssertViolation" /\ evs[i].name = n => evs[i].count <= c
  BY SMTT(30), <1>1 DEF AtMost
<1>5. Told = f[k]
  BY ZenonT(30) DEF Told, drain_ring
<1> HIDE DEF f, k, evs
<1>6. 0 \in T
  BY SMTT(30), <1>1, <1>2
<1>7. ASSUME NEW i \in 0 .. k - 1, i \in T PROVE i + 1 \in T
  <2> DEFINE j == i + 1
  <2>1. j \in 1 .. k /\ j \in 0 .. k /\ j - 1 = i
    BY SMTT(30), <1>1
  <2>2. PICK g, h, ev : g = f[j] /\ h = f[i] /\ ev = evs[j]
    BY ZenonT(30)
  <2>3. g = FoldEvent(h, ev, "W") /\ HasFields(h) /\ ev \in Events
    BY ONLY SMTT(30), <1>1, <1>2, <1>7, <2>1, <2>2
  <2>4. /\ HasFields(g)
        /\ g.violations = IF ev.kind = "AssertViolation" THEN Violated(h, ev) ELSE h.violations
    <3>1. FoldsTo(h, ev, "W", g)
      BY Zenon, <2>3, FoldFields
    <3> QED
      BY Zenon, <3>1 DEF FoldsTo
  <2>5. ev.kind = "AssertViolation" => h.interns[ev.id].name = ev.name
    BY ZenonT(30), <1>3, <2>1, <2>2
  <2>6. ev.kind = "AssertViolation" /\ ev.name = n => ev.count <= c
    BY SMTT(30), <1>4, <2>1, <2>2
  <2>7. ev.kind = "AssertViolation" => ev.count \in Nat /\ ev.name \in Names
    BY ZenonT(30), <2>3 DEF Events, AgentEvents
  <2>8. ev.kind = "AssertViolation" => Violated(h, ev) = [h.violations EXCEPT ![ev.name] = ev.count]
    BY ZenonT(30), <2>5 DEF Violated, Resolve
  <2>9. h.violations \in [Names -> Nat] /\ h.violations[n] <= c
    BY ZenonT(30), <1>7, <2>2
  <2>10. g.violations \in [Names -> Nat] /\ g.violations[n] <= c
    BY ZenonT(30), <2>4, <2>6, <2>7, <2>8, <2>9
  <2> HIDE DEF j
  <2>11. j \in T
    BY ZenonT(30), <2>1, <2>2, <2>4, <2>10
  <2> QED
    BY ZenonT(30), <2>11 DEF j
<1> HIDE DEF T
<1>8. \A i \in 0 .. k : i \in T
  BY ZenonT(30), <1>1, <1>6, <1>7, UpTo
<1>9. k \in T
  BY SMTT(30), <1>1, <1>8
<1> QED
  BY ZenonT(30), <1>5, <1>9 DEF T

\* A drain leaves the bounds on the reports as they are.
LEMMA AtMostKept ==
    ASSUME Typed, NamesResolve, host.violations \in [Names -> Nat],
           NEW n \in Names, NEW c \in Nat, AtMost(n, c), Drained \/ Stayed
    PROVE  AtMost(n, c)'
<1>1. CASE Stayed
  BY Zenon, <1>1 DEF Stayed, AtMost
<1>2. CASE Drained
  <2>1. SameTables(Told', Told) /\ Told' = host'
    BY ZenonT(30), <1>2, ToldDrained DEF Drained
  <2>2. host'.violations[n] <= c
    BY ZenonT(30), <2>1, ToldAtMost DEF SameTables
  <2>3. DOMAIN ring'["W"] = {}
    BY ONLY SMTT(30), <1>2 DEF Drained, Rings
  <2> QED
    BY Zenon, <2>2, <2>3 DEF AtMost
<1> QED
  BY Zenon, <1>1, <1>2

\* The entries of the stats region.
LEMMA EntryTypes ==
    ASSUME StatsTyped, NEW t \in Tables, NEW k \in DOMAIN stats[t]
    PROVE  stats[t][k].id \in Ids /\ stats[t][k].count \in Nat
<1>1. stats[t] \in Seq(Entries)
  BY Zenon DEF StatsTyped
<1>2. stats[t][k] \in Entries
  BY SMTT(30), <1>1
<1> QED
  BY ZenonT(30), <1>2 DEF Entries

\* A step that changes neither the stats nor what the call has to record.
LEMMA StatsStep ==
    ASSUME Typed, TypedSdk, NamesResolve, host.violations \in [Names -> Nat], StatsInv,
           Quiet, Drained \/ Stayed, stats' = stats, StatsBeforeReports',
           \A d : d \in Due' <=> d \in Due
    PROVE  StatsInv'
<1>1. ids' = ids /\ hits' = hits /\ fails' = fails /\ Told'.interns = Told.interns
  BY Zenon DEF Quiet, SameTables
<1>2. StatsTyped' /\ StatsNamed'
  BY SMTT(30), <1>1 DEF StatsInv, StatsTyped, StatsNamed
<1>3. DueIsNews'
  BY Zenon, <1>1 DEF StatsInv, DueIsNews
<1>4. \A t, id : IsDue(t, id)' <=> IsDue(t, id)
  BY Zenon DEF IsDue
<1>5. AssertionsLead'
  <2> SUFFICES ASSUME NEW n \in Names
               PROVE  /\ AtMost(n, fails[n])'
                      /\ \A k \in DOMAIN stats["assertions"] :
                           stats["assertions"][k].id = ids[n] =>
                             /\ AtMost(n, stats["assertions"][k].count)'
                             /\ stats["assertions"][k].count <= fails[n]
                             /\ \/ IsDue("assertions", stats["assertions"][k].id)
                                \/ stats["assertions"][k].count = fails[n]
    BY ZenonT(30), <1>1, <1>4 DEF AssertionsLead
  <2>1. /\ AtMost(n, fails[n])
        /\ \A k \in DOMAIN stats["assertions"] :
             stats["assertions"][k].id = ids[n] =>
               /\ AtMost(n, stats["assertions"][k].count)
               /\ stats["assertions"][k].count <= fails[n]
               /\ \/ IsDue("assertions", stats["assertions"][k].id)
                  \/ stats["assertions"][k].count = fails[n]
    BY ZenonT(30) DEF StatsInv, AssertionsLead
  <2>2. \A k \in DOMAIN stats["assertions"] : stats["assertions"][k].count \in Nat
    BY ZenonT(30), EntryTypes DEF StatsInv, Tables
  <2>3. \A c \in Nat : AtMost(n, c) => AtMost(n, c)'
    BY ZenonT(30), AtMostKept
  <2>4. fails[n] \in Nat
    BY Zenon DEF TypedSdk
  <2>5. AtMost(n, fails[n])'
    <3>1. PICK c \in Nat : c = fails[n] /\ c = fails'[n]
      BY ZenonT(30), <1>1, <2>4
    <3>2. AtMost(n, c)'
      BY ZenonT(30), <2>1, <2>3, <3>1
    <3> QED
      BY ZenonT(30), <3>1, <3>2 DEF AtMost
  <2>6. ASSUME NEW k \in DOMAIN stats["assertions"], stats["assertions"][k].id = ids[n]
        PROVE  AtMost(n, stats["assertions"][k].count)'
    <3>1. PICK c \in Nat : c = stats["assertions"][k].count /\ c = stats'["assertions"][k].count
      BY ZenonT(30), <2>2
    <3>2. AtMost(n, c)'
      BY ZenonT(30), <2>1, <2>3, <2>6, <3>1
    <3> QED
      BY ZenonT(30), <3>1, <3>2 DEF AtMost
  <2> QED
    BY ZenonT(30), <2>1, <2>5, <2>6
<1>6. ReachedAreSlotted'
  BY ZenonT(30), <1>1, <1>4 DEF StatsInv, ReachedAreSlotted
<1> QED
  BY ZenonT(30), <1>2, <1>3, <1>5, <1>6 DEF StatsInv

\* The stat is recorded: its name is one the host will know, and no other is due.
LEMMA StatsWrite ==
    ASSUME Typed, TypedSdk, NamesInv, StatsInv, WriteStat
    PROVE  StatsInv'
<1>1. PICK s : s = Head(call["W"])
  BY ZenonT(30)
<1>2. /\ call["W"] # <<>> /\ s.do = "stat" /\ call'["W"] = Tail(call["W"])
      /\ stats' = [stats EXCEPT ![s.table] = Recorded(@, s.id, s.count)]
      /\ UNCHANGED <<ring, host, ids, hits, fails>>
  BY ZenonT(30), <1>1 DEF WriteStat, Does, Proceed, Typed, Rings, sdk
<1>3. s \in Steps
  BY SMTT(30), <1>1, <1>2 DEF Typed
<1>4. s.table \in Tables /\ s.id \in Ids /\ s.count \in Nat
  BY Zenon, <1>2, <1>3 DEF Steps, PlainSteps
<1>5. PICK e, r, t, id, c :
         /\ t = s.table /\ id = s.id /\ c = s.count
         /\ e = stats[t] /\ r = Recorded(e, id, c)
  OBVIOUS
<1>6. /\ StatsTyped /\ StatsNamed /\ StatsBeforeReports /\ DueIsNews
      /\ AssertionsLead /\ ReachedAreSlotted
  BY Zenon DEF StatsInv
<1>7. /\ stats' = [stats EXCEPT ![t] = r] /\ DOMAIN stats = Tables /\ t \in Tables
      /\ id \in Ids /\ c \in Nat
  BY ZenonT(30), <1>2, <1>4, <1>5, <1>6 DEF StatsTyped
<1>8. /\ DOMAIN stats' = Tables /\ stats'[t] = r /\ \A u \in Tables : u # t => stats'[u] = stats[u]
  BY ZenonT(30), <1>7
<1>9. /\ e \in Seq(Entries) /\ Len(e) <= NAME_SLOTS
      /\ \A i, j \in DOMAIN e : e[i].id = e[j].id => i = j
  BY ZenonT(30), <1>5, <1>6, <1>7 DEF StatsTyped
<1>10. /\ r \in Seq(Entries) /\ Len(r) <= NAME_SLOTS
       /\ \A i, j \in DOMAIN r : r[i].id = r[j].id => i = j
       /\ \A i \in DOMAIN e : i \in DOMAIN r /\ r[i].id = e[i].id
       /\ \A i \in DOMAIN r : \/ r[i].id = id /\ r[i].count = c
                              \/ r[i].id # id /\ i \in DOMAIN e /\ r[i] = e[i]
       /\ Len(r) = NAME_SLOTS \/ \E i \in DOMAIN r : r[i].id = id
       /\ Len(e) = NAME_SLOTS => Len(r) = NAME_SLOTS
  BY ONLY SMTT(30), <1>5, <1>7, <1>9, RecordedFacts
<1>11. StatsBeforeReports' /\ s \in Due /\ (\A d : d \notin Due') /\ (\A d : d \in Due <=> d = s)
  BY ZenonT(30), <1>1, <1>2, <1>6, RecordsTail
<1>12. PICK n \in Names : /\ ids[n] = id
                          /\ t = "assertions" => c = fails[n]
                          /\ t = "reachable" => hits[n] > 0
  BY ZenonT(30), <1>5, <1>6, <1>11 DEF DueIsNews
<1>13. Told' = Told /\ id \in DOMAIN Told.interns
  <2>1. Told' = Told
    BY ZenonT(30), <1>2 DEF Told, drain_ring
  <2>2. ~Naming(ids[n])
    BY ZenonT(30), <1>1, <1>2 DEF Naming, Does
  <2> QED
    BY ZenonT(30), <1>7, <1>12, <2>1, <2>2 DEF NamesInv, Ids
<1>14. StatsTyped'
  BY ONLY SMTT(30), <1>6, <1>8, <1>10 DEF StatsTyped
<1>15. StatsNamed'
  <2> SUFFICES ASSUME NEW u \in Tables, NEW i \in DOMAIN stats'[u]
               PROVE  /\ stats'[u][i].id \in DOMAIN Told.interns
                      /\ \E m \in Names : ids[m] = stats'[u][i].id
    BY ZenonT(30), <1>2, <1>13 DEF StatsNamed
  <2>1. CASE u # t \/ (u = t /\ i \in DOMAIN e /\ r[i] = e[i])
    BY <1>5, <1>6, <1>8, <2>1 DEF StatsNamed
  <2>2. CASE u = t /\ r[i].id = id
    BY Zenon, <1>8, <1>12, <1>13, <2>2
  <2> QED
    BY Zenon, <1>8, <1>10, <2>1, <2>2
<1>16. DueIsNews'
  BY Zenon, <1>11 DEF DueIsNews
<1>17. \A u, x : ~IsDue(u, x)' /\ (IsDue(u, x) => u = t /\ x = id)
  BY ZenonT(30), <1>5, <1>11 DEF IsDue
<1>18. NumbersApart /\ id # 0
  BY ZenonT(30), <1>7 DEF NamesInv, Ids
<1>19. AssertionsLead'
  <2>0. \A m, k : AtMost(m, k)' <=> AtMost(m, k)
    BY ZenonT(30), <1>2 DEF AtMost
  <2>1. PICK old, new : old = stats["assertions"] /\ new = stats'["assertions"]
    BY ZenonT(30)
  <2>2. ASSUME NEW m \in Names
        PROVE  /\ AtMost(m, fails[m])
               /\ \A k \in DOMAIN old : old[k].id = ids[m] =>
                    /\ AtMost(m, old[k].count) /\ old[k].count <= fails[m]
                    /\ IsDue("assertions", old[k].id) \/ old[k].count = fails[m]
    BY ZenonT(30), <1>6, <2>1 DEF AssertionsLead
  <2>3. ASSUME NEW m \in Names, NEW k \in DOMAIN new, new[k].id = ids[m]
        PROVE  /\ AtMost(m, new[k].count) /\ new[k].count <= fails[m]
               /\ new[k].count = fails[m]
    <3>1. CASE t # "assertions"
      BY <1>8, <1>17, <2>1, <2>2, <2>3, <3>1 DEF Tables
    <3>2. CASE t = "assertions" /\ r[k].id = id /\ r[k].count = c
      <4>1. new = r /\ m = n
        BY SMTT(30), <1>8, <1>12, <1>18, <2>1, <2>3, <3>2 DEF NumbersApart
      <4>2. new[k].count = fails[m] /\ fails[m] \in Nat
        BY ZenonT(30), <1>12, <3>2, <4>1 DEF TypedSdk
      <4> QED
        BY <2>2, <4>2
    <3>3. CASE t = "assertions" /\ r[k].id # id /\ k \in DOMAIN e /\ r[k] = e[k]
      <4>1. new = r /\ old = e /\ old[k].id = ids[m] /\ old[k].id # id /\ k \in DOMAIN old
        BY SMTT(30), <1>5, <1>8, <2>1, <2>3, <3>3
      <4> QED
        BY ZenonT(30), <1>17, <2>2, <3>3, <4>1
    <3> QED
      BY ZenonT(30), <1>8, <1>10, <2>1, <2>3, <3>1, <3>2, <3>3
  <2>4. /\ fails' = fails /\ ids' = ids
    BY ZenonT(30), <1>2
  <2>5. ASSUME NEW m \in Names
        PROVE  /\ AtMost(m, fails[m])'
               /\ \A k \in DOMAIN stats'["assertions"] : stats'["assertions"][k].id = ids'[m] =>
                    AtMost(m, stats["assertions"][k].count)'
    BY ZenonT(30), <2>0, <2>1, <2>2, <2>3, <2>4
  <2> QED
    BY ZenonT(30), <2>1, <2>3, <2>4, <2>5 DEF AssertionsLead
<1>20. ReachedAreSlotted'
  <2>1. PICK old, new : old = stats["reachable"] /\ new = stats'["reachable"]
    BY ZenonT(30)
  <2>2. /\ \A k \in DOMAIN old : \E m \in Names : ids[m] = old[k].id /\ hits[m] > 0
        /\ \A m \in Names : hits[m] > 0 /\ ~IsDue("reachable", ids[m]) =>
             Len(old) = NAME_SLOTS \/ \E k \in DOMAIN old : old[k].id = ids[m]
    BY ZenonT(30), <1>6, <2>1 DEF ReachedAreSlotted
  <2>3. CASE t # "reachable"
    <3>1. new = old
      BY Zenon, <1>8, <2>1, <2>3 DEF Tables
    <3> QED
      BY <1>2, <1>17, <2>1, <2>2, <2>3, <3>1 DEF ReachedAreSlotted
  <2>4. CASE t = "reachable"
    <3>1. new = r /\ old = e
      BY <1>5, <1>8, <2>1, <2>4
    <3>2. \A k \in DOMAIN new : \E m \in Names : ids[m] = new[k].id /\ hits[m] > 0
      BY <1>10, <1>12, <2>2, <2>4, <3>1
    <3>3. ASSUME NEW m \in Names, hits[m] > 0
          PROVE  Len(new) = NAME_SLOTS \/ \E k \in DOMAIN new : new[k].id = ids[m]
      <4>1. CASE IsDue("reachable", ids[m])
        <5>1. ids[m] = id
          BY ZenonT(30), <1>17, <4>1
        <5> QED
          BY ZenonT(30), <1>10, <3>1, <5>1
      <4>2. CASE ~IsDue("reachable", ids[m])
        BY SMTT(30), <1>10, <2>2, <3>1, <3>3, <4>2
      <4> QED
        BY ZenonT(30), <4>1, <4>2
    <3> QED
      BY <1>2, <2>1, <3>2, <3>3 DEF ReachedAreSlotted
  <2> QED
    BY ZenonT(30), <2>3, <2>4
<1> QED
  BY SMTT(30), <1>11, <1>14, <1>15, <1>16, <1>19, <1>20 DEF StatsInv

\* A record pushed to ring W: what it reports was recorded before.
LEMMA StatsPush ==
    ASSUME Typed, TypedSdk, NamesInv, ViewInv, StatsInv, EmitPush("W")
    PROVE  StatsInv'
<1>0. PICK ev : ev = Event("W")
  OBVIOUS
<1>1. /\ Does("W", "emit") /\ ring' = [ring EXCEPT !["W"] = Append(@, ev)]
      /\ call' = [call EXCEPT !["W"] = Tail(@)] /\ UNCHANGED <<ids, hits, fails, host, stats>>
  BY Zenon, <1>0 DEF EmitPush, Proceed, sdk
<1>2. /\ ring'["W"] = Append(ring["W"], ev) /\ call'["W"] = Tail(call["W"])
      /\ call["W"] # <<>> /\ Head(call["W"]).do = "emit" /\ Head(call["W"]).ev = ev
      /\ call["W"] \in Seq(Steps)
  BY ZenonT(30), <1>0, <1>1 DEF Typed, Does, Event, Rings
<1>3. ev \in Events
  BY ZenonT(30), <1>0, <1>1, EmitFacts DEF Rings
<1>4. \A id \in DOMAIN Told.interns : id \in DOMAIN Told'.interns
  <2>1. HasFields(Told) /\ Told' = FoldEvent(Told, ev, "W")
    BY ZenonT(30), <1>1, <1>2, <1>3, ToldFields, ToldPush
  <2>2. Told'.interns = IF ev.kind = "NameIntern" THEN FoldIntern(Told, ev).interns ELSE Told.interns
    <3>1. FoldsTo(Told, ev, "W", Told')
      BY Zenon, <1>3, <2>1, FoldFields
    <3> QED
      BY Zenon, <3>1 DEF FoldsTo
  <2>3. ev.kind = "NameIntern" => Told'.interns = Told1(Told.interns, ev)
    BY ZenonT(30), <2>1, <2>2, InternTable
  <2>4. \A id \in DOMAIN Told.interns : id \in DOMAIN Told1(Told.interns, ev)
    BY Zenon DEF Told1, Bind
  <2> QED
    BY ZenonT(30), <2>2, <2>3, <2>4
<1>5. /\ StatsTyped /\ StatsNamed /\ StatsBeforeReports /\ DueIsNews
      /\ AssertionsLead /\ ReachedAreSlotted
  BY ZenonT(30) DEF StatsInv
<1>6. StatsBeforeReports' /\ (\A d : d \in Due <=> d \in Due')
      /\ (ev.kind = "NameIntern" \/ \A d : d \notin Due')
  BY ZenonT(30), <1>2, <1>5, RecordsTail
<1>7. \A t, id : IsDue(t, id)' <=> IsDue(t, id)
  BY ZenonT(30), <1>6 DEF IsDue
<1>8. ev.kind = "AssertViolation" => ev.count = fails[ev.name] /\ \A t, id : ~IsDue(t, id)
  <2>1. ev \in Owed
    BY ZenonT(30), <1>2, OwedTail DEF Owed
  <2>2. ev.kind = "AssertViolation" => ev.count = fails[ev.name]
    BY ZenonT(30), <2>1 DEF ViewInv, OwedIsNews
  <2> QED
    BY ZenonT(30), <1>6, <2>2 DEF IsDue
<1>9. StatsTyped' /\ StatsNamed' /\ DueIsNews'
  BY SMTT(30), <1>1, <1>4, <1>5, <1>6 DEF StatsTyped, StatsNamed, DueIsNews
<1>10. ReachedAreSlotted'
  BY ZenonT(30), <1>1, <1>5, <1>7 DEF ReachedAreSlotted
<1>11. ASSUME NEW m \in Names, NEW c, AtMost(m, c),
              ev.kind = "AssertViolation" /\ ev.name = m => ev.count <= c
       PROVE  AtMost(m, c)'
  <2>1. \A i \in DOMAIN ring'["W"] :
          (i \in DOMAIN ring["W"] /\ ring'["W"][i] = ring["W"][i]) \/ ring'["W"][i] = ev
    BY ONLY SMTT(30), <1>2 DEF Typed
  <2> QED
    BY ZenonT(30), <1>1, <1>11, <2>1 DEF AtMost
<1>12. AssertionsLead'
  <2>1. PICK es : es = stats["assertions"]
    BY SMTT(30)
  <2>2. ASSUME NEW m \in Names
        PROVE  /\ AtMost(m, fails[m])
               /\ \A k \in DOMAIN es : es[k].id = ids[m] =>
                    /\ AtMost(m, es[k].count) /\ es[k].count <= fails[m]
                    /\ IsDue("assertions", es[k].id) \/ es[k].count = fails[m]
    BY ZenonT(30), <1>5, <2>1 DEF AssertionsLead
  <2>3. \A m \in Names : fails[m] \in Nat
    BY ZenonT(30) DEF TypedSdk
  <2>4. \A m \in Names : \A c : c = fails[m] => AtMost(m, c)'
    BY <1>8, <1>11, <2>2, <2>3
  <2>5. \A m \in Names : AtMost(m, fails[m])'
    <3> SUFFICES ASSUME NEW m \in Names PROVE AtMost(m, fails[m])'
      OBVIOUS
    <3>1. PICK c : c = fails[m] /\ c = fails'[m]
      BY ZenonT(30), <1>1
    <3> QED
      BY ZenonT(30), <2>4, <3>1 DEF AtMost
  <2>6. ASSUME NEW m \in Names, NEW k \in DOMAIN es, es[k].id = ids[m]
        PROVE  AtMost(m, stats["assertions"][k].count)'
    <3>1. PICK c : c = es[k].count /\ c = stats'["assertions"][k].count
      BY ZenonT(30), <1>1, <2>1
    <3>2. ev.kind = "AssertViolation" /\ ev.name = m => ev.count <= c
      BY ZenonT(30), <1>8, <2>2, <2>3, <2>6, <3>1
    <3>3. AtMost(m, c)'
      BY ZenonT(30), <1>11, <2>2, <2>6, <3>1, <3>2
    <3> QED
      BY ZenonT(30), <3>1, <3>3 DEF AtMost
  <2> QED
    BY ZenonT(30), <1>1, <1>7, <2>1, <2>2, <2>5, <2>6 DEF AssertionsLead
<1> QED
  BY ZenonT(30), <1>6, <1>9, <1>10, <1>12 DEF StatsInv

\* A call begins: the stats lag behind it until it has recorded its own.
LEMMA StatsCall ==
    ASSUME Typed, TypedSdk, TypedSdk', ViewInv, StatsInv, call["W"] = <<>>,
           UNCHANGED <<ring, host, stats>>, StatsBeforeReports', DueIsNews',
           \A m \in Names : ids[m] # 0 => ids'[m] = ids[m],
           \A m, x \in Names : ids[x] # 0 /\ ids'[m] = ids[x] => m = x,
           \A m \in Names : /\ fails[m] <= fails'[m]
                            /\ fails'[m] = fails[m] \/ IsDue("assertions", ids[m])',
           \A m \in Names : /\ hits[m] > 0 => hits'[m] > 0
                            /\ hits'[m] > 0 => hits[m] > 0 \/ IsDue("reachable", ids[m])'
    PROVE  StatsInv'
<1>1. /\ StatsTyped /\ StatsNamed /\ AssertionsLead /\ ReachedAreSlotted
  BY ZenonT(30) DEF StatsInv
<1>2. Told' = Told
  BY ZenonT(30) DEF Told, drain_ring
<1>3. \A t, id : ~IsDue(t, id)
  BY ZenonT(30), OwedSingle DEF IsDue, Due
<1>4. \A t \in Tables : \A k \in DOMAIN stats[t] : stats[t][k].id \in Ids /\ stats[t][k].count \in Nat
  BY ZenonT(30), <1>1, EntryTypes
<1>5. ASSUME NEW t \in Tables, NEW k \in DOMAIN stats[t], NEW m \in Names
      PROVE  ids'[m] = stats[t][k].id <=> ids[m] = stats[t][k].id
  <2>1. PICK x \in Names : ids[x] = stats[t][k].id
    BY ZenonT(30), <1>1 DEF StatsNamed
  <2>2. ids[x] # 0
    BY ZenonT(30), <1>4, <2>1 DEF Ids
  <2> QED
    BY ZenonT(30), <2>1, <2>2
<1>6. StatsTyped'
  BY ZenonT(30), <1>1 DEF StatsTyped
<1>7. StatsNamed'
  BY SMTT(30), <1>1, <1>2, <1>5 DEF StatsNamed
<1>8. AssertionsLead'
  <2>1. PICK es : es = stats["assertions"]
    BY ZenonT(30)
  <2>2. ASSUME NEW m \in Names
        PROVE  /\ AtMost(m, fails[m])
               /\ \A k \in DOMAIN es : es[k].id = ids[m] =>
                    AtMost(m, es[k].count) /\ es[k].count = fails[m]
    BY ZenonT(30), <1>1, <1>3, <2>1 DEF AssertionsLead
  <2>3. ASSUME NEW m \in Names
        PROVE  AtMost(m, fails[m])'
    <3>1. fails[m] \in Nat /\ fails'[m] \in Nat /\ host.violations[m] \in Nat
      BY ZenonT(30) DEF TypedSdk, ViewInv
    <3>2. ASSUME NEW i \in DOMAIN ring["W"], ring["W"][i].kind = "AssertViolation"
          PROVE  ring["W"][i].count \in Nat
      <4>1. ring["W"] \in Seq(Events)
        BY Zenon DEF Typed, Rings
      <4>2. ring["W"][i] \in Events
        BY ONLY SMTT(30), <3>2, <4>1
      <4> QED
        BY Zenon, <3>2, <4>2 DEF Events, AgentEvents
    <3>3. fails[m] <= fails'[m]
      BY ZenonT(30)
    <3> QED
      BY <2>2, <3>1, <3>2, <3>3 DEF AtMost
  <2>4. "assertions" \in Tables
    BY Zenon DEF Tables
  <2>5. ASSUME NEW m \in Names, NEW k \in DOMAIN es, es[k].id = ids'[m]
        PROVE  /\ AtMost(m, stats["assertions"][k].count)' /\ es[k].count <= fails'[m]
               /\ IsDue("assertions", stats["assertions"][k].id)' \/ es[k].count = fails'[m]
    <3>1. es[k].id = ids[m]
      BY ZenonT(30), <1>5, <2>1, <2>4, <2>5
    <3>2. AtMost(m, es[k].count) /\ es[k].count = fails[m]
      BY ZenonT(30), <2>2, <3>1
    <3>3. AtMost(m, stats["assertions"][k].count)'
      BY ZenonT(30), <2>1, <3>2 DEF AtMost
    <3>4. fails[m] <= fails'[m] /\ (fails'[m] = fails[m] \/ IsDue("assertions", ids[m])')
      BY ZenonT(30)
    <3>5. IsDue("assertions", ids[m])' => IsDue("assertions", stats["assertions"][k].id)'
      BY ZenonT(30), <2>1, <2>5 DEF IsDue
    <3> QED
      BY ZenonT(30), <3>2, <3>3, <3>4, <3>5
  <2> QED
    BY ZenonT(30), <2>1, <2>3, <2>5 DEF AssertionsLead
<1>9. ReachedAreSlotted'
  <2>1. PICK es : es = stats["reachable"]
    BY Zenon
  <2>2. /\ \A k \in DOMAIN es : \E m \in Names : ids[m] = es[k].id /\ hits[m] > 0
        /\ \A m \in Names : hits[m] > 0 =>
             Len(es) = NAME_SLOTS \/ \E k \in DOMAIN es : es[k].id = ids[m]
    BY ZenonT(30), <1>1, <1>3, <2>1 DEF ReachedAreSlotted
  <2>3. \A k \in DOMAIN es : \A m \in Names : ids'[m] = es[k].id <=> ids[m] = es[k].id
    BY ZenonT(30), <1>5, <2>1 DEF Tables
  <2>4. \A k \in DOMAIN es : \E m \in Names : ids'[m] = es[k].id /\ hits'[m] > 0
    BY SMTT(30), <2>2, <2>3
  <2>5. \A m \in Names : hits'[m] > 0 /\ ~IsDue("reachable", ids[m])' =>
          Len(es) = NAME_SLOTS \/ \E k \in DOMAIN es : es[k].id = ids'[m]
    BY ZenonT(30), <2>2, <2>3
  <2> QED
    BY ZenonT(30), <2>1, <2>4, <2>5 DEF ReachedAreSlotted
<1> QED
  BY ZenonT(30), <1>6, <1>7, <1>8, <1>9 DEF StatsInv

\* intern_name takes no number twice.
LEMMA NewNumbers ==
    ASSUME TypedSdk, NumbersApart, NEW n \in Names, ids' = [ids EXCEPT ![n] = NameId(n)]
    PROVE  /\ ids'[n] = NameId(n)
           /\ \A m \in Names : ids[m] # 0 => ids'[m] = ids[m]
           /\ \A m, x \in Names : ids[x] # 0 /\ ids'[m] = ids[x] => m = x
<1>1. ids \in [Names -> Nat] /\ next_id \in Nat
  BY ZenonT(30), NameIdType DEF TypedSdk, Ids
<1>2. \A m \in Names : ids'[m] = IF m = n THEN NameId(n) ELSE ids[m]
  BY ZenonT(30), <1>1
<1>3. \A m \in Names : ids[m] # 0 => ids'[m] = ids[m]
  BY ZenonT(30), <1>2 DEF NameId
<1>4. \A m \in Names : ids'[m] = ids[m] \/ ids'[m] = next_id
  BY ZenonT(30), <1>2 DEF NameId
<1>5. ASSUME NEW m \in Names, NEW x \in Names, ids[x] # 0, ids'[m] = ids[x] PROVE m = x
  <2>1. ids[x] < next_id /\ ids[x] \in Nat
    BY ZenonT(30), <1>1 DEF NumbersApart
  <2>2. ids'[m] # next_id
    BY ONLY SMTT(30), <1>1, <1>5, <2>1
  <2>3. ids[m] = ids[x]
    BY ZenonT(30), <1>4, <1>5, <2>2
  <2> QED
    BY ZenonT(30), <1>5, <2>3 DEF NumbersApart
<1> QED
  BY ZenonT(30), <1>2, <1>3, <1>5

\* The stats when a call begins.
LEMMA StatsCalls ==
    ASSUME FlowInv, TypedSdk', NamesInv, ViewInv, StatsInv,
           \/ \E n \in Names : (\E count : Asserts(n, count)) \/ Reaching(n) \/ Mentions(n)
           \/ Chats \/ Marks
    PROVE  StatsInv'
<1>1. Typed /\ TypedSdk /\ NumbersApart
  BY SMTT(30) DEF FlowInv, NamesInv
<1>2. ASSUME NEW n \in Names, NEW count, Asserts(n, count) PROVE StatsInv'
  <2>1. /\ Begins(n) /\ UNCHANGED <<hits, frame_index>> /\ count >= fails[n] /\ count \in Nat
        /\ fails' = [fails EXCEPT ![n] = count]
        /\ \A d \in Due' : d.table = "assertions" /\ d.id = NameId(n) /\ d.count = count
        /\ \E d \in Due' : d.table = "assertions" /\ d.id = NameId(n)
    BY SMTT(30), <1>2 DEF Asserts
  <2>2. /\ ids'[n] = NameId(n)
        /\ \A m \in Names : ids[m] # 0 => ids'[m] = ids[m]
        /\ \A m, x \in Names : ids[x] # 0 /\ ids'[m] = ids[x] => m = x
    BY ZenonT(30), <1>1, <2>1, NewNumbers DEF Begins
  <2>3. fails \in [Names -> Nat] /\ fails'[n] = count
    BY SMTT(30), <1>1, <2>1 DEF TypedSdk
  <2>4. DueIsNews'
    BY ZenonT(30), <2>1, <2>2, <2>3 DEF DueIsNews
  <2>5. IsDue("assertions", ids[n])'
    BY ZenonT(30), <2>1, <2>2 DEF IsDue
  <2>6. ASSUME NEW m \in Names
        PROVE  fails[m] <= fails'[m] /\ (fails'[m] = fails[m] \/ IsDue("assertions", ids[m])')
    BY SMTT(30), <2>1, <2>3, <2>5
  <2> QED
    BY ZenonT(30), <1>1, <2>1, <2>2, <2>4, <2>6, StatsCall DEF Begins
<1>3. ASSUME NEW n \in Names, Reaching(n) PROVE StatsInv'
  <2>1. /\ Begins(n) /\ UNCHANGED <<fails, frame_index>> /\ hits' = [hits EXCEPT ![n] = 1]
        /\ \A d \in Due' : d.table = "reachable" /\ d.id = NameId(n) /\ d.count = 1
        /\ \E d \in Due' : d.table = "reachable" /\ d.id = NameId(n)
    BY SMTT(30), <1>3 DEF Reaching
  <2>2. /\ ids'[n] = NameId(n)
        /\ \A m \in Names : ids[m] # 0 => ids'[m] = ids[m]
        /\ \A m, x \in Names : ids[x] # 0 /\ ids'[m] = ids[x] => m = x
    BY ZenonT(30), <1>1, <2>1, NewNumbers DEF Begins
  <2>3. hits \in [Names -> Nat] /\ hits'[n] = 1 /\ \A m \in Names : fails[m] <= fails[m]
    BY SMTT(30), <1>1, <2>1 DEF TypedSdk
  <2>4. DueIsNews'
    BY <2>1, <2>2, <2>3 DEF DueIsNews
  <2>5. IsDue("reachable", ids[n])'
    BY ZenonT(30), <2>1, <2>2 DEF IsDue
  <2>6. ASSUME NEW m \in Names
        PROVE  /\ hits[m] > 0 => hits'[m] > 0
               /\ hits'[m] > 0 => hits[m] > 0 \/ IsDue("reachable", ids[m])'
    BY SMTT(30), <2>1, <2>3, <2>5
  <2> QED
    BY ZenonT(30), <1>1, <2>1, <2>2, <2>3, <2>4, <2>6, StatsCall DEF Begins
<1>4. ASSUME NEW n \in Names, Mentions(n) PROVE StatsInv'
  <2>1. Begins(n) /\ UNCHANGED <<hits, fails>> /\ \A d : d \notin Due'
    BY ZenonT(30), <1>4 DEF Mentions
  <2>2. /\ \A m \in Names : ids[m] # 0 => ids'[m] = ids[m]
        /\ \A m, x \in Names : ids[x] # 0 /\ ids'[m] = ids[x] => m = x
    BY ZenonT(30), <1>1, <2>1, NewNumbers DEF Begins
  <2>3. DueIsNews' /\ \A m \in Names : fails[m] <= fails[m]
    BY SMTT(30), <1>1, <2>1 DEF DueIsNews, TypedSdk
  <2> QED
    BY ZenonT(30), <1>1, <2>1, <2>2, <2>3, StatsCall DEF Begins
<1>5. CASE Chats \/ Marks
  <2>1. /\ call["W"] = <<>> /\ UNCHANGED <<ring, host, stats, ids, hits, fails>> /\ \A d : d \notin Due'
    BY ZenonT(30), <1>5 DEF Chats, Marks
  <2>2. /\ \A m \in Names : ids[m] # 0 => ids'[m] = ids[m]
        /\ \A m, x \in Names : ids[x] # 0 /\ ids'[m] = ids[x] => m = x
    BY ZenonT(30), <1>1, <2>1 DEF NumbersApart
  <2>3. DueIsNews' /\ \A m \in Names : fails[m] <= fails[m]
    BY SMTT(30), <1>1, <2>1 DEF DueIsNews, TypedSdk
  <2>4. StatsBeforeReports'
    BY ZenonT(30), <2>1, NoRecords
  <2> QED
    BY ZenonT(30), <1>1, <2>1, <2>2, <2>3, <2>4, StatsCall
<1> QED
  BY ZenonT(30), <1>2, <1>3, <1>4, <1>5

-----------------------------------------------------------------------------
(***************************************************************************)
(* The first life of the workload.                                         *)
(***************************************************************************)
\* The channel before anything is published.
LEMMA InitFirst == Init => FirstLife
<1> SUFFICES ASSUME Init PROVE NamesInv /\ ViewInv /\ StatsInv
  BY DEF FirstLife
<1>1. Typed /\ TypedSdk
  BY ZenonT(30), InitFlow DEF FlowInv
<1>2. /\ ring["W"] = <<>> /\ call["W"] = <<>> /\ host = NewChannel /\ stats = NoStats
      /\ ids = [n \in Names |-> 0] /\ hits = [n \in Names |-> 0] /\ fails = [n \in Names |-> 0]
      /\ frame_index = 0
  BY Zenon DEF Init, Rings
<1>3. Told = NewChannel
  BY ZenonT(30), <1>1, <1>2, ToldFields
<1>4. /\ DOMAIN NewChannel.interns = {} /\ NewChannel.frame = 0 /\ NewChannel.reached = {}
      /\ NewChannel.violations = [n \in Names |-> 0]
  BY ZenonT(30) DEF NewChannel, NoTable
<1>5. \A x : x \notin Owed /\ x \notin Due
  BY ZenonT(30), <1>2, OwedSingle DEF Owed, Due
<1>6. NamesInv
  <2>1. NumbersApart
    <3>1. (next_id \in Nat /\ next_id # 0) \/ Names = {}
      BY ZenonT(30), <1>1, NameIdType DEF Ids
    <3> QED
      BY SMTT(30), <1>2, <3>1 DEF NumbersApart
  <2>2. TrueInterns(Told)
    BY ZenonT(30), <1>3, <1>4 DEF TrueInterns
  <2> QED
    BY SMTT(30), <1>2, <1>5, <2>1, <2>2, NothingToResolve DEF NamesInv
<1>7. ViewInv
  <2>1. OwedIsNews
    BY ZenonT(30), <1>5 DEF OwedIsNews
  <2>2. \A n \in Names : Told.violations[n] = Min({fails[n], ASSERT_REPEAT_LIMIT + 1})
    <3>1. PICK L : L = ASSERT_REPEAT_LIMIT + 1
      OBVIOUS
    <3>2. L \in Nat
      BY SMTT(30), <3>1, EventFlowAssumption
    <3>3. Min({0, L}) = 0
      BY SMTT(30), <3>2, MinTwo
    <3> QED
      BY SMTT(30), <1>2, <1>3, <1>4, <3>1, <3>3
  <2>3. Told.violations \in [Names -> Nat] /\ host.violations \in [Names -> Nat]
    BY SMTT(30), <1>2, <1>3, <1>4
  <2>4. \A n \in Names : n \in Told.reached <=> hits[n] > 0
    BY SMTT(30), <1>2, <1>3, <1>4
  <2>5. Told.reached \subseteq Names /\ Told.frame = frame_index
    BY Zenon, <1>2, <1>3, <1>4
  <2> QED
    BY SMTT(30), <2>1, <2>2, <2>3, <2>4, <2>5 DEF ViewInv
<1>8. StatsInv
  <2>1. /\ DOMAIN stats = Tables /\ \A t \in Tables : stats[t] = <<>>
    BY SMTT(30), <1>2 DEF NoStats, Tables
  <2>2. \A t \in Tables : stats[t] \in Seq(Entries) /\ Len(stats[t]) = 0 /\ DOMAIN stats[t] = {}
    <3>1. <<>> \in Seq(Entries) /\ Len(<<>>) = 0 /\ DOMAIN <<>> = {}
      OBVIOUS
    <3> QED
      BY ZenonT(30), <2>1, <3>1
  <2>3. StatsTyped /\ StatsNamed
    BY <2>1, <2>2, EventFlowAssumption DEF StatsTyped, StatsNamed
  <2>4. StatsBeforeReports /\ DueIsNews
    BY <1>2, <1>5 DEF StatsBeforeReports, DueIsNews
  <2>5. AssertionsLead
    BY <1>2, <1>4, <2>2 DEF AssertionsLead, AtMost, Tables
  <2>6. ReachedAreSlotted
    BY ONLY SMTT(30), <1>2, <2>2 DEF ReachedAreSlotted, Tables
  <2> QED
    BY ZenonT(30), <2>3, <2>4, <2>5, <2>6 DEF StatsInv
<1> QED
  BY ONLY SMTT(30), <1>6, <1>7, <1>8

\* The steps of a call that neither publish on ring W nor record, and the pauses.
LEMMA QuietFirst ==
    ASSUME FlowInv, NamesInv, ViewInv, StatsInv, CallIsQuiet, UNCHANGED sdk, Drained \/ Stayed,
           stats' = stats, call'["W"] = call["W"] \/ Head(call["W"]).do # "stat"
    PROVE  NamesInv' /\ ViewInv' /\ StatsInv'
<1>1. Typed /\ TypedSdk /\ UNCHANGED <<ids, hits, fails, frame_index>>
  BY Zenon DEF FlowInv, sdk
<1>2. Quiet
  BY Zenon, <1>1, QuietStay, QuietDrain DEF Drained, Stayed
<1>3. NamesResolve /\ host.violations \in [Names -> Nat] /\ StatsBeforeReports
  BY Zenon DEF NamesInv, ViewInv, StatsInv
<1>4. StatsBeforeReports' /\ \A d : d \in Due' <=> d \in Due
  <2>1. CASE call'["W"] = call["W"]
    BY ZenonT(30), <1>3, <2>1 DEF StatsBeforeReports, Due
  <2>2. CASE call'["W"] # call["W"]
    <3>1. call["W"] # <<>> /\ call'["W"] = Tail(call["W"]) /\ Head(call["W"]).do # "stat"
      BY <2>2 DEF CallIsQuiet
    <3> QED
      BY ONLY SMTT(30), <1>1, <1>3, <3>1, RecordsTail
  <2> QED
    BY ZenonT(30), <2>1, <2>2
<1> QED
  BY SMTT(30), <1>1, <1>2, <1>3, <1>4, NamesStep, ViewStep, StatsStep

\* The calls.
LEMMA CallFirst ==
    ASSUME FlowInv, TypedSdk', NamesInv, ViewInv, StatsInv, NewCall
    PROVE  NamesInv' /\ ViewInv' /\ StatsInv'
<1>1. Typed /\ TypedSdk
  BY ZenonT(30) DEF FlowInv
<1>2. CASE log_line("A")
  <2>1. /\ call'["W"] = call["W"] /\ UNCHANGED <<ring, host, stats, sdk>>
    BY ZenonT(30), <1>1, <1>2 DEF log_line, Calls, Typed, Rings
  <2> QED
    BY ZenonT(30), <2>1, QuietFirst DEF CallIsQuiet, Stayed
<1>3. CASE ~log_line("A")
  <2>1. \/ \E n \in Names : (\E count : Asserts(n, count)) \/ Reaching(n) \/ Mentions(n)
        \/ Chats \/ Marks
    BY SMTT(30), <1>3, CallAssert, CallReachable, CallMentions, CallChats, CallMarks DEF NewCall, Rings
  <2>2. StatsInv'
    BY ZenonT(30), <2>1, StatsCalls
  <2>3. ViewInv'
    BY SMTT(30), <1>1, <2>1, ViewAssert, ViewReach, ViewOthers
  <2>4. NamesInv'
    <3>1. ASSUME NEW n \in Names, Begins(n) PROVE NamesInv'
      BY ZenonT(30), <1>1, <3>1, NamesCall DEF Begins
    <3>2. CASE Chats \/ Marks
      BY ZenonT(30), <1>1, <3>2, NamesIdle DEF Chats, Marks, NameKinds
    <3> QED
      BY ZenonT(30), <2>1, <3>1, <3>2 DEF Asserts, Reaching, Mentions
  <2> QED
    BY ZenonT(30), <2>2, <2>3, <2>4
<1> QED
  BY ZenonT(30), <1>2, <1>3

\* Every step of the guest and the host.
LEMMA NextFirst == FlowInv /\ FlowInv' /\ FirstLife /\ [Next]_vars => FirstLife'
<1> SUFFICES ASSUME FlowInv, FlowInv', FirstLife, [Next]_vars, lives' = 1
             PROVE  NamesInv' /\ ViewInv' /\ StatsInv'
  BY ZenonT(30) DEF FirstLife
<1>1. Typed /\ TypedSdk /\ TypedSdk' /\ lives \in Nat \ {0}
  BY ZenonT(30) DEF FlowInv, Typed
<1>2. ~Restart /\ lives = 1
  <2>1. ~Restart
    BY <1>1 DEF Restart
  <2>2. lives' = lives
    BY ZenonT(30), <2>1 DEF Next, NewCall, CallStep, HostPause, EmitPush, EmitDrops, EmitRetries,
       RingDoorbell, InjectOut, InjectIn, WriteFrameCounter, WriteStat, assert_always, expect_reachable,
       declare_reachable, coverage_beacon, inject_point, frame_mark, log_line, outside, vars
  <2> QED
    BY <2>1, <2>2
<1>3. NamesInv /\ ViewInv /\ StatsInv
  BY ZenonT(30), <1>2 DEF FirstLife
<1>4. CASE NewCall
  BY ZenonT(30), <1>1, <1>3, <1>4, CallFirst
<1>5. CASE EmitPush("W")
  BY ONLY SMTT(30), <1>1, <1>3, <1>5, NamesPush, ViewPush, StatsPush
<1>6. CASE WriteStat
  <2>1. CallIsQuiet /\ UNCHANGED sdk /\ (Drained \/ Stayed)
    BY ZenonT(30), <1>6, QuietSteps
  <2>2. Quiet
    BY ZenonT(30), <1>1, <2>1, QuietStay, QuietDrain DEF Drained, Stayed, sdk
  <2> QED
    BY ONLY SMTT(30), <1>1, <1>3, <1>6, <2>1, <2>2, NamesStep, ViewStep, StatsWrite
<1>7. CASE \/ HostPause \/ EmitPush("A")
           \/ \E r \in Rings : EmitDrops(r) \/ EmitRetries(r) \/ RingDoorbell(r)
           \/ InjectOut \/ InjectIn \/ WriteFrameCounter
  <2>1. CallIsQuiet /\ UNCHANGED sdk /\ (Drained \/ Stayed)
    BY ZenonT(30), <1>7, QuietSteps
  <2>2. stats' = stats
    BY ZenonT(30), <1>7 DEF HostPause, EmitPush, EmitDrops, EmitRetries, RingDoorbell, InjectOut, InjectIn,
                WriteFrameCounter
  <2>3. call'["W"] = call["W"] \/ Head(call["W"]).do # "stat"
    <3>1. CASE HostPause \/ \E r \in Rings : EmitRetries(r)
      BY ZenonT(30), <3>1 DEF HostPause, EmitRetries
    <3>2. ASSUME NEW r \in Rings, call' = [call EXCEPT ![r] = Tail(@)],
                 r = "A" \/ Head(call["W"]).do # "stat"
          PROVE  call'["W"] = call["W"] \/ Head(call["W"]).do # "stat"
      BY ONLY SMTT(30), <1>1, <3>2 DEF Typed
    <3>3. CASE EmitPush("A")
      BY Zenon, <3>2, <3>3 DEF EmitPush, Proceed, Rings
    <3>4. CASE \E r \in Rings : EmitDrops(r) \/ RingDoorbell(r)
      BY ZenonT(30), <3>2, <3>4 DEF EmitDrops, RingDoorbell, Proceed, Does, Rings
    <3>5. CASE InjectOut \/ InjectIn \/ WriteFrameCounter
      BY ZenonT(30), <3>5 DEF InjectOut, InjectIn, WriteFrameCounter, Does
    <3> QED
      BY ZenonT(30), <1>7, <3>1, <3>3, <3>4, <3>5
  <2> QED
    BY SMTT(30), <1>3, <2>1, <2>2, <2>3, QuietFirst
<1>8. CASE UNCHANGED vars
  <2>1. UNCHANGED <<call, ring, host, stats, sdk>>
    BY <1>8 DEF vars, outside
  <2> QED
    BY ZenonT(30), <1>3, <2>1, QuietFirst DEF CallIsQuiet, Stayed
<1> QED
  BY SMTT(30), <1>2, <1>4, <1>5, <1>6, <1>7, <1>8 DEF Next, CallStep, Rings

-----------------------------------------------------------------------------
(***************************************************************************)
(* The theorems.                                                           *)
(***************************************************************************)
\* Until the workload is restarted, the names, the host's view and the stats region
\* stay as NamesInv, ViewInv and StatsInv have them, wherever the guest is
\* preempted and whenever the host drains.
THEOREM FirstLifeInvariance == Spec => []FirstLife
<1>1. Init => FirstLife
  BY ZenonT(30), InitFirst
<1>2. FlowInv /\ FlowInv' /\ FirstLife /\ [Next]_vars => FirstLife'
  BY ZenonT(30), NextFirst
<1> QED
  BY <1>1, <1>2, FlowInvariance, PTL DEF Spec

\* intern_name publishes a name before the events that use it: in the workload's
\* first life a drain, wherever it stops, meets no event whose name it does not know.
THEOREM NamesAlwaysResolve == Spec => [](lives = 1 => NamesResolve)
<1>1. FirstLife => (lives = 1 => NamesResolve)
  BY Zenon DEF FirstLife, NamesInv
<1> QED
  BY <1>1, FirstLifeInvariance, PTL

\* An id the host will know it knows already, or ring W holds its name.
LEMMA ToldInterned ==
    ASSUME Typed, NEW id \in DOMAIN Told.interns
    PROVE  \/ id \in DOMAIN host.interns
           \/ \E j \in DOMAIN ring["W"] : ring["W"][j].kind = "NameIntern" /\ ring["W"][j].id = id
<1> SUFFICES ASSUME id \notin DOMAIN host.interns,
                    ~\E j \in DOMAIN ring["W"] :
                        ring["W"][j].kind = "NameIntern" /\ ring["W"][j].id = id
             PROVE  FALSE
  BY ZenonT(30)
<1> DEFINE evs == ring["W"]
           f == Folding(host, evs, "W")
           k == Len(evs)
           T == {i \in 0 .. k : HasFields(f[i]) /\ id \notin DOMAIN f[i].interns}
<1>1. evs \in Seq(Events) /\ k \in Nat /\ HasFields(host) /\ DOMAIN evs = 1 .. k
      /\ \A i \in 1 .. k : evs[i] \in Events
  BY DEF Typed, IsChannel
<1>2. f[0] = host /\ \A i \in 0 .. k - 1 : f[i + 1] = FoldEvent(f[i], evs[i + 1], "W")
  <2>1. FoldsBy(f, host, evs, "W")
    BY Zenon, <1>1, FoldingSteps
  <2> QED
    BY Zenon, <1>1, <2>1 DEF FoldsBy
<1>3. \A i \in 1 .. k : evs[i].kind = "NameIntern" => evs[i].id # id
  BY ZenonT(30), <1>1
<1>4. Told = f[k]
  BY ZenonT(30) DEF Told, drain_ring
<1> HIDE DEF f, k, evs
<1>5. 0 \in T
  BY <1>1, <1>2
<1>6. ASSUME NEW i \in 0 .. k - 1, i \in T PROVE i + 1 \in T
  <2> DEFINE j == i + 1
  <2>1. j \in 1 .. k /\ j \in 0 .. k
    BY ONLY SMTT(30), <1>1
  <2>2. PICK g, h, ev : g = f[j] /\ h = f[i] /\ ev = evs[j]
    OBVIOUS
  <2>3. g = FoldEvent(h, ev, "W") /\ HasFields(h) /\ ev \in Events /\ id \notin DOMAIN h.interns
    BY Zenon, <1>1, <1>2, <1>6, <2>1, <2>2
  <2>4. /\ HasFields(g)
        /\ g.interns = IF ev.kind = "NameIntern" THEN FoldIntern(h, ev).interns ELSE h.interns
    <3>1. FoldsTo(h, ev, "W", g)
      BY Zenon, <2>3, FoldFields
    <3> QED
      BY Zenon, <3>1 DEF FoldsTo
  <2>5. FoldIntern(h, ev).interns = Told1(h.interns, ev)
    BY Zenon, <2>3, InternTable
  <2>6. ev.kind = "NameIntern" => ev.id # id
    BY Zenon, <1>3, <2>1, <2>2
  <2>7. ev.id # id => id \notin DOMAIN Told1(h.interns, ev)
    BY Zenon, <2>3 DEF Told1, Bind
  <2>8. id \notin DOMAIN g.interns
    BY ZenonT(30), <2>3, <2>4, <2>5, <2>6, <2>7
  <2> HIDE DEF j
  <2>9. j \in T
    BY ZenonT(30), <2>1, <2>2, <2>4, <2>8
  <2> QED
    BY ZenonT(30), <2>9 DEF j
<1> HIDE DEF T
<1>7. \A i \in 0 .. k : i \in T
  BY ZenonT(30), <1>1, <1>5, <1>6, UpTo
<1>8. k \in T
  BY <1>1, <1>7
<1> QED
  BY ZenonT(30), <1>4, <1>8 DEF T

\* Between two calls every name reached has its slot, while there are slots.
LEMMA SlotsOfReached ==
    ASSUME FlowInv, NamesInv, StatsInv, call["W"] = <<>>, NEW R, R = {n \in Names : hits[n] > 0}
    PROVE  Len(stats["reachable"]) = Min({NAME_SLOTS, Cardinality(R)})
<1> DEFINE es == stats["reachable"]
           k == Len(es)
           f == [i \in 1 .. k |-> CHOOSE n \in R : ids[n] = es[i].id]
<1>1. /\ es \in Seq(Entries) /\ k <= NAME_SLOTS /\ \A i \in DOMAIN es : es[i].id \in Ids
      /\ \A i, j \in DOMAIN es : es[i].id = es[j].id => i = j
  BY ZenonT(30), EntryTypes DEF StatsInv, StatsTyped, Tables
<1>2. k \in Nat /\ DOMAIN es = 1 .. k
  BY <1>1
<1>3. \A t, id : ~IsDue(t, id)
  BY Zenon, OwedSingle DEF IsDue, Due
<1>4. /\ \A i \in DOMAIN es : \E n \in R : ids[n] = es[i].id
      /\ \A n \in R : k = NAME_SLOTS \/ \E i \in DOMAIN es : es[i].id = ids[n]
  BY Zenon, <1>3 DEF StatsInv, ReachedAreSlotted
<1>5. IsFiniteSet(R) /\ Cardinality(R) \in Nat
  BY Zenon, EventFlowAssumption, FS_Subset, FS_CardinalityType
<1>6. IsFiniteSet(1 .. k) /\ Cardinality(1 .. k) = k
  BY <1>2, FS_Interval
<1>7. NumbersApart /\ R \subseteq Names /\ NAME_SLOTS \in Nat
  BY ZenonT(30), EventFlowAssumption DEF NamesInv
<1> HIDE DEF es, k
<1>8. \A i \in 1 .. k : f[i] \in R /\ ids[f[i]] = es[i].id
  BY ZenonT(30), <1>2, <1>4
<1>9. f \in [1 .. k -> R]
  BY ONLY SMTT(30), <1>8
<1> HIDE DEF f
<1>10. \A i, j \in 1 .. k : f[i] = f[j] => i = j
  BY <1>1, <1>2, <1>8
<1>11. f \in Injection(1 .. k, R)
  BY Zenon, <1>9, <1>10 DEF Injection, IsInjective
<1>12. k <= Cardinality(R) /\ (f \in Surjection(1 .. k, R) => k = Cardinality(R))
  BY <1>5, <1>6, <1>11, FS_Injection
<1>13. k < NAME_SLOTS => f \in Surjection(1 .. k, R)
  <2> SUFFICES ASSUME k < NAME_SLOTS, NEW n \in R PROVE \E i \in 1 .. k : f[i] = n
    BY ZenonT(30), <1>9 DEF Surjection
  <2>1. PICK i \in 1 .. k : es[i].id = ids[n]
    BY <1>2, <1>4, <1>7
  <2>2. ids[n] # 0 /\ ids[f[i]] = ids[n] /\ f[i] \in Names /\ n \in Names
    BY ONLY SMTT(30), <1>1, <1>2, <1>7, <1>8, <2>1 DEF Ids
  <2> QED
    BY Zenon, <1>7, <2>1, <2>2 DEF NumbersApart
<1>14. Min({NAME_SLOTS, Cardinality(R)}) = IF NAME_SLOTS <= Cardinality(R) THEN NAME_SLOTS ELSE Cardinality(R)
  BY Zenon, <1>5, <1>7, MinTwo
<1>15. k <= NAME_SLOTS
  BY ZenonT(30), <1>1
<1>16. k = Min({NAME_SLOTS, Cardinality(R)})
  BY ONLY SMTT(30), <1>2, <1>5, <1>7, <1>12, <1>13, <1>14, <1>15
<1> QED
  BY ZenonT(30), <1>16 DEF es, k

\* In the workload's first life the host's two sources, the events it drains and the
\* stats region, agree with the SDK and with each other: HostViewComplete holds at
\* every pause of the guest.
THEOREM HostViewIsComplete == Spec => [](lives = 1 => HostViewComplete)
<1>1. ASSUME FlowInv, NamesInv, ViewInv, StatsInv PROVE HostViewComplete
  <2>0. Typed /\ TypedSdk /\ StatsTyped
    BY <1>1 DEF FlowInv, StatsInv
  <2>1. ASSUME call["W"] = <<>>, ring["W"] = <<>>
        PROVE  /\ host.frame = frame_index
               /\ \A n \in Names : host.violations[n] = Min({fails[n], ASSERT_REPEAT_LIMIT + 1})
               /\ host.reached = {n \in Names : hits[n] > 0}
               /\ Len(stats.reachable) = Min({NAME_SLOTS, Cardinality(host.reached)})
    <3>1. Told = host
      BY Zenon, <2>0, <2>1, ToldFields
    <3>2. \A x : x \notin Owed
      BY ZenonT(30), <2>1, OwedSingle DEF Owed
    <3>3. ~OwesFrame /\ \A k, n : ~Owes(k, n)
      BY ZenonT(30), <3>2 DEF OwesFrame, Owes
    <3>4. /\ host.frame = frame_index /\ host.reached \subseteq Names
          /\ \A n \in Names : /\ host.violations[n] = Min({fails[n], ASSERT_REPEAT_LIMIT + 1})
                              /\ n \in host.reached <=> hits[n] > 0
      BY ZenonT(30), <1>1, <3>1, <3>3 DEF ViewInv
    <3>5. host.reached = {n \in Names : hits[n] > 0}
      BY ZenonT(30), <3>4
    <3>6. Len(stats["reachable"]) = Min({NAME_SLOTS, Cardinality(host.reached)})
      BY ZenonT(30), <1>1, <2>1, <3>5, SlotsOfReached
    <3> QED
      BY Zenon, <3>4, <3>5, <3>6
  <2>2. ASSUME NEW t \in Tables, NEW i \in DOMAIN stats[t], NEW id, id = stats[t][i].id
        PROVE  /\ \/ id \in DOMAIN host.interns
                  \/ \E j \in DOMAIN ring["W"] :
                       ring["W"][j].kind = "NameIntern" /\ ring["W"][j].id = id
               /\ \A j \in 1 .. (i - 1) : stats[t][j].id # id
               /\ t = "assertions" => \E n \in Names :
                    ids[n] = id /\ stats[t][i].count \in host.violations[n] .. fails[n]
    <3>1. id \in DOMAIN Told.interns /\ \E n \in Names : ids[n] = id
      BY ZenonT(30), <1>1, <2>2 DEF StatsInv, StatsNamed
    <3>2. \/ id \in DOMAIN host.interns
          \/ \E j \in DOMAIN ring["W"] : ring["W"][j].kind = "NameIntern" /\ ring["W"][j].id = id
      BY ZenonT(30), <2>0, <3>1, ToldInterned
    <3>3. \A j \in 1 .. (i - 1) : stats[t][j].id # id
      <4>1. stats[t] \in Seq(Entries) /\ \A a, b \in DOMAIN stats[t] : stats[t][a].id = stats[t][b].id => a = b
        BY ZenonT(30), <2>0 DEF StatsTyped
      <4>2. \A j \in 1 .. (i - 1) : j \in DOMAIN stats[t] /\ j # i
        BY ONLY SMTT(30), <4>1
      <4> QED
        BY ZenonT(30), <2>2, <4>1, <4>2
    <3>4. t = "assertions" => \E n \in Names :
            ids[n] = id /\ stats[t][i].count \in host.violations[n] .. fails[n]
      <4> SUFFICES ASSUME t = "assertions"
                   PROVE  \E n \in Names :
                            ids[n] = id /\ stats[t][i].count \in host.violations[n] .. fails[n]
        OBVIOUS
      <4>1. PICK n \in Names : ids[n] = id
        BY ZenonT(30), <3>1
      <4>2. AtMost(n, stats[t][i].count) /\ stats[t][i].count <= fails[n]
        BY ZenonT(30), <1>1, <2>2, <4>1 DEF StatsInv, AssertionsLead
      <4>3. host.violations[n] \in Nat /\ fails[n] \in Nat /\ stats[t][i].count \in Nat
        BY ZenonT(30), <1>1, <2>0, EntryTypes DEF ViewInv, TypedSdk
      <4>4. host.violations[n] <= stats[t][i].count
        BY ZenonT(30), <4>2 DEF AtMost
      <4> QED
        BY <4>1, <4>2, <4>3, <4>4
    <3> QED
      BY ONLY SMTT(30), <3>2, <3>3, <3>4
  <2>3. DOMAIN stats = Tables
    BY ZenonT(30), <2>0 DEF StatsTyped
  <2> QED
    BY ONLY SMTT(30), <2>1, <2>2, <2>3 DEF HostViewComplete
<1>2. FlowInv /\ FirstLife => (lives = 1 => HostViewComplete)
  BY Zenon, <1>1 DEF FirstLife
<1> QED
  BY <1>2, FlowInvariance, FirstLifeInvariance, PTL
=============================================================================
