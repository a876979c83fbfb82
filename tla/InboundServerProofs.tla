-------------------------- MODULE InboundServerProofs --------------------------
(***************************************************************************)
(* Theorems about InboundServer for any policies, targets and bounds: the    *)
(* flows of an association, the stream a relay writes, and the dial.         *)
(***************************************************************************)
EXTENDS InboundServer, FiniteSetTheorems, SequenceTheorems, TLAPS

-----------------------------------------------------------------------------
(* Passes over a list: what a fold computes *)

\* A set of numbers that holds zero, and with every number the next, holds all
\* of them: the least that it does not hold cannot be.
LEMMA AllNumbers ==
  ASSUME NEW n \in Nat, NEW S, 0 \in S, \A k \in 1..n : k - 1 \in S => k \in S
  PROVE  \A k \in 0..n : k \in S
<1> SUFFICES ASSUME (0..n) \ S # {} PROVE FALSE
  OBVIOUS
<1> DEFINE rest == (0..n) \ S
<1>1. PICK k \in rest : \A j \in rest : ~ (<<j, k>> \in OpToRel(<, Nat))
  <2>1. rest \subseteq Nat /\ rest # {}
    OBVIOUS
  <2> QED
    BY <2>1, NatLessThanWellFounded, WFMin
<1>2. k \in 1..n /\ k - 1 \in 0..n
  OBVIOUS
<1>3. k - 1 \notin rest
  <2>1. <<k - 1, k>> \in Nat \X Nat /\ k - 1 < k
    BY <1>2
  <2> QED
    BY <1>1, <2>1 DEF OpToRel
<1> QED
  BY <1>2, <1>3

\* The greatest number of a set of numbers up to n.
LEMMA Greatest ==
  ASSUME NEW n \in Nat
  PROVE  \A s \in SUBSET (1..n) : s # {} => Max(s) \in s /\ \A k \in s : k <= Max(s)
<1> DEFINE Has(m) == \A s \in SUBSET (1..m) :
                       s # {} => Max(s) \in s /\ \A k \in s : k <= Max(s)
           S == {m \in 0..n : Has(m)}
<1>1. 0 \in S
  <2>1. 1..0 = {}
    OBVIOUS
  <2>2. Has(0)
    BY <2>1
  <2> HIDE DEF Has
  <2> QED
    BY <2>2
<1>2. ASSUME NEW m \in 1..n, m - 1 \in S
      PROVE  m \in S
  <2> SUFFICES ASSUME NEW s \in SUBSET (1..m), s # {}
               PROVE  Max(s) \in s /\ \A k \in s : k <= Max(s)
    OBVIOUS
  <2>1. CASE m \in s
    <3>1. \E x \in s : \A y \in s : x >= y
      BY <2>1
    <3>2. Max(s) \in s /\ \A y \in s : Max(s) >= y
      BY <3>1 DEF Max
    <3> QED
      BY <3>2
  <2>2. CASE m \notin s
    <3>1. s \in SUBSET (1..(m - 1))
      BY <2>2
    <3> QED
      BY <3>1, <1>2
  <2> QED
    BY <2>1, <2>2
<1>3. n \in S
  <2> HIDE DEF S
  <2> QED
    BY <1>1, <1>2, AllNumbers
<1> QED
  BY <1>3

\* A pass over the numbers up to n, as the folds of the library define it: on
\* every set of numbers, the greatest taken last.
IsPass(f, n, B, base, step) ==
  /\ f \in [SUBSET (1..n) -> B]
  /\ \A s \in SUBSET (1..n) :
       f[s] = IF s = {} THEN base ELSE step[<<f[s \ {Max(s)}], Max(s)>>]

\* There is one, for a step that leads from B to B.
LEMMA PassExists ==
  ASSUME NEW n \in Nat, NEW B, NEW base \in B, NEW step \in [B \X (1..n) -> B]
  PROVE  \E f : IsPass(f, n, B, base, step)
<1> DEFINE Passes(f, m) ==
             \A s \in SUBSET (1..m) :
               f[s] = IF s = {} THEN base ELSE step[<<f[s \ {Max(s)}], Max(s)>>]
           S == {m \in 0..n : \E f \in [SUBSET (1..m) -> B] : Passes(f, m)}
<1>1. 0 \in S
  <2>1. [s \in SUBSET (1..0) |-> base] \in [SUBSET (1..0) -> B]
    OBVIOUS
  <2>2. Passes([s \in SUBSET (1..0) |-> base], 0)
    <3>1. 1..0 = {}
      OBVIOUS
    <3> QED
      BY <3>1
  <2> HIDE DEF Passes
  <2> QED
    BY <2>1, <2>2
<1>2. ASSUME NEW m \in 1..n, m - 1 \in S
      PROVE  m \in S
  <2>1. PICK g \in [SUBSET (1..(m - 1)) -> B] : Passes(g, m - 1)
    BY <1>2
  <2> DEFINE f == [s \in SUBSET (1..m) |-> IF m \in s THEN step[<<g[s \ {m}], m>>] ELSE g[s]]
  <2>2. \A s \in SUBSET (1..m) : s \ {m} \in SUBSET (1..(m - 1)) /\ (m \notin s => s = s \ {m})
    OBVIOUS
  <2>3. f \in [SUBSET (1..m) -> B]
    <3>1. \A s \in SUBSET (1..m) : g[s \ {m}] \in B
      BY <2>2
    <3>2. \A b \in B : step[<<b, m>>] \in B
      OBVIOUS
    <3> QED
      BY <3>1, <3>2, <2>2
  <2>4. ASSUME NEW s \in SUBSET (1..m)
        PROVE  f[s] = IF s = {} THEN base ELSE step[<<f[s \ {Max(s)}], Max(s)>>]
    <3>1. CASE m \in s
      <4>1. m \in Nat
        OBVIOUS
      <4>2. Max(s) \in s /\ m <= Max(s)
        BY <3>1, <4>1, Greatest
      <4>3. Max(s) = m
        <5>1. Max(s) \in 1..m
          BY <4>2
        <5> QED
          BY <4>1, <4>2, <5>1
      <4>4. f[s \ {m}] = g[s \ {m}] /\ f[s] = step[<<g[s \ {m}], m>>]
        BY <2>2, <3>1
      <4> QED
        BY <3>1, <4>3, <4>4
    <3>2. CASE m \notin s
      <4>1. s \in SUBSET (1..(m - 1)) /\ f[s] = g[s]
        BY <2>2, <3>2
      <4>2. CASE s = {}
        BY <2>1, <4>1, <4>2
      <4>3. CASE s # {}
        <5>1. f[s \ {Max(s)}] = g[s \ {Max(s)}]
          BY <3>2, <4>1
        <5> QED
          BY <2>1, <4>1, <4>3, <5>1
      <4> QED
        BY <4>2, <4>3
    <3> QED
      BY <3>1, <3>2
  <2>5. Passes(f, m)
    BY <2>4
  <2> HIDE DEF Passes, f
  <2> QED
    BY <2>3, <2>5
<1>3. n \in S
  <2> HIDE DEF S
  <2> QED
    BY <1>1, <1>2, AllNumbers
<1> QED
  BY <1>3 DEF IsPass

\* The numbers up to k, as the folds of the library take them.
LEMMA UpTo ==
  ASSUME NEW n \in Nat
  PROVE  /\ 1..0 = {}
         /\ \A k \in 1..n : /\ 1..k # {} /\ 1..k \in SUBSET (1..n) /\ Max(1..k) = k
                            /\ (1..k) \ {k} = 1..(k - 1) /\ 1..(k - 1) \in SUBSET (1..n)
<1>1. ASSUME NEW k \in 1..n
      PROVE  /\ 1..k # {} /\ 1..k \in SUBSET (1..n)
             /\ (1..k) \ {k} = 1..(k - 1) /\ 1..(k - 1) \in SUBSET (1..n)
  BY <1>1
<1>2. ASSUME NEW k \in 1..n
      PROVE  Max(1..k) = k
  <2>1. k \in 1..k
    OBVIOUS
  <2>2. Max(1..k) \in 1..k /\ k <= Max(1..k)
    BY <1>1, <2>1, Greatest
  <2> QED
    BY <2>2
<1>3. 1..0 = {}
  OBVIOUS
<1> QED
  BY <1>1, <1>2, <1>3

\* What a pass keeps that takes a rule if it applies and is better than the one
\* kept so far.
IsKept(kept, n, rules, none, applies, better) ==
  /\ kept[0] = none
  /\ \A k \in 1..n :
       kept[k] = IF k \in applies /\ (kept[k - 1] = none \/ <<rules[k], kept[k - 1]>> \in better)
                 THEN rules[k] ELSE kept[k - 1]

\* Being better is a relation in which what is no better than a rule does not
\* come before what is better than that rule.
IsOrder(n, rules, none, better) ==
  /\ \A k \in 1..n : rules[k] # none /\ <<rules[k], rules[k]>> \notin better
  /\ \A i, j, k \in 1..n :
       <<rules[k], rules[i]>> \in better /\ <<rules[j], rules[i]>> \notin better =>
         <<rules[k], rules[j]>> \in better /\ <<rules[j], rules[k]>> \notin better

\* The rule the definition of Best names, of those that apply.
Leading(rules, applies, better) ==
  {i \in applies : \A j \in applies :
     <<rules[j], rules[i]>> \notin better /\ (j < i => <<rules[i], rules[j]>> \in better)}

\* The pass ends with none if none applies, and else with the one that leads.
LEMMA PassKeepsBest ==
  ASSUME NEW n \in Nat, NEW rules, NEW none, NEW applies \in SUBSET (1..n), NEW better, NEW kept,
         IsOrder(n, rules, none, better), IsKept(kept, n, rules, none, applies, better)
  PROVE  \/ applies = {} /\ kept[n] = none
         \/ \E i \in Leading(rules, applies, better) : kept[n] = rules[i]
<1> USE DEF IsOrder, IsKept
<1> DEFINE Leads(i, m) ==
             /\ i <= m
             /\ \A j \in applies : j <= m =>
                  <<rules[j], rules[i]>> \notin better /\ (j < i => <<rules[i], rules[j]>> \in better)
           Found(m) == \/ kept[m] = none /\ \A j \in applies : ~ (j <= m)
                       \/ \E i \in applies : kept[m] = rules[i] /\ Leads(i, m)
           S == {m \in 0..n : Found(m)}
<1>1. 0 \in S
  <2>1. Found(0)
    OBVIOUS
  <2> HIDE DEF Found
  <2> QED
    BY <2>1
<1>2. ASSUME NEW m \in 1..n, m - 1 \in S
      PROVE  m \in S
  <2>1. Found(m - 1) /\ m \in 0..n /\ m - 1 \in Nat
    BY <1>2
  <2>2. \A j \in applies : j <= m => j <= m - 1 \/ j = m
    <3> SUFFICES ASSUME NEW j \in applies, j <= m PROVE j <= m - 1 \/ j = m
      OBVIOUS
    <3>1. j \in Nat /\ m \in Nat
      OBVIOUS
    <3> QED
      BY <3>1
  <2>3. CASE m \notin applies
    <3>1. kept[m] = kept[m - 1]
      BY <2>3
    <3>2. \A j \in applies : j <= m => j <= m - 1
      BY <2>2, <2>3
    <3>3. CASE kept[m - 1] = none /\ \A j \in applies : ~ (j <= m - 1)
      BY <3>1, <3>2, <3>3
    <3>4. ASSUME NEW i \in applies, kept[m - 1] = rules[i], Leads(i, m - 1)
          PROVE  Found(m)
      <4>1. Leads(i, m)
        BY <3>2, <3>4
      <4> HIDE DEF Leads
      <4> QED
        BY <3>1, <3>4, <4>1
    <3> HIDE DEF Leads
    <3>5. Found(m)
      BY <2>1, <3>3, <3>4
    <3> HIDE DEF Found
    <3> QED
      BY <3>5
  <2>4. CASE m \in applies
    <3>1. CASE kept[m - 1] = none /\ \A j \in applies : ~ (j <= m - 1)
      <4>1. kept[m] = rules[m]
        BY <2>4, <3>1
      <4>2. Leads(m, m)
        BY <2>2, <3>1
      <4> HIDE DEF Leads
      <4> QED
        BY <2>4, <4>1, <4>2
    <3>2. ASSUME NEW i \in applies, kept[m - 1] = rules[i], Leads(i, m - 1)
          PROVE  Found(m)
      <4>1. kept[m - 1] # none
        BY <3>2
      <4>2. CASE <<rules[m], rules[i]>> \in better
        <5>1. kept[m] = rules[m]
          BY <2>4, <3>2, <4>2
        <5>2. \A j \in applies : j <= m - 1 =>
                <<rules[m], rules[j]>> \in better /\ <<rules[j], rules[m]>> \notin better
          BY <2>4, <3>2, <4>2
        <5>3. Leads(m, m)
          BY <2>2, <5>2
        <5> HIDE DEF Leads
        <5> QED
          BY <2>4, <5>1, <5>3
      <4>3. CASE <<rules[m], rules[i]>> \notin better
        <5>1. kept[m] = rules[i]
          BY <3>2, <4>1, <4>3
        <5>2. i <= m
          <6>1. i \in Nat /\ i <= m - 1 /\ m \in Nat
            BY <3>2
          <6> QED
            BY <6>1
        <5>3. ASSUME NEW j \in applies, j <= m
              PROVE  <<rules[j], rules[i]>> \notin better
                     /\ (j < i => <<rules[i], rules[j]>> \in better)
          <6>1. CASE j <= m - 1
            BY <3>2, <6>1
          <6>2. CASE j = m
            <7>1. ~ (j < i)
              BY <3>2, <6>2
            <7> QED
              BY <4>3, <6>2, <7>1
          <6> QED
            BY <2>2, <5>3, <6>1, <6>2
        <5>4. Leads(i, m)
          BY <5>2, <5>3
        <5> HIDE DEF Leads
        <5> QED
          BY <5>1, <5>4
      <4> QED
        BY <4>2, <4>3
    <3> HIDE DEF Leads
    <3>3. Found(m)
      BY <2>1, <3>1, <3>2
    <3> HIDE DEF Found
    <3> QED
      BY <3>3
  <2> QED
    BY <2>3, <2>4
<1>3. Found(n)
  <2>1. n \in S
    <3> HIDE DEF S
    <3> QED
      BY <1>1, <1>2, AllNumbers
  <2> QED
    BY <2>1
<1>4. ASSUME NEW j \in applies
      PROVE  j <= n
  <2>1. j \in 1..n
    OBVIOUS
  <2> QED
    BY <2>1
<1> QED
  BY <1>3, <1>4 DEF Leading

\* The rule that is named by the set of the numbers that lead.
IsNamed(rule, rules, none, best) ==
  \/ rule = none /\ best = {}
  \/ rule # none /\ best # {} /\ rule = rules[CHOOSE i \in best : TRUE]

\* The rules that lead are one rule at most, so it is the one that is chosen.
LEMMA PassKeepsTheBest ==
  ASSUME NEW n \in Nat, NEW rules, NEW none, NEW applies \in SUBSET (1..n), NEW better, NEW kept,
         IsOrder(n, rules, none, better), IsKept(kept, n, rules, none, applies, better)
  PROVE  IsNamed(kept[n], rules, none, Leading(rules, applies, better))
<1> DEFINE best == Leading(rules, applies, better)
<1>1. CASE applies = {} /\ kept[n] = none
  BY <1>1 DEF Leading, IsNamed
<1>2. ASSUME NEW i \in best, kept[n] = rules[i]
      PROVE  kept[n] # none /\ best # {} /\ kept[n] = rules[CHOOSE k \in best : TRUE]
  <2>1. ASSUME NEW k \in best
        PROVE  k = i
    <3>1. ~ (k < i) /\ ~ (i < k)
      BY DEF Leading
    <3>2. k \in Nat /\ i \in Nat
      BY DEF Leading
    <3> QED
      BY <3>1, <3>2
  <2>2. (CHOOSE k \in best : TRUE) = i
    BY <2>1
  <2>3. i \in 1..n
    BY DEF Leading
  <2> QED
    BY <1>2, <2>2, <2>3 DEF IsOrder
<1>3. \/ applies = {} /\ kept[n] = none
      \/ \E i \in best : kept[n] = rules[i]
  BY PassKeepsBest
<1> QED
  BY <1>1, <1>2, <1>3 DEF IsNamed

\* The pass that keeps a rule for another exists as a fold over the rules.
IsKeeping(f, n, rules, none, takes) ==
  /\ f \in [SUBSET (1..n) -> {none} \cup {rules[k] : k \in 1..n}]
  /\ \A s \in SUBSET (1..n) :
       f[s] = IF s = {} THEN none
              ELSE IF <<Max(s), f[s \ {Max(s)}]>> \in takes THEN rules[Max(s)] ELSE f[s \ {Max(s)}]

LEMMA KeepingExists ==
  ASSUME NEW n \in Nat, NEW rules, NEW none, NEW takes
  PROVE  \E f : IsKeeping(f, n, rules, none, takes)
<1> DEFINE B == {none} \cup {rules[k] : k \in 1..n}
           step == [x \in B \X (1..n) |-> IF <<x[2], x[1]>> \in takes THEN rules[x[2]] ELSE x[1]]
<1>1. step \in [B \X (1..n) -> B] /\ none \in B
  OBVIOUS
<1>2. PICK f : IsPass(f, n, B, none, step)
  <2> HIDE DEF step, B
  <2> QED
    BY <1>1, PassExists
<1>3. \A s \in SUBSET (1..n) : s # {} => Max(s) \in s
  BY Greatest
<1>4. f \in [SUBSET (1..n) -> B]
  BY <1>2 DEF IsPass
<1>5. ASSUME NEW s \in SUBSET (1..n), s # {}
      PROVE  f[s] = IF <<Max(s), f[s \ {Max(s)}]>> \in takes THEN rules[Max(s)] ELSE f[s \ {Max(s)}]
  <2>1. Max(s) \in 1..n /\ s \ {Max(s)} \in SUBSET (1..n) /\ f[s \ {Max(s)}] \in B
    BY <1>3, <1>4, <1>5
  <2>2. f[s] = step[<<f[s \ {Max(s)}], Max(s)>>]
    BY <1>2, <1>5 DEF IsPass
  <2> HIDE DEF B
  <2> QED
    BY <2>1, <2>2
<1>6. f[{}] = none
  BY <1>2 DEF IsPass
<1> QED
  BY <1>4, <1>5, <1>6 DEF IsKeeping

-----------------------------------------------------------------------------
(* The rules of a policy *)

Listed == [entry : Listable, app : Apps]

\* The rules that parseResource lists are rules of the policy.
LEMMA EntriesAreListed ==
  ASSUME NEW apps \in Seq(Apps), NEW kinds
  PROVE  Entries(apps, kinds) \in Seq(Listed)
<1> DEFINE B == Seq(Listed)
           Takes(b, e, app) == IF e.kind \in kinds THEN Append(b, [entry |-> e, app |-> app]) ELSE b
           Adds(b, app) == FoldLeft(LAMBDA found, e : IF e.kind \in kinds
                                      THEN Append(found, [entry |-> e, app |-> app]) ELSE found,
                                    b, app.entries)
<1>1. ASSUME NEW b \in B, NEW app \in Apps
      PROVE  Adds(b, app) \in B
  <2> DEFINE es == app.entries
             n  == Len(es)
             step == [x \in B \X (1..n) |-> Takes(x[1], es[x[2]], app)]
             fold == CHOOSE f : f = [s \in SUBSET DOMAIN es |->
                       IF s = {} THEN b
                       ELSE IF es[Max(s)].kind \in kinds
                            THEN Append(f[s \ {Max(s)}], [entry |-> es[Max(s)], app |-> app])
                            ELSE f[s \ {Max(s)}]]
  <2>1. es \in Seq(Listable) /\ n \in Nat /\ DOMAIN es = 1..n
    BY DEF Apps
  <2>2. Adds(b, app) = fold[DOMAIN es]
    BY DEF FoldLeft, MapThenFoldSet
  <2>3. ASSUME NEW x \in B, NEW k \in 1..n
        PROVE  Takes(x, es[k], app) \in B
    <3>1. es[k] \in Listable
      BY <2>1
    <3>2. [entry |-> es[k], app |-> app] \in Listed
      BY <3>1 DEF Listed
    <3> QED
      BY <3>2, AppendProperties
  <2>4. step \in [B \X (1..n) -> B]
    BY <2>3
  <2>5. PICK f : IsPass(f, n, B, b, step)
    <3> HIDE DEF step, n, B
    <3> QED
      BY <2>1, <2>4, PassExists
  <2>6. \A s \in SUBSET (1..n) : s # {} => Max(s) \in s
    BY <2>1, Greatest
  <2>7. f = [s \in SUBSET DOMAIN es |->
               IF s = {} THEN b
               ELSE IF es[Max(s)].kind \in kinds
                    THEN Append(f[s \ {Max(s)}], [entry |-> es[Max(s)], app |-> app])
                    ELSE f[s \ {Max(s)}]]
    <3>1. f \in [SUBSET (1..n) -> B]
      BY <2>5 DEF IsPass
    <3>2. ASSUME NEW s \in SUBSET (1..n), s # {}
          PROVE  f[s] = Takes(f[s \ {Max(s)}], es[Max(s)], app)
      <4>1. Max(s) \in 1..n /\ s \ {Max(s)} \in SUBSET (1..n) /\ f[s \ {Max(s)}] \in B
        BY <2>6, <3>1, <3>2
      <4>2. f[s] = step[<<f[s \ {Max(s)}], Max(s)>>]
        BY <2>5, <3>2 DEF IsPass
      <4> HIDE DEF B, Takes
      <4> QED
        BY <4>1, <4>2
    <3>3. f[{}] = b
      BY <2>5 DEF IsPass
    <3> HIDE DEF n
    <3> QED
      BY <2>1, <3>1, <3>2, <3>3
  <2>8. fold[DOMAIN es] \in B
    <3>1. fold = [s \in SUBSET DOMAIN es |->
               IF s = {} THEN b
               ELSE IF es[Max(s)].kind \in kinds
                    THEN Append(fold[s \ {Max(s)}], [entry |-> es[Max(s)], app |-> app])
                    ELSE fold[s \ {Max(s)}]]
      BY <2>7
    <3>2. fold[{}] = b
      BY <3>1
    <3>3. ASSUME NEW k \in 1..n
          PROVE  fold[1..k] = Takes(fold[1..(k - 1)], es[k], app)
      <4>1. /\ 1..k # {} /\ 1..k \in SUBSET DOMAIN es /\ Max(1..k) = k
            /\ (1..k) \ {k} = 1..(k - 1)
        BY <2>1, UpTo
      <4> HIDE DEF fold
      <4> QED
        BY <3>1, <4>1
    <3> HIDE DEF fold, Takes, B
    <3> DEFINE S == {k \in 0..n : fold[1..k] \in B}
    <3>4. 0 \in S
      BY <2>1, <3>2, UpTo
    <3>5. \A k \in 1..n : k - 1 \in S => k \in S
      <4> SUFFICES ASSUME NEW k \in 1..n, k - 1 \in S PROVE k \in S
        OBVIOUS
      <4>1. fold[1..k] \in B
        BY <2>3, <3>3
      <4>2. k \in 0..n
        BY <2>1
      <4> QED
        BY <4>1, <4>2
    <3>6. n \in S
      <4> HIDE DEF S, n
      <4>1. \A k \in 0..n : k \in S
        BY <2>1, <3>4, <3>5, AllNumbers
      <4> QED
        BY <2>1, <4>1
    <3> QED
      BY <2>1, <3>6
  <2> HIDE DEF B, fold
  <2> QED
    BY <2>2, <2>8
<1> DEFINE n  == Len(apps)
           step == [x \in B \X (1..n) |-> Adds(x[1], apps[x[2]])]
           fold == CHOOSE f : f = [s \in SUBSET DOMAIN apps |->
                     IF s = {} THEN <<>> ELSE Adds(f[s \ {Max(s)}], apps[Max(s)])]
<1>2. n \in Nat /\ DOMAIN apps = 1..n /\ \A k \in 1..n : apps[k] \in Apps
  OBVIOUS
<1>3. Entries(apps, kinds) = fold[DOMAIN apps]
  BY DEF Entries, FoldLeft, MapThenFoldSet
<1> HIDE DEF Adds
<1>4. <<>> \in B
  OBVIOUS
<1> HIDE DEF B
<1>5. step \in [B \X (1..n) -> B]
  BY <1>1, <1>2
<1>6. PICK f : IsPass(f, n, B, <<>>, step)
  <2> HIDE DEF step, n
  <2> QED
    BY <1>2, <1>4, <1>5, PassExists
<1>7. \A s \in SUBSET (1..n) : s # {} => Max(s) \in s
  BY <1>2, Greatest
<1>8. f = [s \in SUBSET DOMAIN apps |->
             IF s = {} THEN <<>> ELSE Adds(f[s \ {Max(s)}], apps[Max(s)])]
  <2>1. f \in [SUBSET (1..n) -> B]
    BY <1>6 DEF IsPass
  <2>2. ASSUME NEW s \in SUBSET (1..n), s # {}
        PROVE  f[s] = Adds(f[s \ {Max(s)}], apps[Max(s)])
    <3>1. Max(s) \in 1..n /\ s \ {Max(s)} \in SUBSET (1..n) /\ f[s \ {Max(s)}] \in B
      BY <1>7, <2>1, <2>2
    <3>2. f[s] = step[<<f[s \ {Max(s)}], Max(s)>>]
      BY <1>6, <2>2 DEF IsPass
    <3> QED
      BY <3>1, <3>2
  <2>3. f[{}] = <<>>
    BY <1>6 DEF IsPass
  <2> HIDE DEF n
  <2> QED
    BY <1>2, <2>1, <2>2, <2>3
<1>9. fold = [s \in SUBSET DOMAIN apps |->
                IF s = {} THEN <<>> ELSE Adds(fold[s \ {Max(s)}], apps[Max(s)])]
  BY <1>8
<1>10. fold[{}] = <<>>
  BY <1>9
<1>11. ASSUME NEW k \in 1..n
       PROVE  fold[1..k] = Adds(fold[1..(k - 1)], apps[k])
  <2>1. /\ 1..k # {} /\ 1..k \in SUBSET DOMAIN apps /\ Max(1..k) = k
        /\ (1..k) \ {k} = 1..(k - 1)
    BY <1>2, UpTo
  <2> HIDE DEF fold
  <2> QED
    BY <1>9, <2>1
<1> HIDE DEF fold
<1> DEFINE S == {k \in 0..n : fold[1..k] \in B}
<1>12. 0 \in S
  BY <1>2, <1>4, <1>10, UpTo
<1>13. \A k \in 1..n : k - 1 \in S => k \in S
  <2> SUFFICES ASSUME NEW k \in 1..n, k - 1 \in S PROVE k \in S
    OBVIOUS
  <2>1. fold[1..k] \in B
    BY <1>1, <1>2, <1>11
  <2>2. k \in 0..n
    BY <1>2
  <2> QED
    BY <2>1, <2>2
<1>14. n \in S
  <2> HIDE DEF S, n
  <2>1. \A k \in 0..n : k \in S
    BY <1>2, <1>12, <1>13, AllNumbers
  <2> QED
    BY <1>2, <2>1
<1> QED
  BY <1>2, <1>3, <1>14 DEF B

\* The domain rule the pass keeps is the one that Best names.
LEMMA DomainNamed ==
  ASSUME NEW n \in Nat, NEW rules, DOMAIN rules = 1..n, NEW name, NEW port, NEW protocol,
         \A k \in 1..n : rules[k] # NoRule /\ Width(rules[k]) \in Int,
         NEW applies, applies = {i \in 1..n : Admits(rules[i], port, protocol) /\ rules[i].name = name},
         NEW better, \A i, j \in 1..n :
           <<rules[i], rules[j]>> \in better <=> Width(rules[i]) < Width(rules[j])
  PROVE  IsNamed(MatchDomain(rules, name, port, protocol), rules, NoRule, Leading(rules, applies, better))
<1> DEFINE R == {rules[k] : k \in 1..n}
           Takes(k, b) == /\ rules[k].name = name /\ Admits(rules[k], port, protocol)
                          /\ b = NoRule \/ Width(rules[k]) < Width(b)
           takes == {x \in (1..n) \X ({NoRule} \cup R) : Takes(x[1], x[2])}
           fold == CHOOSE f : f = [s \in SUBSET DOMAIN rules |->
                     IF s = {} THEN NoRule
                     ELSE IF /\ rules[Max(s)].name = name /\ Admits(rules[Max(s)], port, protocol)
                             /\ \/ f[s \ {Max(s)}] = NoRule
                                \/ Width(rules[Max(s)]) < Width(f[s \ {Max(s)}])
                          THEN rules[Max(s)] ELSE f[s \ {Max(s)}]]
           kept == [k \in 0..n |-> fold[1..k]]
<1>1. MatchDomain(rules, name, port, protocol) = fold[DOMAIN rules]
  BY DEF MatchDomain, FoldLeft, MapThenFoldSet
<1>2. PICK f : IsKeeping(f, n, rules, NoRule, takes)
  <2> HIDE DEF takes
  <2> QED
    BY KeepingExists
<1>3. \A s \in SUBSET (1..n) : s # {} => Max(s) \in s
  BY Greatest
<1>4. ASSUME NEW s \in SUBSET (1..n), s # {}
      PROVE  f[s] = IF Takes(Max(s), f[s \ {Max(s)}]) THEN rules[Max(s)] ELSE f[s \ {Max(s)}]
  <2>1. Max(s) \in 1..n /\ s \ {Max(s)} \in SUBSET (1..n)
    BY <1>3, <1>4
  <2>2. f[s \ {Max(s)}] \in {NoRule} \cup R
    BY <1>2, <2>1 DEF IsKeeping
  <2>3. <<Max(s), f[s \ {Max(s)}]>> \in takes <=> Takes(Max(s), f[s \ {Max(s)}])
    <3> HIDE DEF Takes, R
    <3> QED
      BY <2>1, <2>2
  <2> HIDE DEF Takes, takes
  <2> QED
    BY <1>2, <1>4, <2>3 DEF IsKeeping
<1>5. fold = [s \in SUBSET DOMAIN rules |->
                IF s = {} THEN NoRule
                ELSE IF Takes(Max(s), fold[s \ {Max(s)}]) THEN rules[Max(s)] ELSE fold[s \ {Max(s)}]]
  <2>1. f = [s \in SUBSET DOMAIN rules |->
               IF s = {} THEN NoRule
               ELSE IF Takes(Max(s), f[s \ {Max(s)}]) THEN rules[Max(s)] ELSE f[s \ {Max(s)}]]
    <3> HIDE DEF Takes
    <3> QED
      BY <1>2, <1>4 DEF IsKeeping
  <2> QED
    BY <2>1
<1>6. fold[{}] = NoRule /\ \A k \in 1..n :
        fold[1..k] = IF Takes(k, fold[1..(k - 1)]) THEN rules[k] ELSE fold[1..(k - 1)]
  <2> HIDE DEF fold, Takes
  <2>1. \A s \in SUBSET (1..n) : fold[s] =
          IF s = {} THEN NoRule
          ELSE IF Takes(Max(s), fold[s \ {Max(s)}]) THEN rules[Max(s)] ELSE fold[s \ {Max(s)}]
    BY <1>5
  <2>2. {} \in SUBSET (1..n)
    OBVIOUS
  <2>3. fold[{}] = NoRule
    BY <2>1, <2>2
  <2>4. ASSUME NEW k \in 1..n
        PROVE  fold[1..k] = IF Takes(k, fold[1..(k - 1)]) THEN rules[k] ELSE fold[1..(k - 1)]
    <3>1. 1..k # {} /\ 1..k \in SUBSET (1..n) /\ Max(1..k) = k /\ (1..k) \ {k} = 1..(k - 1)
      BY UpTo
    <3> QED
      BY <2>1, <3>1
  <2> QED
    BY <2>3, <2>4
<1> HIDE DEF fold
<1>7. \A k \in 0..n : kept[k] \in {NoRule} \cup R
  <2> DEFINE S == {k \in 0..n : kept[k] \in {NoRule} \cup R}
  <2>1. 0 \in S
    BY <1>6, UpTo
  <2>2. \A k \in 1..n : k - 1 \in S => k \in S
    <3> SUFFICES ASSUME NEW k \in 1..n, k - 1 \in S PROVE k \in S
      OBVIOUS
    <3>1. fold[1..(k - 1)] \in {NoRule} \cup R /\ k \in 0..n
      OBVIOUS
    <3>2. fold[1..k] \in {NoRule} \cup R
      <4> HIDE DEF Takes
      <4> QED
        BY <1>6, <3>1
    <3> QED
      BY <3>1, <3>2
  <2> HIDE DEF S
  <2>3. \A k \in 0..n : k \in S
    BY <2>1, <2>2, AllNumbers
  <2> QED
    BY <2>3 DEF S
<1>8. kept[0] = NoRule
  BY <1>6, UpTo
<1>9. ASSUME NEW k \in 1..n
      PROVE  kept[k] = IF k \in applies /\ (kept[k - 1] = NoRule \/ <<rules[k], kept[k - 1]>> \in better)
                       THEN rules[k] ELSE kept[k - 1]
  <2>1. k - 1 \in 0..n /\ kept[k] = fold[1..k] /\ kept[k - 1] = fold[1..(k - 1)]
    OBVIOUS
  <2>2. kept[k - 1] = NoRule \/ kept[k - 1] \in R
    BY <1>7, <2>1
  <2>3. kept[k - 1] \in R =>
          (<<rules[k], kept[k - 1]>> \in better <=> Width(rules[k]) < Width(kept[k - 1]))
    <3> HIDE DEF kept
    <3> QED
      OBVIOUS
  <2>4. Takes(k, kept[k - 1]) <=>
          k \in applies /\ (kept[k - 1] = NoRule \/ <<rules[k], kept[k - 1]>> \in better)
    <3> HIDE DEF kept
    <3> QED
      BY <2>2, <2>3
  <2> HIDE DEF kept, Takes
  <2> QED
    BY <1>6, <2>1, <2>4
<1>10. IsKept(kept, n, rules, NoRule, applies, better)
  <2> HIDE DEF kept
  <2> QED
    BY <1>8, <1>9 DEF IsKept
<1>11. IsOrder(n, rules, NoRule, better)
  BY DEF IsOrder
<1>12. applies \in SUBSET (1..n) /\ kept[n] = fold[DOMAIN rules]
  OBVIOUS
<1> HIDE DEF kept
<1>13. IsNamed(kept[n], rules, NoRule, Leading(rules, applies, better))
  BY <1>10, <1>11, <1>12, PassKeepsTheBest
<1> QED
  BY <1>1, <1>12, <1>13

\* The wildcard rule the pass keeps is the one that Best names.
LEMMA SuffixNamed ==
  ASSUME NEW n \in Nat, NEW rules, DOMAIN rules = 1..n, NEW name, NEW port, NEW protocol,
         \A k \in 1..n : rules[k] # NoRule /\ Len(rules[k].name) \in Nat,
         NEW applies, applies = {i \in 1..n : Admits(rules[i], port, protocol) /\ IsStrictSuffix(rules[i].name, name)},
         NEW better, \A i, j \in 1..n :
           <<rules[i], rules[j]>> \in better <=> Len(rules[i].name) > Len(rules[j].name)
  PROVE  IsNamed(MatchSuffix(rules, name, port, protocol), rules, NoRule, Leading(rules, applies, better))
<1> DEFINE R == {rules[k] : k \in 1..n}
           Takes(k, b) == /\ IsStrictSuffix(rules[k].name, name) /\ Admits(rules[k], port, protocol)
                          /\ b = NoRule \/ Len(rules[k].name) > Len(b.name)
           takes == {x \in (1..n) \X ({NoRule} \cup R) : Takes(x[1], x[2])}
           fold == CHOOSE f : f = [s \in SUBSET DOMAIN rules |->
                     IF s = {} THEN NoRule
                     ELSE IF /\ IsStrictSuffix(rules[Max(s)].name, name) /\ Admits(rules[Max(s)], port, protocol)
                             /\ \/ f[s \ {Max(s)}] = NoRule
                                \/ Len(rules[Max(s)].name) > Len(f[s \ {Max(s)}].name)
                          THEN rules[Max(s)] ELSE f[s \ {Max(s)}]]
           kept == [k \in 0..n |-> fold[1..k]]
<1>1. MatchSuffix(rules, name, port, protocol) = fold[DOMAIN rules]
  BY DEF MatchSuffix, FoldLeft, MapThenFoldSet
<1>2. PICK f : IsKeeping(f, n, rules, NoRule, takes)
  <2> HIDE DEF takes
  <2> QED
    BY KeepingExists
<1>3. \A s \in SUBSET (1..n) : s # {} => Max(s) \in s
  BY Greatest
<1>4. ASSUME NEW s \in SUBSET (1..n), s # {}
      PROVE  f[s] = IF Takes(Max(s), f[s \ {Max(s)}]) THEN rules[Max(s)] ELSE f[s \ {Max(s)}]
  <2>1. Max(s) \in 1..n /\ s \ {Max(s)} \in SUBSET (1..n)
    BY <1>3, <1>4
  <2>2. f[s \ {Max(s)}] \in {NoRule} \cup R
    BY <1>2, <2>1 DEF IsKeeping
  <2>3. <<Max(s), f[s \ {Max(s)}]>> \in takes <=> Takes(Max(s), f[s \ {Max(s)}])
    <3> HIDE DEF Takes, R
    <3> QED
      BY <2>1, <2>2
  <2> HIDE DEF Takes, takes
  <2> QED
    BY <1>2, <1>4, <2>3 DEF IsKeeping
<1>5. fold = [s \in SUBSET DOMAIN rules |->
                IF s = {} THEN NoRule
                ELSE IF Takes(Max(s), fold[s \ {Max(s)}]) THEN rules[Max(s)] ELSE fold[s \ {Max(s)}]]
  <2>1. f = [s \in SUBSET DOMAIN rules |->
               IF s = {} THEN NoRule
               ELSE IF Takes(Max(s), f[s \ {Max(s)}]) THEN rules[Max(s)] ELSE f[s \ {Max(s)}]]
    <3> HIDE DEF Takes
    <3> QED
      BY <1>2, <1>4 DEF IsKeeping
  <2> QED
    BY <2>1
<1>6. fold[{}] = NoRule /\ \A k \in 1..n :
        fold[1..k] = IF Takes(k, fold[1..(k - 1)]) THEN rules[k] ELSE fold[1..(k - 1)]
  <2> HIDE DEF fold, Takes
  <2>1. \A s \in SUBSET (1..n) : fold[s] =
          IF s = {} THEN NoRule
          ELSE IF Takes(Max(s), fold[s \ {Max(s)}]) THEN rules[Max(s)] ELSE fold[s \ {Max(s)}]
    BY <1>5
  <2>2. {} \in SUBSET (1..n)
    OBVIOUS
  <2>3. fold[{}] = NoRule
    BY <2>1, <2>2
  <2>4. ASSUME NEW k \in 1..n
        PROVE  fold[1..k] = IF Takes(k, fold[1..(k - 1)]) THEN rules[k] ELSE fold[1..(k - 1)]
    <3>1. 1..k # {} /\ 1..k \in SUBSET (1..n) /\ Max(1..k) = k /\ (1..k) \ {k} = 1..(k - 1)
      BY UpTo
    <3> QED
      BY <2>1, <3>1
  <2> QED
    BY <2>3, <2>4
<1> HIDE DEF fold
<1>7. \A k \in 0..n : kept[k] \in {NoRule} \cup R
  <2> DEFINE S == {k \in 0..n : kept[k] \in {NoRule} \cup R}
  <2>1. 0 \in S
    BY <1>6, UpTo
  <2>2. \A k \in 1..n : k - 1 \in S => k \in S
    <3> SUFFICES ASSUME NEW k \in 1..n, k - 1 \in S PROVE k \in S
      OBVIOUS
    <3>1. fold[1..(k - 1)] \in {NoRule} \cup R /\ k \in 0..n
      OBVIOUS
    <3>2. fold[1..k] \in {NoRule} \cup R
      <4> HIDE DEF Takes
      <4> QED
        BY <1>6, <3>1
    <3> QED
      BY <3>1, <3>2
  <2> HIDE DEF S
  <2>3. \A k \in 0..n : k \in S
    BY <2>1, <2>2, AllNumbers
  <2> QED
    BY <2>3 DEF S
<1>8. kept[0] = NoRule
  BY <1>6, UpTo
<1>9. ASSUME NEW k \in 1..n
      PROVE  kept[k] = IF k \in applies /\ (kept[k - 1] = NoRule \/ <<rules[k], kept[k - 1]>> \in better)
                       THEN rules[k] ELSE kept[k - 1]
  <2>1. k - 1 \in 0..n /\ kept[k] = fold[1..k] /\ kept[k - 1] = fold[1..(k - 1)]
    OBVIOUS
  <2>2. kept[k - 1] = NoRule \/ kept[k - 1] \in R
    BY <1>7, <2>1
  <2>3. kept[k - 1] \in R =>
          (<<rules[k], kept[k - 1]>> \in better <=> Len(rules[k].name) > Len(kept[k - 1].name))
    <3> HIDE DEF kept
    <3> QED
      OBVIOUS
  <2>4. Takes(k, kept[k - 1]) <=>
          k \in applies /\ (kept[k - 1] = NoRule \/ <<rules[k], kept[k - 1]>> \in better)
    <3> HIDE DEF kept
    <3> QED
      BY <2>2, <2>3
  <2> HIDE DEF kept, Takes
  <2> QED
    BY <1>6, <2>1, <2>4
<1>10. IsKept(kept, n, rules, NoRule, applies, better)
  <2> HIDE DEF kept
  <2> QED
    BY <1>8, <1>9 DEF IsKept
<1>11. IsOrder(n, rules, NoRule, better)
  <2>1. \A i, j \in 1..n : <<rules[i], rules[j]>> \in better <=> Len(rules[i].name) > Len(rules[j].name)
    OBVIOUS
  <2>2. PICK len : len = [k \in 1..n |-> Len(rules[k].name)]
    OBVIOUS
  <2>3. len \in [1..n -> Nat] /\ \A k \in 1..n : rules[k] # NoRule
    BY <2>2
  <2>4. \A i, j \in 1..n : <<rules[i], rules[j]>> \in better <=> len[i] > len[j]
    BY <2>1, <2>2
  <2> HIDE DEF kept, Takes, takes, R
  <2> QED
    BY <2>3, <2>4 DEF IsOrder
<1>12. applies \in SUBSET (1..n) /\ kept[n] = fold[DOMAIN rules]
  OBVIOUS
<1> HIDE DEF kept
<1>13. IsNamed(kept[n], rules, NoRule, Leading(rules, applies, better))
  BY <1>10, <1>11, <1>12, PassKeepsTheBest
<1> QED
  BY <1>1, <1>12, <1>13

\* An exact address before a block, and of either the smaller.
Beats(r, s) == \/ r.exact /\ ~s.exact
               \/ r.exact = s.exact /\ Span(r) < Span(s)

LEMMA BeatsIsOrder ==
  ASSUME NEW r, NEW s, NEW t, r.exact \in BOOLEAN, s.exact \in BOOLEAN, t.exact \in BOOLEAN,
         Span(r) \in Nat, Span(s) \in Nat, Span(t) \in Nat
  PROVE  ~Beats(r, r) /\ (Beats(t, r) /\ ~Beats(s, r) => Beats(t, s) /\ ~Beats(s, t))
<1>1. /\ ~ (Span(r) < Span(r))
      /\ Span(t) < Span(r) /\ ~ (Span(s) < Span(r)) =>
           Span(t) < Span(s) /\ ~ (Span(s) < Span(t))
  OBVIOUS
<1>2. /\ r.exact = TRUE \/ r.exact = FALSE
      /\ s.exact = TRUE \/ s.exact = FALSE
      /\ t.exact = TRUE \/ t.exact = FALSE
  OBVIOUS
<1>3. ~Beats(r, r)
  BY <1>1, <1>2, Zenon DEF Beats
<1>4. ASSUME Beats(t, r), ~Beats(s, r)
      PROVE  Beats(t, s) /\ ~Beats(s, t)
  <2>1. CASE t.exact = TRUE /\ r.exact = FALSE
    <3>1. s.exact = FALSE
      BY <1>2, <1>4, <2>1, Zenon DEF Beats
    <3> QED
      BY <2>1, <3>1, Zenon DEF Beats
  <2>2. CASE t.exact = r.exact /\ s.exact = r.exact
    BY <1>1, <1>2, <1>4, <2>2, Zenon DEF Beats
  <2>3. CASE t.exact = r.exact /\ s.exact # r.exact
    <3>1. t.exact = TRUE /\ s.exact = FALSE
      BY <1>2, <1>4, <2>3, Zenon DEF Beats
    <3> QED
      BY <3>1, Zenon DEF Beats
  <2> QED
    BY <1>2, <1>4, <2>1, <2>2, <2>3, Zenon DEF Beats
<1> QED
  BY <1>3, <1>4

\* The address rule the pass keeps is the one that Best names.
LEMMA IPNamed ==
  ASSUME NEW n \in Nat, NEW rules, DOMAIN rules = 1..n, NEW ip, NEW port, NEW protocol,
         \A k \in 1..n : rules[k] # NoRule /\ rules[k].exact \in BOOLEAN /\ Span(rules[k]) \in Nat,
         NEW applies, applies = {i \in 1..n : Admits(rules[i], port, protocol) /\ ip \in rules[i].addrs},
         NEW better, \A i, j \in 1..n :
           <<rules[i], rules[j]>> \in better <=> Beats(rules[i], rules[j])
  PROVE  IsNamed(MatchIP(rules, ip, port, protocol), rules, NoRule, Leading(rules, applies, better))
<1> DEFINE R == {rules[k] : k \in 1..n}
           Takes(k, b) == /\ ip \in rules[k].addrs /\ Admits(rules[k], port, protocol)
                          /\ b = NoRule \/ Beats(rules[k], b)
           takes == {x \in (1..n) \X ({NoRule} \cup R) : Takes(x[1], x[2])}
           fold == CHOOSE f : f = [s \in SUBSET DOMAIN rules |->
                     IF s = {} THEN NoRule
                     ELSE IF /\ ip \in rules[Max(s)].addrs /\ Admits(rules[Max(s)], port, protocol)
                             /\ \/ f[s \ {Max(s)}] = NoRule
                                \/ rules[Max(s)].exact /\ ~f[s \ {Max(s)}].exact
                                \/ rules[Max(s)].exact = f[s \ {Max(s)}].exact /\ Span(rules[Max(s)]) < Span(f[s \ {Max(s)}])
                          THEN rules[Max(s)] ELSE f[s \ {Max(s)}]]
           kept == [k \in 0..n |-> fold[1..k]]
<1>1. MatchIP(rules, ip, port, protocol) = fold[DOMAIN rules]
  BY DEF MatchIP, FoldLeft, MapThenFoldSet
<1>2. PICK f : IsKeeping(f, n, rules, NoRule, takes)
  <2> HIDE DEF takes
  <2> QED
    BY KeepingExists
<1>3. \A s \in SUBSET (1..n) : s # {} => Max(s) \in s
  BY Greatest
<1>4. ASSUME NEW s \in SUBSET (1..n), s # {}
      PROVE  f[s] = IF Takes(Max(s), f[s \ {Max(s)}]) THEN rules[Max(s)] ELSE f[s \ {Max(s)}]
  <2>1. Max(s) \in 1..n /\ s \ {Max(s)} \in SUBSET (1..n)
    BY <1>3, <1>4
  <2>2. f[s \ {Max(s)}] \in {NoRule} \cup R
    BY <1>2, <2>1 DEF IsKeeping
  <2>3. <<Max(s), f[s \ {Max(s)}]>> \in takes <=> Takes(Max(s), f[s \ {Max(s)}])
    <3> HIDE DEF Takes, R
    <3> QED
      BY <2>1, <2>2
  <2> HIDE DEF Takes, takes
  <2> QED
    BY <1>2, <1>4, <2>3 DEF IsKeeping
<1>5. fold = [s \in SUBSET DOMAIN rules |->
                IF s = {} THEN NoRule
                ELSE IF Takes(Max(s), fold[s \ {Max(s)}]) THEN rules[Max(s)] ELSE fold[s \ {Max(s)}]]
  <2>1. f = [s \in SUBSET DOMAIN rules |->
               IF s = {} THEN NoRule
               ELSE IF Takes(Max(s), f[s \ {Max(s)}]) THEN rules[Max(s)] ELSE f[s \ {Max(s)}]]
    <3> HIDE DEF Takes
    <3> QED
      BY <1>2, <1>4 DEF IsKeeping
  <2> QED
    BY <2>1 DEF Beats
<1>6. fold[{}] = NoRule /\ \A k \in 1..n :
        fold[1..k] = IF Takes(k, fold[1..(k - 1)]) THEN rules[k] ELSE fold[1..(k - 1)]
  <2> HIDE DEF fold, Takes
  <2>1. \A s \in SUBSET (1..n) : fold[s] =
          IF s = {} THEN NoRule
          ELSE IF Takes(Max(s), fold[s \ {Max(s)}]) THEN rules[Max(s)] ELSE fold[s \ {Max(s)}]
    BY <1>5
  <2>2. {} \in SUBSET (1..n)
    OBVIOUS
  <2>3. fold[{}] = NoRule
    BY <2>1, <2>2
  <2>4. ASSUME NEW k \in 1..n
        PROVE  fold[1..k] = IF Takes(k, fold[1..(k - 1)]) THEN rules[k] ELSE fold[1..(k - 1)]
    <3>1. 1..k # {} /\ 1..k \in SUBSET (1..n) /\ Max(1..k) = k /\ (1..k) \ {k} = 1..(k - 1)
      BY UpTo
    <3> QED
      BY <2>1, <3>1
  <2> QED
    BY <2>3, <2>4
<1> HIDE DEF fold
<1>7. \A k \in 0..n : kept[k] \in {NoRule} \cup R
  <2> DEFINE S == {k \in 0..n : kept[k] \in {NoRule} \cup R}
  <2>1. 0 \in S
    BY <1>6, UpTo
  <2>2. \A k \in 1..n : k - 1 \in S => k \in S
    <3> SUFFICES ASSUME NEW k \in 1..n, k - 1 \in S PROVE k \in S
      OBVIOUS
    <3>1. fold[1..(k - 1)] \in {NoRule} \cup R /\ k \in 0..n
      OBVIOUS
    <3>2. fold[1..k] \in {NoRule} \cup R
      <4> HIDE DEF Takes
      <4> QED
        BY <1>6, <3>1
    <3> QED
      BY <3>1, <3>2
  <2> HIDE DEF S
  <2>3. \A k \in 0..n : k \in S
    BY <2>1, <2>2, AllNumbers
  <2> QED
    BY <2>3 DEF S
<1>8. kept[0] = NoRule
  BY <1>6, UpTo
<1>9. ASSUME NEW k \in 1..n
      PROVE  kept[k] = IF k \in applies /\ (kept[k - 1] = NoRule \/ <<rules[k], kept[k - 1]>> \in better)
                       THEN rules[k] ELSE kept[k - 1]
  <2>1. k - 1 \in 0..n /\ kept[k] = fold[1..k] /\ kept[k - 1] = fold[1..(k - 1)]
    OBVIOUS
  <2>2. kept[k - 1] = NoRule \/ kept[k - 1] \in R
    BY <1>7, <2>1
  <2>3. kept[k - 1] \in R =>
          (<<rules[k], kept[k - 1]>> \in better <=> Beats(rules[k], kept[k - 1]))
    <3> HIDE DEF kept
    <3> QED
      OBVIOUS
  <2>4. Takes(k, kept[k - 1]) <=>
          k \in applies /\ (kept[k - 1] = NoRule \/ <<rules[k], kept[k - 1]>> \in better)
    <3> HIDE DEF kept
    <3> QED
      BY <2>2, <2>3
  <2> HIDE DEF kept, Takes
  <2> QED
    BY <1>6, <2>1, <2>4
<1>10. IsKept(kept, n, rules, NoRule, applies, better)
  <2> HIDE DEF kept
  <2> QED
    BY <1>8, <1>9 DEF IsKept
<1>11. IsOrder(n, rules, NoRule, better)
  <2>1. ASSUME NEW i \in 1..n, NEW j \in 1..n, NEW k \in 1..n
        PROVE  /\ ~Beats(rules[i], rules[i])
               /\ Beats(rules[k], rules[i]) /\ ~Beats(rules[j], rules[i]) =>
                    Beats(rules[k], rules[j]) /\ ~Beats(rules[j], rules[k])
    BY BeatsIsOrder
  <2> QED
    BY <2>1 DEF IsOrder
<1>12. applies \in SUBSET (1..n) /\ kept[n] = fold[DOMAIN rules]
  OBVIOUS
<1> HIDE DEF kept
<1>13. IsNamed(kept[n], rules, NoRule, Leading(rules, applies, better))
  BY <1>10, <1>11, <1>12, PassKeepsTheBest
<1> QED
  BY <1>1, <1>12, <1>13

\* Every rule of a policy can be compared.
LEMMA RulesAre ==
  ASSUME NEW apps \in Seq(Apps), NEW mapping
  PROVE  /\ \E n \in Nat : /\ DOMAIN DomainRules(apps, mapping) = 1..n
                           /\ \A k \in 1..n : /\ DomainRules(apps, mapping)[k] # NoRule
                                              /\ Width(DomainRules(apps, mapping)[k]) \in Int
         /\ \E n \in Nat : /\ DOMAIN SuffixRules(apps) = 1..n
                           /\ \A k \in 1..n : /\ SuffixRules(apps)[k] # NoRule
                                              /\ Len(SuffixRules(apps)[k].name) \in Nat
         /\ \E n \in Nat : /\ DOMAIN IPRules(apps) = 1..n
                           /\ \A k \in 1..n : /\ IPRules(apps)[k] # NoRule
                                              /\ IPRules(apps)[k].exact \in BOOLEAN
                                              /\ Span(IPRules(apps)[k]) \in Nat
<1>1. ASSUME NEW kinds
      PROVE  /\ Len(Entries(apps, kinds)) \in Nat
             /\ DOMAIN Entries(apps, kinds) = 1..Len(Entries(apps, kinds))
             /\ \A k \in 1..Len(Entries(apps, kinds)) : Entries(apps, kinds)[k] \in Listed
  <2>1. Entries(apps, kinds) \in Seq(Listed)
    BY EntriesAreListed
  <2> QED
    BY <2>1, ElementOfSeq, LenProperties
<1>2. ASSUME NEW x \in Listed
      PROVE  /\ x.entry.ports.min \in Nat /\ x.entry.ports.max \in Nat
             /\ Len(x.entry.name) \in Nat /\ Cardinality(x.entry.addrs) \in Nat
  <2>1. x.entry \in Listable
    BY DEF Listed
  <2>2. x.entry.name \in Seq(STRING) /\ IsFiniteSet(x.entry.addrs) /\ x.entry.ports \in [min : Nat, max : Nat]
    BY <2>1 DEF Listable
  <2> QED
    BY <2>2, FS_CardinalityType, LenProperties
<1>3. \A a, b, c, d : [app |-> a, name |-> b, ports |-> c, proto |-> d] # NoRule
  BY DEF NoRule
<1>4. \A a, b, c, d, e : [app |-> a, name |-> b, ip |-> c, ports |-> d, proto |-> e] # NoRule
  BY DEF NoRule
<1>5. \A a, b, c, d, e : [app |-> a, exact |-> b, addrs |-> c, ports |-> d, proto |-> e] # NoRule
  BY DEF NoRule
<1>6. \E n \in Nat : /\ DOMAIN DomainRules(apps, mapping) = 1..n
                     /\ \A k \in 1..n : /\ DomainRules(apps, mapping)[k] # NoRule
                                        /\ Width(DomainRules(apps, mapping)[k]) \in Int
  <2> DEFINE found == Entries(apps, {"domain"})
  <2>1. Len(found) \in Nat /\ DOMAIN found = 1..Len(found) /\ \A k \in 1..Len(found) : found[k] \in Listed
    BY <1>1
  <2>2. DomainRules(apps, mapping) =
          [i \in DOMAIN found |->
             [app |-> found[i].app.id, name |-> found[i].entry.name,
              ip |-> IF mapping THEN FirstIP(found[i].app) ELSE Unknown,
              ports |-> found[i].entry.ports, proto |-> found[i].entry.proto]]
    BY DEF DomainRules
  <2> HIDE DEF found
  <2>3. ASSUME NEW k \in 1..Len(found)
        PROVE  /\ DomainRules(apps, mapping)[k] # NoRule
               /\ DomainRules(apps, mapping)[k].ports = found[k].entry.ports
    BY <1>4, <2>1, <2>2
  <2>4. ASSUME NEW k \in 1..Len(found)
        PROVE  Width(DomainRules(apps, mapping)[k]) \in Int
    <3>1. /\ DomainRules(apps, mapping)[k].ports.max \in Nat
          /\ DomainRules(apps, mapping)[k].ports.min \in Nat
      BY <1>2, <2>1, <2>3
    <3>2. \A a, b \in Nat : a - b \in Int
      OBVIOUS
    <3> QED
      BY <3>1, <3>2 DEF Width
  <2> QED
    BY <2>1, <2>2, <2>3, <2>4
<1>7. \E n \in Nat : /\ DOMAIN SuffixRules(apps) = 1..n
                     /\ \A k \in 1..n : /\ SuffixRules(apps)[k] # NoRule
                                        /\ Len(SuffixRules(apps)[k].name) \in Nat
  <2> DEFINE found == Entries(apps, {"wildcard"})
  <2>1. Len(found) \in Nat /\ DOMAIN found = 1..Len(found) /\ \A k \in 1..Len(found) : found[k] \in Listed
    BY <1>1
  <2>2. SuffixRules(apps) =
          [i \in DOMAIN found |->
             [app |-> found[i].app.id, name |-> found[i].entry.name,
              ports |-> found[i].entry.ports, proto |-> found[i].entry.proto]]
    BY DEF SuffixRules
  <2> HIDE DEF found
  <2>3. ASSUME NEW k \in 1..Len(found)
        PROVE  SuffixRules(apps)[k] # NoRule /\ SuffixRules(apps)[k].name = found[k].entry.name
    BY <1>3, <2>1, <2>2
  <2> QED
    BY <1>2, <2>1, <2>2, <2>3
<1>8. \E n \in Nat : /\ DOMAIN IPRules(apps) = 1..n
                     /\ \A k \in 1..n : /\ IPRules(apps)[k] # NoRule
                                        /\ IPRules(apps)[k].exact \in BOOLEAN
                                        /\ Span(IPRules(apps)[k]) \in Nat
  <2> DEFINE found == Entries(apps, {"address", "block"})
  <2>1. Len(found) \in Nat /\ DOMAIN found = 1..Len(found) /\ \A k \in 1..Len(found) : found[k] \in Listed
    BY <1>1
  <2>2. IPRules(apps) =
          [i \in DOMAIN found |->
             [app |-> found[i].app.id, exact |-> found[i].entry.kind = "address",
              addrs |-> found[i].entry.addrs, ports |-> found[i].entry.ports,
              proto |-> found[i].entry.proto]]
    BY DEF IPRules
  <2> HIDE DEF found
  <2>3. ASSUME NEW k \in 1..Len(found)
        PROVE  /\ IPRules(apps)[k] # NoRule /\ IPRules(apps)[k].addrs = found[k].entry.addrs
               /\ IPRules(apps)[k].exact \in BOOLEAN
    <3>1. IPRules(apps)[k] = [app |-> found[k].app.id, exact |-> found[k].entry.kind = "address",
                              addrs |-> found[k].entry.addrs, ports |-> found[k].entry.ports,
                              proto |-> found[k].entry.proto]
      BY <2>1, <2>2
    <3>2. ASSUME NEW x \in BOOLEAN, x = (found[k].entry.kind = "address")
          PROVE  IPRules(apps)[k].exact \in BOOLEAN
      <4>1. IPRules(apps)[k] = [app |-> found[k].app.id, exact |-> x,
                                addrs |-> found[k].entry.addrs, ports |-> found[k].entry.ports,
                                proto |-> found[k].entry.proto]
        BY <3>1, <3>2
      <4>2. IPRules(apps)[k].exact = x
        BY <4>1
      <4> QED
        BY <4>2
    <3>3. IPRules(apps)[k].exact \in BOOLEAN
      BY <3>2
    <3> QED
      BY <1>5, <3>1, <3>3
  <2> QED
    BY <1>2, <2>1, <2>2, <2>3 DEF Span
<1> QED
  BY <1>6, <1>7, <1>8

\* What resolve makes of a request is authorised by the application that the
\* policy names for it.
LEMMA ResolvedAsNamed ==
  ASSUME NEW cred, cred.policy.apps \in Seq(Apps), NEW request, NEW answer,
         Resolution(cred, request, answer, "tcp").app # NoApp
  PROVE  Resolution(cred, request, answer, "tcp").app =
           AppOf(cred, request, Resolution(cred, request, answer, "tcp").ip)
<1> DEFINE port    == request.port
           ip      == Resolution(cred, request, answer, "tcp").ip
           domains == DomainRules(cred.policy.apps, cred.mapping)
           ips     == IPRules(cred.policy.apps)
           names   == SuffixRules(cred.policy.apps)
           D == {i \in DOMAIN domains :
                  /\ Admits(domains[i], port, "tcp") /\ domains[i].name = request.host.name
                  /\ \A j \in DOMAIN domains :
                       Admits(domains[j], port, "tcp") /\ domains[j].name = request.host.name =>
                         /\ ~ (Width(domains[j]) < Width(domains[i]))
                         /\ j < i => Width(domains[i]) < Width(domains[j])}
           A(x) == {i \in DOMAIN ips :
                  /\ Admits(ips[i], port, "tcp") /\ x \in ips[i].addrs
                  /\ \A j \in DOMAIN ips :
                       Admits(ips[j], port, "tcp") /\ x \in ips[j].addrs =>
                         ~Beats(ips[j], ips[i]) /\ (j < i => Beats(ips[i], ips[j]))}
           S == {i \in DOMAIN names :
                  /\ Admits(names[i], port, "tcp") /\ IsStrictSuffix(names[i].name, request.host.name)
                  /\ \A j \in DOMAIN names :
                       Admits(names[j], port, "tcp") /\ IsStrictSuffix(names[j].name, request.host.name) =>
                         /\ ~ (Len(names[j].name) > Len(names[i].name))
                         /\ j < i => Len(names[i].name) > Len(names[j].name)}
<1>1. IsNamed(MatchDomain(domains, request.host.name, port, "tcp"), domains, NoRule, D)
  <2>1. PICK n \in Nat : /\ DOMAIN domains = 1..n
                         /\ \A k \in 1..n : domains[k] # NoRule /\ Width(domains[k]) \in Int
    BY RulesAre
  <2> HIDE DEF domains
  <2> DEFINE R == {domains[k] : k \in 1..n}
             better  == {x \in R \X R : Width(x[1]) < Width(x[2])}
             applies == {i \in 1..n : Admits(domains[i], port, "tcp") /\ domains[i].name = request.host.name}
  <2>2. \A i, j \in 1..n : <<domains[i], domains[j]>> \in better <=> Width(domains[i]) < Width(domains[j])
    OBVIOUS
  <2> HIDE DEF better
  <2>3. IsNamed(MatchDomain(domains, request.host.name, port, "tcp"), domains, NoRule, Leading(domains, applies, better))
    BY <2>1, <2>2, DomainNamed
  <2>4. D = Leading(domains, applies, better)
    BY <2>1, <2>2 DEF Leading
  <2> QED
    BY <2>3, <2>4
<1>2. IsNamed(MatchSuffix(names, request.host.name, port, "tcp"), names, NoRule, S)
  <2>1. PICK n \in Nat : /\ DOMAIN names = 1..n
                         /\ \A k \in 1..n : names[k] # NoRule /\ Len(names[k].name) \in Nat
    BY RulesAre
  <2> HIDE DEF names
  <2> DEFINE R == {names[k] : k \in 1..n}
             better  == {x \in R \X R : Len(x[1].name) > Len(x[2].name)}
             applies == {i \in 1..n : /\ Admits(names[i], port, "tcp")
                                      /\ IsStrictSuffix(names[i].name, request.host.name)}
  <2>2. \A i, j \in 1..n : <<names[i], names[j]>> \in better <=> Len(names[i].name) > Len(names[j].name)
    OBVIOUS
  <2> HIDE DEF better
  <2>3. IsNamed(MatchSuffix(names, request.host.name, port, "tcp"), names, NoRule, Leading(names, applies, better))
    BY <2>1, <2>2, SuffixNamed
  <2>4. S = Leading(names, applies, better)
    BY <2>1, <2>2 DEF Leading
  <2> QED
    BY <2>3, <2>4
<1>3. ASSUME NEW x
      PROVE  IsNamed(MatchIP(ips, x, port, "tcp"), ips, NoRule, A(x))
  <2>1. PICK n \in Nat : /\ DOMAIN ips = 1..n
                         /\ \A k \in 1..n : /\ ips[k] # NoRule /\ ips[k].exact \in BOOLEAN
                                            /\ Span(ips[k]) \in Nat
    BY RulesAre
  <2> HIDE DEF ips
  <2> DEFINE R == {ips[k] : k \in 1..n}
             better  == {y \in R \X R : Beats(y[1], y[2])}
             applies == {i \in 1..n : Admits(ips[i], port, "tcp") /\ x \in ips[i].addrs}
  <2>2. \A i, j \in 1..n : <<ips[i], ips[j]>> \in better <=> Beats(ips[i], ips[j])
    OBVIOUS
  <2> HIDE DEF better
  <2>3. IsNamed(MatchIP(ips, x, port, "tcp"), ips, NoRule, Leading(ips, applies, better))
    BY <2>1, <2>2, IPNamed
  <2>4. A(x) = Leading(ips, applies, better)
    BY <2>1, <2>2 DEF Leading
  <2> QED
    BY <2>3, <2>4
<1>4. ASSUME NEW x
      PROVE  AppOf(cred, request, x) =
               IF ~IsLiteral(request.host) /\ D # {} THEN domains[CHOOSE i \in D : TRUE].app
               ELSE IF A(x) # {} THEN ips[CHOOSE i \in A(x) : TRUE].app
               ELSE IF ~IsLiteral(request.host) /\ S # {} THEN names[CHOOSE i \in S : TRUE].app
               ELSE cred.app
  <2> DEFINE In(r) == r.proto \in {"", "all", "tcp"} /\ InRange(r.ports, request.port)
             D0 == IF IsLiteral(request.host) THEN {} ELSE
               {i \in DOMAIN domains :
                  /\ In(domains[i]) /\ domains[i].name = request.host.name
                  /\ \A j \in DOMAIN domains :
                       In(domains[j]) /\ domains[j].name = request.host.name =>
                         /\ ~ (Width(domains[j]) < Width(domains[i]))
                         /\ j < i => Width(domains[i]) < Width(domains[j])}
             A0 == {i \in DOMAIN ips :
                  /\ In(ips[i]) /\ x \in ips[i].addrs
                  /\ \A j \in DOMAIN ips :
                       In(ips[j]) /\ x \in ips[j].addrs =>
                         /\ ~ (\/ ips[j].exact /\ ~ips[i].exact
                               \/ ips[j].exact = ips[i].exact /\ Span(ips[j]) < Span(ips[i]))
                         /\ j < i => \/ ips[i].exact /\ ~ips[j].exact
                                     \/ ips[i].exact = ips[j].exact /\ Span(ips[i]) < Span(ips[j])}
             S0 == IF IsLiteral(request.host) THEN {} ELSE
               {i \in DOMAIN names :
                  /\ In(names[i]) /\ IsStrictSuffix(names[i].name, request.host.name)
                  /\ \A j \in DOMAIN names :
                       In(names[j]) /\ IsStrictSuffix(names[j].name, request.host.name) =>
                         /\ ~ (Len(names[j].name) > Len(names[i].name))
                         /\ j < i => Len(names[i].name) > Len(names[j].name)}
  <2>1. AppOf(cred, request, x) = IF D0 # {} THEN domains[CHOOSE i \in D0 : TRUE].app
                                  ELSE IF A0 # {} THEN ips[CHOOSE i \in A0 : TRUE].app
                                  ELSE IF S0 # {} THEN names[CHOOSE i \in S0 : TRUE].app
                                  ELSE cred.app
    BY DEF AppOf, Best
  <2>7. \A r : In(r) <=> Admits(r, request.port, "tcp")
    BY DEF Admits, ProtocolCompatible
  <2> HIDE DEF In
  <2>2. D0 = IF IsLiteral(request.host) THEN {} ELSE D
    BY <2>7
  <2>3. S0 = IF IsLiteral(request.host) THEN {} ELSE S
    BY <2>7
  <2>4. A0 = A(x)
    BY <2>7 DEF Beats
  <2> HIDE DEF D0, A0, S0, D, A, S, domains, ips, names
  <2>5. CASE ~IsLiteral(request.host)
    BY <2>1, <2>2, <2>3, <2>4, <2>5
  <2>6. CASE IsLiteral(request.host)
    BY <2>1, <2>2, <2>3, <2>4, <2>6
  <2> QED
    BY <2>5, <2>6
<1> HIDE DEF D, A, S, domains, ips, names
<1> DEFINE domain == MatchDomain(domains, request.host.name, port, "tcp")
           byIP   == MatchIP(ips, answer, port, "tcp")
           suffix == MatchSuffix(names, request.host.name, port, "tcp")
           r      == Resolution(cred, request, answer, "tcp")
<1>5. CASE IsLiteral(request.host)
  <2>1. /\ r.ip = request.host.ip
        /\ r.app = AppIDFor(cred.policy.apps, request.host.ip, port, cred.app, "tcp")
    BY <1>5 DEF Resolution, Refused
  <2> QED
    BY <1>3, <1>4, <1>5, <2>1 DEF AppIDFor, IsNamed, ips
<1>6. CASE ~IsLiteral(request.host) /\ domain # NoRule
  <2>1. r.app = domain.app
    BY <1>6 DEF Resolution, Refused, domains
  <2> QED
    BY <1>1, <1>4, <1>6, <2>1 DEF IsNamed
<1>7. CASE ~IsLiteral(request.host) /\ domain = NoRule /\ byIP # NoRule
  <2>1. r.ip = answer /\ r.app = byIP.app
    BY <1>7 DEF Resolution, Refused, domains, ips
  <2> QED
    BY <1>1, <1>3, <1>4, <1>7, <2>1 DEF IsNamed
<1>8. CASE ~IsLiteral(request.host) /\ domain = NoRule /\ byIP = NoRule /\ suffix # NoRule
  <2>1. r.ip = answer /\ r.app = suffix.app
    BY <1>8 DEF Resolution, Refused, domains, ips, names
  <2> QED
    BY <1>1, <1>2, <1>3, <1>4, <1>8, <2>1 DEF IsNamed
<1>9. CASE ~IsLiteral(request.host) /\ domain = NoRule /\ byIP = NoRule /\ suffix = NoRule
  <2>1. r.ip = answer /\ r.app = cred.app
    BY <1>9 DEF Resolution, Refused, domains, ips, names
  <2> QED
    BY <1>1, <1>2, <1>3, <1>4, <1>9, <2>1 DEF IsNamed
<1> QED
  BY <1>5, <1>6, <1>7, <1>8, <1>9

-----------------------------------------------------------------------------
(* The inductive invariant of the flows *)

Readers == {"none", "read", "remove", "close", "close table", "over"}
Points  == {"read", "look", "dial", "enter", "write", "remove", "close", "close table", "over"}

Flow   == [target : Targets, open : BOOLEAN, reader : Readers]
Table  == [flows : SUBSET Nat, cancelled : BOOLEAN, closed : BOOLEAN,
           once : {"no", "begun", "done"}, doomed : SUBSET Nat]
Sender == [pc : Points, target : Targets \cup {"none"}, flow : Nat, attempt : Nat]

FlowsTypes ==
  /\ flows \in Seq(Flow) /\ Len(flows) <= MaxDials
  /\ table \in Table /\ sender \in Sender /\ socket \in BOOLEAN
  /\ table.flows \subseteq DOMAIN flows /\ table.doomed \subseteq DOMAIN flows
  /\ sender.pc \in {"enter", "write", "remove", "close"} => sender.flow \in DOMAIN flows
  /\ sender.pc \notin {"read", "close table", "over"} => sender.target \in Targets

\* The table holds one flow per target, each with a goroutine that reads it.
EntriesInv ==
  /\ Cardinality(table.flows) <= MaxFlows
  /\ \A f, g \in table.flows : flows[f].target = flows[g].target => f = g
  /\ \A f \in table.flows : flows[f].reader \notin {"none", "close", "over"}

\* While the sender dials, no flow to its target comes into the table.
SenderInv ==
  /\ sender.pc \in {"dial", "enter"} =>
       \A f \in table.flows : flows[f].target # sender.target
  /\ sender.pc = "enter" =>
       flows[sender.flow].target = sender.target /\ flows[sender.flow].reader = "none"

\* Close empties the table, and is done when the flows it held are closed.
TableInv ==
  /\ table.closed <=> table.once # "no"
  /\ table.closed => table.flows = {}
  /\ table.once \in {"no", "done"} => table.doomed = {}

OpenInv ==
  \A f \in DOMAIN flows : flows[f].open =>
    \/ f \in table.flows \cup table.doomed
    \/ sender.flow = f /\ sender.pc \in {"enter", "close"}
    \/ flows[f].reader = "close"

FlowsInv == FlowsTypes /\ EntriesInv /\ SenderInv /\ TableInv /\ OpenInv

-----------------------------------------------------------------------------
(* The inductive invariant of the relay *)

SideRec == [read : Nat, end : {"open", "fin", "reset", "bad"}, stalled : BOOLEAN, closed : BOOLEAN]
Copy    == [up : {"read", "write", "writing", "fin", "finning", "ok", "err"},
            down : {"read", "write", "fin", "ok", "err"}]
Conn    == [lock : {"free", "up", "close"}, closed : BOOLEAN, failed : BOOLEAN,
            once : {"no", "frame", "done"}]
Timer   == [age : 0..2, activity : BOOLEAN, quiet : 0..2]

RelayTypes ==
  /\ client \in SideRec /\ gate \in SideRec
  /\ client.read <= MaxChunks /\ gate.read <= MaxChunks
  /\ wire \in Seq({"data", "close", "part"})
  /\ copy \in Copy /\ conn \in Conn /\ timer \in Timer /\ ended \in BOOLEAN
  /\ main \in {"first", "idle", "close a", "close b", "wait", "end"}

\* Who writes holds writeMu; Close takes it only where nobody does.
LockInv ==
  /\ conn.lock = "up" <=> copy.up \in {"writing", "finning"}
  /\ conn.lock = "close" <=> conn.once = "frame"
  /\ conn.lock = "close" \/ copy.up = "finning" => conn.closed
  /\ conn.closed /\ conn.once = "no" /\ ~conn.failed => copy.up \in {"finning", "ok"}
  /\ conn.once = "done" => gate.closed
  /\ main \in {"wait", "end"} => conn.once = "done"
  /\ main = "end" => Done("up")

\* Only the last frame of n may be other than data; while more may follow it is
\* data too.
WireInv(n) ==
  /\ \A i \in 1..n : i < n => wire[i] = "data"
  /\ copy.up = "writing" => n > 0
  /\ ~conn.closed /\ copy.up # "writing" => \A i \in 1..n : wire[i] = "data"
  /\ copy.up = "finning" \/ conn.lock = "close" => \A i \in 1..n : wire[i] = "data"

\* Until the stream is closed, the chunks that were read are on the wire.
CountInv(n) ==
  conn.once = "no" =>
    /\ copy.up \in {"read", "fin", "finning", "writing"} => n = client.read
    /\ copy.up = "write" => n + 1 = client.read
    /\ copy.up = "ok" /\ ~conn.failed =>
         n = client.read + 1 /\ wire[n] = "close" /\ conn.closed

\* The timer has not run for longer than nothing has been read.
TimerInv ==
  main = "idle" => /\ timer.age = 2 => timer.quiet = 2
                   /\ ~timer.activity => timer.age <= timer.quiet

RelayInv ==
  RelayTypes /\ LockInv /\ WireInv(Len(wire)) /\ CountInv(Len(wire)) /\ TimerInv

-----------------------------------------------------------------------------
(* The inductive invariant of the dial *)

DialPoints == {"none", "resolve", "resolved", "direct", "l3", "direct stream", "L3 stream", "refused"}

\* What the target and the lines of a resolved dial must be, short of which
\* application it is for: not what DialAuthorised says of gateways, and over the
\* application's own group.
OffGateways(cred, request, target) ==
  \A g \in cred.gateways : g.port = request.port =>
    /\ g.host # request.host
    /\ ~IsLiteral(request.host) => g.host.ip # target.ip

OwnLines(cred, target, lines) ==
  LET group == GatewayGroupForApp(cred.policy, target.app)
  IN  ~cred.legacyOverride /\ ~cred.missingGroupFallback /\ group # "none" =>
        lines \subseteq (IF group \in DOMAIN cred.policy.groups
                        THEN cred.policy.groups[group] ELSE {})

\* The credential of a request is one of a session.
Asked == dial.pc = "resolve" => input.cred \in Creds

AppNamed ==
  dial.pc = "resolved" => dial.target.app = AppOf(input.cred, input.request, dial.target.ip)

LinesAuthorised ==
  dial.pc = "resolved" =>
    /\ OffGateways(input.cred, input.request, dial.target)
    /\ OwnLines(input.cred, dial.target, dial.lines)

\* What was said definitively of the target has ended the dial.
DialShape ==
  /\ dial = [pc |-> dial.pc, target |-> dial.target, lines |-> dial.lines,
             preferL3 |-> dial.preferL3, fallback |-> dial.fallback,
             left |-> dial.left, last |-> dial.last]
  /\ dial.pc \in DialPoints
  /\ dial.last \in {"auth", "denied", "refused"} => dial.pc = "refused"

DialInv == DialShape /\ Asked /\ AppNamed /\ LinesAuthorised

-----------------------------------------------------------------------------
(* The inductive invariant of the server *)

Runs     == {"serve", "join", "close", "wait", "returned"}
Handlers == {"none", "handshake", "dial", "relay", "udp", "over"}

\* No connection is accepted once Run has joined the accept loop; the handler
\* that is left when it has closed the connections has lost its own, and Run
\* returns after it.
StopInv ==
  /\ run \in Runs /\ accept \in {"accept", "track", "done"} /\ handler \in Handlers
  /\ run \in {"close", "wait", "returned"} => accept = "done"
  /\ handler \notin {"none", "over"} => "client" \in tracked
  /\ handler = "udp" => "socket" \in tracked
  /\ run \in {"wait", "returned"} /\ handler \notin {"none", "over"} => client.closed
  /\ run \in {"wait", "returned"} /\ handler = "udp" => ~socket
  /\ run = "returned" => handler \in {"none", "over"}

ServerInv == FlowsInv /\ RelayInv /\ DialInv /\ StopInv

-----------------------------------------------------------------------------
(* The flows *)

LEMMA FlowsAre ==
  ASSUME FlowsTypes
  PROVE  /\ Len(flows) \in Nat /\ DOMAIN flows = 1 .. Len(flows)
         /\ flows \in Seq(Flow) /\ \A f \in DOMAIN flows : flows[f] \in Flow
         /\ table \in Table /\ sender \in Sender
  BY LenProperties, ElementOfSeq DEF FlowsTypes

LEMMA FlowChanges ==
  ASSUME FlowsTypes, NEW f \in DOMAIN flows, NEW F \in Flow, flows' = [flows EXCEPT ![f] = F]
  PROVE  /\ flows' \in Seq(Flow) /\ Len(flows') = Len(flows) /\ DOMAIN flows' = DOMAIN flows
         /\ flows'[f] = F /\ \A g \in DOMAIN flows \ {f} : flows'[g] = flows[g]
<1>1. flows \in Seq(Flow) /\ DOMAIN flows = 1 .. Len(flows) /\ Len(flows) \in Nat
  BY FlowsAre
<1> QED
  BY <1>1, ExceptSeq, LenProperties

\* The sender goes on, with no flow that it alone keeps.
LEMMA SenderMoves ==
  ASSUME FlowsInv, UNCHANGED <<flows, table>>, socket' \in BOOLEAN,
         NEW S \in Sender, sender' = S,
         sender.pc \notin {"enter", "close"}, S.pc # "enter",
         S.pc \in {"write", "remove", "close"} => S.flow \in DOMAIN flows,
         S.pc \notin {"read", "close table", "over"} => S.target \in Targets,
         S.pc = "dial" => \A f \in table.flows : flows[f].target # S.target
  PROVE  FlowsInv'
<1> USE DEF FlowsInv
<1>0. flows' = flows /\ table' = table
  OBVIOUS
<1>1. FlowsTypes'
  BY <1>0 DEF FlowsTypes
<1>2. EntriesInv' /\ TableInv'
  BY <1>0 DEF EntriesInv, TableInv
<1>3. SenderInv'
  BY <1>0 DEF SenderInv
<1>4. OpenInv'
  BY <1>0 DEF OpenInv
<1> QED
  BY <1>1, <1>2, <1>3, <1>4

LEMMA SenderSteps ==
  ASSUME FlowsInv, Receives \/ Finds \/ Writes \/ Leaves
  PROVE  FlowsInv'
<1> USE DEF FlowsInv
<1>1. /\ table \in Table /\ sender \in Sender /\ socket \in BOOLEAN
      /\ table.flows \subseteq DOMAIN flows /\ Idle \in Sender /\ Idle.pc = "read"
      /\ sender.pc \in Points /\ sender.target \in Targets \cup {"none"} /\ sender.flow \in Nat
      /\ sender.attempt \in Nat
      /\ sender.pc \in {"enter", "write", "remove", "close"} => sender.flow \in DOMAIN flows
      /\ sender.pc \notin {"read", "close table", "over"} => sender.target \in Targets
  BY DEF FlowsTypes, Idle, Sender, Points
<1> HIDE DEF FlowsInv
<1>2. CASE Receives
  <2>1. PICK S : S = sender'
    OBVIOUS
  <2>2. sender.pc = "read" /\ UNCHANGED <<flows, table, socket>>
    BY <1>2 DEF Receives
  <2>3. /\ S \in Sender
        /\ S.pc = "close table" \/ (S.pc = "look" /\ S.target \in Targets)
    <3>1. CASE \E t \in Targets : S = [pc |-> "look", target |-> t, flow |-> 0, attempt |-> 0]
      <4>1. PICK t \in Targets : S = [pc |-> "look", target |-> t, flow |-> 0, attempt |-> 0]
        BY <3>1
      <4> QED
        BY <4>1 DEF Sender, Points
    <3>2. CASE S = [sender EXCEPT !.pc = "close table"]
      BY <1>1, <3>2 DEF Sender, Points
    <3> QED
      BY <1>2, <2>1, <3>1, <3>2 DEF Receives
  <2> QED
    BY <1>1, <2>1, <2>2, <2>3, SenderMoves
<1>3. CASE Finds
  <2>1. PICK S : S = sender'
    OBVIOUS
  <2>2. sender.pc = "look" /\ UNCHANGED <<flows, table, socket>>
    BY <1>3 DEF Finds
  <2>3. CASE S = Idle
    BY <1>1, <2>1, <2>2, <2>3, SenderMoves
  <2>4. CASE S = [sender EXCEPT !.pc = "dial"] /\ For(sender.target) = {}
    <3>1. S \in Sender /\ S.pc = "dial" /\ S.target = sender.target /\ S.target \in Targets
      BY <1>1, <2>2, <2>4 DEF Sender, Points
    <3>2. \A f \in table.flows : flows[f].target # S.target
      BY <2>4, <3>1 DEF For
    <3> QED
      BY <1>1, <2>1, <2>2, <3>1, <3>2, SenderMoves
  <2>5. CASE /\ For(sender.target) # {}
             /\ S = [sender EXCEPT !.pc = "write", !.flow = CHOOSE f \in For(sender.target) : TRUE]
    <3>1. PICK f : f = CHOOSE g \in For(sender.target) : TRUE
      OBVIOUS
    <3>2. f \in table.flows /\ f \in DOMAIN flows /\ f \in Nat
      <4>1. f \in table.flows
        BY <2>5, <3>1 DEF For
      <4>2. table.flows \subseteq Nat
        BY <1>1 DEF Table
      <4> QED
        BY <1>1, <4>1, <4>2
    <3>3. S \in Sender /\ S.pc = "write" /\ S.flow = f /\ S.target \in Targets
      BY <1>1, <2>2, <2>5, <3>1, <3>2 DEF Sender, Points
    <3> QED
      BY <1>1, <2>1, <2>2, <3>2, <3>3, SenderMoves
  <2> QED
    BY <1>3, <2>1, <2>3, <2>4, <2>5 DEF Finds
<1>4. CASE Writes
  <2>1. PICK S : S = sender'
    OBVIOUS
  <2>2. sender.pc = "write" /\ UNCHANGED <<flows, table, socket>>
    BY <1>4 DEF Writes
  <2>3. CASE S = Idle
    BY <1>1, <2>1, <2>2, <2>3, SenderMoves
  <2>4. CASE S = [sender EXCEPT !.pc = "remove"]
    <3>1. S \in Sender /\ S.pc = "remove" /\ S.flow = sender.flow /\ S.target \in Targets
      BY <1>1, <2>2, <2>4 DEF Sender, Points
    <3> QED
      BY <1>1, <2>1, <2>2, <3>1, SenderMoves
  <2> QED
    BY <1>4, <2>1, <2>3, <2>4 DEF Writes
<1>5. CASE Leaves
  <2>1. [Idle EXCEPT !.pc = "over"] \in Sender /\ [Idle EXCEPT !.pc = "over"].pc = "over"
    BY <1>1 DEF Sender, Points
  <2>2. /\ sender.pc = "close table" /\ sender' = [Idle EXCEPT !.pc = "over"]
        /\ socket' = FALSE /\ UNCHANGED <<flows, table>>
    BY <1>5 DEF Leaves
  <2> QED
    BY <2>1, <2>2, SenderMoves
<1> QED
  BY <1>2, <1>3, <1>4, <1>5

LEMMA FlowDialsKeeps ==
  ASSUME FlowsInv, FlowDials
  PROVE  FlowsInv'
<1> USE DEF FlowsInv
<1>1. /\ Len(flows) \in Nat /\ DOMAIN flows = 1 .. Len(flows) /\ flows \in Seq(Flow)
      /\ table \in Table /\ sender \in Sender
      /\ table.flows \subseteq DOMAIN flows /\ Idle \in Sender /\ Idle.pc = "read"
      /\ sender.pc = "dial" /\ UNCHANGED <<table, socket>>
      /\ socket \in BOOLEAN /\ Len(flows) <= MaxDials
  BY FlowsAre DEF FlowDials, FlowsTypes, Idle, Sender, Points
<1>2. CASE sender' = Idle /\ UNCHANGED flows
  <2> HIDE DEF FlowsInv
  <2> QED
    BY <1>1, <1>2, SenderMoves
<1>3. CASE /\ Len(flows) < MaxDials
           /\ flows' = Append(flows, [target |-> sender.target, open |-> TRUE, reader |-> "none"])
           /\ sender' = [sender EXCEPT !.pc = "enter", !.flow = Len(flows')]
  <2>0. sender.target \in Targets /\ FlowsTypes
    BY <1>1 DEF FlowsTypes
  <2>1. PICK F \in Flow :
          /\ F = [target |-> sender.target, open |-> TRUE, reader |-> "none"]
          /\ F.target = sender.target /\ F.reader = "none"
    <3> HIDE DEF FlowsInv
    <3>1. [target |-> sender.target, open |-> TRUE, reader |-> "none"] \in Flow
      BY <2>0 DEF Flow, Readers
    <3> QED
      BY <3>1
  <2>2. /\ flows' \in Seq(Flow) /\ Len(flows') = Len(flows) + 1
        /\ DOMAIN flows' = 1 .. Len(flows) + 1
        /\ flows'[Len(flows) + 1] = F /\ \A f \in DOMAIN flows : flows'[f] = flows[f]
    <3> HIDE DEF FlowsInv
    <3> QED
      BY <1>1, <1>3, <2>1, AppendProperties
  <2>3. PICK S \in Sender :
          /\ sender' = S /\ S.pc = "enter" /\ S.flow = Len(flows) + 1 /\ S.target = sender.target
          /\ S.target \in Targets
    <3> HIDE DEF FlowsInv
    <3>0. Len(flows) + 1 \in Nat
      BY <1>1
    <3>1. PICK s, n : s = sender /\ n = Len(flows) + 1 /\ n \in Nat
      BY <3>0
    <3>2. [s EXCEPT !.pc = "enter", !.flow = n] \in Sender
      <4>1. s \in Sender /\ n \in Nat
        BY <1>1, <3>1
      <4> QED
        BY <4>1 DEF Sender, Points
    <3>3. sender' = [s EXCEPT !.pc = "enter", !.flow = n]
      BY <1>3, <2>2, <3>1
    <3>4. s \in Sender
      BY <1>1, <3>1
    <3> QED
      BY <2>0, <3>1, <3>2, <3>3, <3>4 DEF Sender
  <2>4. table' = table /\ socket' = socket
    BY <1>1
  <2>5. FlowsTypes'
    <3>1. Len(flows') <= MaxDials
      BY <1>1, <1>3, <2>2, FlowsAssumption
    <3>2. table.flows \subseteq DOMAIN flows' /\ table.doomed \subseteq DOMAIN flows'
      BY <1>1, <2>2 DEF FlowsTypes
    <3> QED
      BY <1>1, <2>2, <2>3, <2>4, <3>1, <3>2 DEF FlowsTypes
  <2>6. EntriesInv' /\ TableInv'
    BY <1>1, <2>2, <2>4 DEF EntriesInv, TableInv
  <2>7. SenderInv'
    <3>1. \A f \in table.flows : flows'[f].target # sender.target
      BY <1>1, <2>2 DEF SenderInv
    <3> QED
      BY <2>1, <2>2, <2>3, <2>4, <3>1 DEF SenderInv
  <2>8. OpenInv'
    <3>1. ASSUME NEW f \in DOMAIN flows, flows'[f].open
          PROVE  f \in table.flows \cup table.doomed \/ flows'[f].reader = "close"
      BY <1>1, <2>2, <3>1 DEF OpenInv
    <3> QED
      BY <1>1, <2>2, <2>3, <2>4, <3>1 DEF OpenInv
  <2> QED
    BY <2>5, <2>6, <2>7, <2>8
<1> QED
  BY <1>2, <1>3 DEF FlowDials

\* The flow enters the table, perhaps for another one, which is closed.
LEMMA EntersKeeps ==
  ASSUME FlowsInv, Enters
  PROVE  FlowsInv'
<1> USE DEF FlowsInv
<1>0. PICK x : x = sender.flow
  OBVIOUS
<1>1. /\ Len(flows) \in Nat /\ DOMAIN flows = 1 .. Len(flows) /\ flows \in Seq(Flow)
      /\ \A f \in DOMAIN flows : flows[f] \in Flow
      /\ table \in Table /\ sender \in Sender
      /\ table.flows \subseteq DOMAIN flows /\ table.doomed \subseteq DOMAIN flows
      /\ Idle \in Sender /\ Idle.pc = "read"
      /\ sender.pc = "enter" /\ x \in DOMAIN flows /\ flows[x] \in Flow
      /\ flows[x].target = sender.target /\ flows[x].reader = "none"
      /\ sender.target \in Targets /\ socket \in BOOLEAN /\ socket' = socket
      /\ x \notin table.flows
  BY <1>0, FlowsAre DEF Enters, FlowsTypes, Idle, Sender, Points, SenderInv, EntriesInv
<1>2. CASE table.closed
  <2>1. PICK F : F = [flows[x] EXCEPT !.open = FALSE]
    OBVIOUS
  <2>2. F \in Flow /\ F.target = flows[x].target /\ ~F.open /\ F.reader = flows[x].reader
    BY <1>1, <2>1 DEF Flow
  <2>3. flows' = [flows EXCEPT ![x] = F] /\ sender' = Idle /\ table' = table
    BY <1>0, <1>2, <2>1 DEF Enters, Shut
  <2>4. /\ flows' \in Seq(Flow) /\ Len(flows') = Len(flows) /\ DOMAIN flows' = DOMAIN flows
        /\ flows'[x] = F /\ \A g \in DOMAIN flows \ {x} : flows'[g] = flows[g]
    BY <1>1, <2>2, <2>3, FlowChanges
  <2>5. FlowsTypes'
    BY <1>1, <2>3, <2>4 DEF FlowsTypes
  <2>6. EntriesInv' /\ TableInv'
    BY <1>1, <1>2, <2>3 DEF EntriesInv, TableInv
  <2>7. SenderInv'
    BY <1>1, <2>3 DEF SenderInv
  <2>8. OpenInv'
    BY <1>0, <1>1, <2>2, <2>3, <2>4 DEF OpenInv
  <2> QED
    BY <2>5, <2>6, <2>7, <2>8
<1>3. CASE ~table.closed
  <2>1. PICK E \in Evicted : Entered(E)
    BY <1>3 DEF Enters
  <2>2. E \subseteq table.flows /\ x \notin E
    <3>1. E = {} \/ \E f \in table.flows : E = {f}
      BY <2>1 DEF Evicted
    <3> QED
      BY <1>1, <3>1
  <2>3. PICK T \in Table :
          /\ table' = T /\ T.flows = (table.flows \ E) \cup {x}
          /\ T.cancelled = table.cancelled /\ T.closed = table.closed /\ T.once = table.once
          /\ T.doomed = table.doomed
    <3>1. table' = [table EXCEPT !.flows = (table.flows \ E) \cup {x}]
      BY <1>0, <2>1 DEF Entered
    <3>2. (table.flows \ E) \cup {x} \subseteq Nat
      BY <1>1
    <3>3. [table EXCEPT !.flows = (table.flows \ E) \cup {x}] \in Table
      BY <1>1, <3>2 DEF Table
    <3> QED
      BY <1>1, <3>1, <3>3 DEF Table
  <2>4. PICK S \in Sender :
          sender' = S /\ S.pc = "write" /\ S.flow = x /\ S.target = sender.target
    <3>1. sender' = [sender EXCEPT !.pc = "write"]
      BY <2>1 DEF Entered
    <3>2. [sender EXCEPT !.pc = "write"] \in Sender
      BY <1>1 DEF Sender, Points
    <3> QED
      BY <1>0, <1>1, <3>1, <3>2 DEF Sender
  <2>5. /\ DOMAIN flows' = DOMAIN flows /\ flows' \in Seq(Flow) /\ Len(flows') = Len(flows)
        /\ \A f \in DOMAIN flows :
             /\ flows'[f] \in Flow /\ flows'[f].target = flows[f].target
             /\ f # x => flows'[f].reader = flows[f].reader
             /\ f = x => flows'[f].reader = "read"
             /\ f \in E => ~flows'[f].open
             /\ f \notin E => flows'[f].open = flows[f].open
    <3>1. flows' = [f \in DOMAIN flows |-> IF f \in E THEN [flows[f] EXCEPT !.open = FALSE]
                                    ELSE IF f = x THEN [flows[f] EXCEPT !.reader = "read"]
                                    ELSE flows[f]]
      BY <1>0, <2>1 DEF Entered
    <3>2. ASSUME NEW f \in DOMAIN flows
          PROVE  /\ flows'[f] \in Flow /\ flows'[f].target = flows[f].target
                 /\ f # x => flows'[f].reader = flows[f].reader
                 /\ f = x => flows'[f].reader = "read"
                 /\ f \in E => ~flows'[f].open
                 /\ f \notin E => flows'[f].open = flows[f].open
      <4>1. flows[f] \in Flow
        BY <1>1
      <4>2. CASE f \in E
        <5>1. flows'[f] = [flows[f] EXCEPT !.open = FALSE]
          BY <3>1, <4>2
        <5> QED
          BY <2>2, <4>1, <4>2, <5>1 DEF Flow
      <4>3. CASE f = x
        <5>1. flows'[f] = [flows[f] EXCEPT !.reader = "read"]
          BY <2>2, <3>1, <4>3
        <5> QED
          BY <2>2, <4>1, <4>3, <5>1 DEF Flow, Readers
      <4>4. CASE f \notin E /\ f # x
        BY <3>1, <4>1, <4>4
      <4> QED
        BY <4>2, <4>3, <4>4
    <3>3. DOMAIN flows' = 1 .. Len(flows)
      BY <1>1, <3>1
    <3>4. flows' \in [1 .. Len(flows) -> Flow]
      BY <1>1, <3>1, <3>2, <3>3
    <3>5. flows' \in Seq(Flow)
      BY <1>1, <3>4, SeqDef
    <3>6. Len(flows') = Len(flows)
      BY <1>1, <3>3, <3>5, LenProperties
    <3> QED
      BY <1>1, <3>2, <3>3, <3>5, <3>6
  <2>6. FlowsTypes'
    <3>1. T.flows \subseteq DOMAIN flows /\ T.doomed \subseteq DOMAIN flows
      BY <1>1, <2>3
    <3> QED
      BY <1>1, <2>3, <2>4, <2>5, <3>1 DEF FlowsTypes
  <2>7. EntriesInv'
    <3>1. \A f \in T.flows : f = x \/ f \in table.flows \ {x}
      BY <2>3
    <3>2. \A f \in T.flows : flows'[f].reader \notin {"none", "close", "over"}
      BY <1>1, <2>5, <3>1 DEF EntriesInv
    <3>3. \A f, g \in T.flows : flows'[f].target = flows'[g].target => f = g
      BY <1>1, <2>5, <3>1 DEF EntriesInv, SenderInv
    <3>4. Cardinality(T.flows) <= MaxFlows
      <4>1. IsFiniteSet(table.flows) /\ Cardinality(table.flows) \in Nat
        <5>1. IsFiniteSet(1 .. Len(flows))
          BY <1>1, FS_Interval
        <5>2. table.flows \subseteq 1 .. Len(flows)
          BY <1>1
        <5> QED
          BY <5>1, <5>2, FS_Subset, FS_CardinalityType
      <4>2. CASE Cardinality(table.flows) < MaxFlows /\ E = {}
        <5>1. PICK A : A = table.flows
          OBVIOUS
        <5>2. T.flows = A \cup {x} /\ x \notin A /\ IsFiniteSet(A)
          BY <1>1, <2>3, <4>1, <4>2, <5>1
        <5>3. Cardinality(A \cup {x}) = Cardinality(A) + 1
          BY <5>2, FS_AddElement
        <5> QED
          BY <4>1, <4>2, <5>1, <5>2, <5>3, FlowsAssumption
      <4>3. CASE \E f \in table.flows : E = {f}
        <5>1. PICK f \in table.flows : E = {f}
          BY <4>3
        <5>2. /\ IsFiniteSet(table.flows \ {f})
              /\ Cardinality(table.flows \ {f}) = Cardinality(table.flows) - 1
          BY <4>1, FS_RemoveElement
        <5>3. T.flows = (table.flows \ {f}) \cup {x} /\ x \notin table.flows \ {f}
          BY <1>1, <2>3, <5>1
        <5>4. Cardinality(T.flows) = Cardinality(table.flows \ {f}) + 1
          BY <5>2, <5>3, FS_AddElement
        <5> QED
          BY <4>1, <5>2, <5>4, FlowsAssumption DEF EntriesInv
      <4> QED
        BY <2>1, <4>2, <4>3 DEF Evicted
    <3> QED
      BY <2>3, <3>2, <3>3, <3>4 DEF EntriesInv
  <2>8. SenderInv' /\ TableInv'
    BY <1>3, <2>3, <2>4 DEF SenderInv, TableInv
  <2>9. OpenInv'
    <3>1. ASSUME NEW f \in DOMAIN flows, flows'[f].open
          PROVE  f \in T.flows \cup T.doomed \/ flows'[f].reader = "close"
      <4>1. f \notin E /\ flows[f].open
        BY <2>5, <3>1
      <4>2. CASE f = x
        BY <2>3, <4>2
      <4>3. CASE f # x
        BY <1>0, <2>3, <2>5, <4>1, <4>3 DEF OpenInv
      <4> QED
        BY <4>2, <4>3
    <3> QED
      BY <2>3, <2>5, <3>1 DEF OpenInv
  <2> QED
    BY <2>6, <2>7, <2>8, <2>9
<1> QED
  BY <1>2, <1>3

LEMMA FewerEntries ==
  ASSUME FlowsInv, NEW A, A \subseteq table.flows
  PROVE  Cardinality(A) <= MaxFlows
<1>1. Len(flows) \in Nat /\ DOMAIN flows = 1 .. Len(flows)
  BY FlowsAre DEF FlowsInv
<1>2. PICK B : B = table.flows
  OBVIOUS
<1>3. B \subseteq 1 .. Len(flows) /\ Cardinality(B) <= MaxFlows
  BY <1>1, <1>2 DEF FlowsInv, FlowsTypes, EntriesInv
<1>4. IsFiniteSet(B)
  <2>1. IsFiniteSet(1 .. Len(flows))
    BY <1>1, FS_Interval
  <2> QED
    BY <1>3, <2>1, FS_Subset
<1>5. IsFiniteSet(A) /\ Cardinality(A) <= Cardinality(B)
  BY <1>2, <1>4, FS_Subset
<1>6. Cardinality(A) \in Nat /\ Cardinality(B) \in Nat
  BY <1>4, <1>5, FS_CardinalityType
<1> QED
  BY <1>3, <1>5, <1>6, FlowsAssumption

\* A flow goes on or is shut, and may leave the table or the flows Close has
\* still to shut; the sender stands still, or gives this flow up.
LEMMA FlowMoves ==
  ASSUME FlowsInv, NEW f \in DOMAIN flows, NEW G \in Flow, NEW T \in Table, NEW S \in Sender,
         flows' = [flows EXCEPT ![f] = G], table' = T, sender' = S, socket' \in BOOLEAN,
         G.target = flows[f].target,
         T.flows \subseteq table.flows, table.flows \ {f} \subseteq T.flows,
         T.doomed \subseteq table.doomed, table.doomed \ {f} \subseteq T.doomed,
         T.closed = table.closed, T.once = table.once,
         f \in T.flows => G.reader = flows[f].reader \/ G.reader \notin {"none", "close", "over"},
         \/ S = sender /\ (G.reader = flows[f].reader \/ flows[f].reader # "none")
         \/ S.pc = "read" /\ sender.flow = f
         \/ S.pc = "look" /\ S.target \in Targets /\ sender.flow = f,
         G.open => \/ G.reader = "close"
                   \/ /\ T.flows = table.flows /\ T.doomed = table.doomed
                      /\ flows[f].open /\ flows[f].reader # "close" /\ S = sender
  PROVE  FlowsInv'
<1>1. /\ Len(flows) \in Nat /\ DOMAIN flows = 1 .. Len(flows) /\ flows \in Seq(Flow)
      /\ table \in Table /\ sender \in Sender /\ FlowsTypes
  BY FlowsAre DEF FlowsInv
<1>2. /\ flows' \in Seq(Flow) /\ Len(flows') = Len(flows) /\ DOMAIN flows' = DOMAIN flows
      /\ flows'[f] = G /\ \A g \in DOMAIN flows \ {f} : flows'[g] = flows[g]
  BY <1>1, FlowChanges
<1>3. FlowsTypes'
  <2>1. Len(flows) <= MaxDials /\ table.flows \subseteq DOMAIN flows /\ table.doomed \subseteq DOMAIN flows
    BY <1>1 DEF FlowsTypes
  <2>2. /\ S.pc \in {"enter", "write", "remove", "close"} => S.flow \in DOMAIN flows
        /\ S.pc \notin {"read", "close table", "over"} => S.target \in Targets
    BY <1>1 DEF FlowsTypes
  <2> QED
    BY <1>2, <2>1, <2>2 DEF FlowsTypes
<1>4. \A g \in DOMAIN flows : flows'[g].target = flows[g].target
  BY <1>2
<1>5. EntriesInv'
  <2>1. Cardinality(T.flows) <= MaxFlows
    BY FewerEntries
  <2>2. \A g \in T.flows : flows'[g].reader \notin {"none", "close", "over"}
    BY <1>1, <1>2 DEF FlowsInv, EntriesInv, FlowsTypes
  <2>3. /\ \A g, h \in table.flows : flows[g].target = flows[h].target => g = h
        /\ table.flows \subseteq DOMAIN flows
    BY DEF FlowsInv, EntriesInv, FlowsTypes
  <2>4. \A g, h \in T.flows : flows'[g].target = flows'[h].target => g = h
    BY <1>4, <2>3
  <2> QED
    BY <2>1, <2>2, <2>4 DEF EntriesInv
<1>6. TableInv'
  BY DEF FlowsInv, TableInv
<1>7. SenderInv'
  <2>1. CASE S # sender
    BY <2>1 DEF SenderInv
  <2>2. CASE S = sender
    <3>1. ASSUME S.pc \in {"dial", "enter"}
          PROVE  \A g \in T.flows : flows'[g].target # S.target
      <4>1. /\ \A g \in table.flows : flows[g].target # sender.target
            /\ table.flows \subseteq DOMAIN flows
        BY <2>2, <3>1 DEF FlowsInv, SenderInv, FlowsTypes
      <4> QED
        BY <1>4, <2>2, <4>1
    <3>2. ASSUME S.pc = "enter"
          PROVE  flows'[S.flow].target = S.target /\ flows'[S.flow].reader = "none"
      <4>1. /\ sender.flow \in DOMAIN flows
            /\ flows[sender.flow].target = sender.target /\ flows[sender.flow].reader = "none"
        BY <1>1, <2>2, <3>2 DEF FlowsInv, SenderInv, FlowsTypes
      <4>2. CASE sender.flow = f
        BY <1>2, <2>2, <4>1, <4>2, <3>2
      <4>3. CASE sender.flow # f
        BY <1>2, <2>2, <4>1, <4>3
      <4> QED
        BY <4>2, <4>3
    <3> QED
      BY <3>1, <3>2 DEF SenderInv
  <2> QED
    BY <2>1, <2>2
<1>8. OpenInv'
  <2>1. ASSUME NEW g \in DOMAIN flows, flows'[g].open
        PROVE  \/ g \in T.flows \cup T.doomed
               \/ S.flow = g /\ S.pc \in {"enter", "close"}
               \/ flows'[g].reader = "close"
    <3>1. CASE g = f
      BY <1>2, <2>1, <3>1 DEF FlowsInv, OpenInv
    <3>2. CASE g # f
      <4>1. \/ g \in table.flows \cup table.doomed
            \/ sender.flow = g /\ sender.pc \in {"enter", "close"}
            \/ flows[g].reader = "close"
        BY <1>2, <2>1, <3>2 DEF FlowsInv, OpenInv
      <4> QED
        BY <1>2, <3>2, <4>1
    <3> QED
      BY <3>1, <3>2
  <2> QED
    BY <1>2, <2>1 DEF OpenInv
<1> QED
  BY <1>3, <1>5, <1>6, <1>7, <1>8 DEF FlowsInv

\* The table alone changes; what it held it holds, or Close has it.
LEMMA TableMoves ==
  ASSUME FlowsInv, NEW T \in Table, table' = T, flows' = flows, sender' = sender, socket' \in BOOLEAN,
         T.flows \subseteq table.flows, T.doomed \subseteq table.flows \cup table.doomed,
         table.flows \cup table.doomed \subseteq T.flows \cup T.doomed,
         T.closed <=> T.once # "no", T.closed => T.flows = {},
         T.once \in {"no", "done"} => T.doomed = {}
  PROVE  FlowsInv'
<1>1. FlowsTypes'
  BY DEF FlowsInv, FlowsTypes
<1>2. EntriesInv'
  <2>1. Cardinality(T.flows) <= MaxFlows
    BY FewerEntries
  <2> QED
    BY <2>1 DEF FlowsInv, EntriesInv
<1>3. SenderInv' /\ TableInv'
  BY DEF FlowsInv, SenderInv, TableInv
<1>4. OpenInv'
  BY DEF FlowsInv, OpenInv
<1> QED
  BY <1>1, <1>2, <1>3, <1>4 DEF FlowsInv

LEMMA RemovesKeeps ==
  ASSUME FlowsInv, Removes
  PROVE  FlowsInv'
<1>0. PICK x, A : x = sender.flow /\ A = table.flows \ {x}
  OBVIOUS
<1>1. /\ FlowsTypes /\ table \in Table /\ sender \in Sender /\ x \in DOMAIN flows
      /\ sender.pc = "remove" /\ sender.target \in Targets /\ flows' = flows /\ socket' = socket
  BY <1>0 DEF FlowsInv, FlowsTypes, Removes
<1>2. PICK T \in Table :
        /\ table' = T /\ T.flows = A /\ T.doomed = table.doomed
        /\ T.closed = table.closed /\ T.once = table.once
  <2>1. PICK t : t = table
    OBVIOUS
  <2>2. table' = [t EXCEPT !.flows = A]
    BY <1>0, <2>1 DEF Removes, Without
  <2>3. t \in Table /\ A \subseteq Nat
    BY <1>0, <1>1, <2>1 DEF Table
  <2>4. [t EXCEPT !.flows = A] \in Table
    BY <2>3 DEF Table
  <2> QED
    BY <2>1, <2>2, <2>3, <2>4 DEF Table
<1>3. PICK S \in Sender : sender' = S /\ S.pc = "close" /\ S.flow = x /\ S.target = sender.target
  <2>1. sender' = [sender EXCEPT !.pc = "close"]
    BY DEF Removes
  <2>2. [sender EXCEPT !.pc = "close"] \in Sender
    BY <1>1 DEF Sender, Points
  <2> QED
    BY <1>0, <1>1, <2>1, <2>2 DEF Sender
<1>4. FlowsTypes'
  <2>1. T.flows \subseteq DOMAIN flows /\ T.doomed \subseteq DOMAIN flows
    BY <1>0, <1>1, <1>2 DEF FlowsTypes
  <2> QED
    BY <1>1, <1>2, <1>3, <2>1 DEF FlowsTypes
<1>5. EntriesInv'
  <2>1. T.flows \subseteq table.flows
    BY <1>0, <1>2
  <2>2. Cardinality(T.flows) <= MaxFlows
    BY <2>1, FewerEntries
  <2> QED
    BY <1>1, <1>2, <2>1, <2>2 DEF FlowsInv, EntriesInv
<1>6. SenderInv' /\ TableInv'
  BY <1>0, <1>2, <1>3 DEF FlowsInv, SenderInv, TableInv
<1>7. OpenInv'
  BY <1>0, <1>1, <1>2, <1>3 DEF FlowsInv, OpenInv
<1> QED
  BY <1>4, <1>5, <1>6, <1>7 DEF FlowsInv

LEMMA RetriesKeeps ==
  ASSUME FlowsInv, Retries
  PROVE  FlowsInv'
<1>0. PICK x : x = sender.flow
  OBVIOUS
<1>1. /\ FlowsTypes /\ table \in Table /\ sender \in Sender /\ x \in DOMAIN flows
      /\ sender.target \in Targets /\ socket' \in BOOLEAN /\ table' = table
      /\ flows[x] \in Flow /\ Idle \in Sender /\ Idle.pc = "read"
  BY <1>0, FlowsAre DEF FlowsInv, FlowsTypes, Retries, Idle, Sender, Points
<1>2. PICK G \in Flow : /\ flows' = [flows EXCEPT ![x] = G] /\ ~G.open
                        /\ G.target = flows[x].target /\ G.reader = flows[x].reader
  <2>1. flows' = [flows EXCEPT ![x] = [flows[x] EXCEPT !.open = FALSE]]
    BY <1>0 DEF Retries, Shut
  <2>2. [flows[x] EXCEPT !.open = FALSE] \in Flow
    BY <1>1 DEF Flow
  <2> QED
    BY <1>1, <2>1, <2>2 DEF Flow
<1>3. PICK S \in Sender : sender' = S /\ (S.pc = "read" \/ (S.pc = "look" /\ S.target \in Targets))
  <2>1. sender' = Idle \/ sender' = [sender EXCEPT !.pc = "look", !.flow = 0, !.attempt = 1]
    BY DEF Retries
  <2>2. [sender EXCEPT !.pc = "look", !.flow = 0, !.attempt = 1] \in Sender
    BY <1>1 DEF Sender, Points
  <2>3. CASE sender' = Idle
    BY <1>1, <2>3
  <2>4. CASE sender' = [sender EXCEPT !.pc = "look", !.flow = 0, !.attempt = 1]
    BY <1>1, <2>2, <2>4 DEF Sender
  <2> QED
    BY <2>1, <2>3, <2>4
<1> QED
  BY <1>0, <1>1, <1>2, <1>3, FlowMoves

LEMMA ReadingKeeps ==
  ASSUME FlowsInv, NEW f \in DOMAIN flows, Reading(f)
  PROVE  FlowsInv'
<1>1. FlowsTypes /\ table \in Table /\ sender \in Sender /\ flows[f] \in Flow /\ socket \in BOOLEAN
  BY FlowsAre DEF FlowsInv, FlowsTypes
<1>2. {"read", "remove", "close", "close table", "over"} \subseteq Readers
  BY DEF Readers
<1>3. CASE Arrives(f)
  <2>1. PICK r \in {"read", "close table"} : Reader(f, "read", r)
    BY <1>3 DEF Arrives
  <2>2. table' = table /\ sender' = sender /\ socket' \in BOOLEAN
    BY <1>1, <1>3 DEF Arrives
  <2>0. PICK G : G = [flows[f] EXCEPT !.reader = r]
    OBVIOUS
  <2>3. /\ G \in Flow /\ flows' = [flows EXCEPT ![f] = G]
        /\ flows[f].reader = "read" /\ G.reader = r
        /\ G.target = flows[f].target /\ G.open = flows[f].open
    <3>1. flows' = [flows EXCEPT ![f] = G] /\ flows[f].reader = "read"
      BY <2>0, <2>1 DEF Reader
    <3> QED
      BY <1>1, <1>2, <2>0, <2>1, <3>1 DEF Flow
  <2> QED
    BY <1>1, <2>1, <2>2, <2>3, FlowMoves
<1>4. CASE ReadFails(f)
  <2>1. Reader(f, "read", "remove") /\ table' = table /\ sender' = sender /\ socket' = socket
    BY <1>4 DEF ReadFails
  <2>0. PICK G : G = [flows[f] EXCEPT !.reader = "remove"]
    OBVIOUS
  <2>2. /\ G \in Flow /\ flows' = [flows EXCEPT ![f] = G]
        /\ flows[f].reader = "read" /\ G.reader = "remove"
        /\ G.target = flows[f].target /\ G.open = flows[f].open
    <3>1. flows' = [flows EXCEPT ![f] = G] /\ flows[f].reader = "read"
      BY <2>0, <2>1 DEF Reader
    <3> QED
      BY <1>1, <1>2, <2>0, <2>1, <3>1 DEF Flow
  <2> QED
    BY <1>1, <2>1, <2>2, FlowMoves
<1>5. CASE ReaderRemoves(f)
  <2>1. Reader(f, "remove", "close") /\ sender' = sender /\ socket' = socket
    BY <1>5 DEF ReaderRemoves
  <2>0. PICK G : G = [flows[f] EXCEPT !.reader = "close"]
    OBVIOUS
  <2>2. /\ G \in Flow /\ flows' = [flows EXCEPT ![f] = G]
        /\ flows[f].reader = "remove" /\ G.reader = "close"
        /\ G.target = flows[f].target /\ G.open = flows[f].open
    <3>1. flows' = [flows EXCEPT ![f] = G] /\ flows[f].reader = "remove"
      BY <2>0, <2>1 DEF Reader
    <3> QED
      BY <1>1, <1>2, <2>0, <2>1, <3>1 DEF Flow
  <2>3. PICK T \in Table :
          /\ table' = T /\ T.flows = table.flows \ {f} /\ T.doomed = table.doomed
          /\ T.closed = table.closed /\ T.once = table.once
    <3>1. table' = [table EXCEPT !.flows = table.flows \ {f}]
      BY <1>5 DEF ReaderRemoves, Without
    <3>2. [table EXCEPT !.flows = table.flows \ {f}] \in Table
      BY <1>1 DEF Table
    <3> QED
      BY <1>1, <3>1, <3>2 DEF Table
  <2> QED
    BY <1>1, <2>1, <2>2, <2>3, FlowMoves
<1>6. CASE ReaderCloses(f)
  <2>1. table' = table /\ sender' = sender /\ socket' = socket /\ flows[f].reader = "close"
    BY <1>6 DEF ReaderCloses
  <2>2. PICK G \in Flow : /\ flows' = [flows EXCEPT ![f] = G] /\ G.reader = "over" /\ ~G.open
                          /\ G.target = flows[f].target
    <3>1. flows' = [flows EXCEPT ![f] = [flows[f] EXCEPT !.reader = "over", !.open = FALSE]]
      BY <1>6 DEF ReaderCloses
    <3>2. [flows[f] EXCEPT !.reader = "over", !.open = FALSE] \in Flow
      BY <1>1 DEF Flow, Readers
    <3> QED
      BY <1>1, <3>1, <3>2 DEF Flow
  <2>3. f \notin table.flows
    BY <2>1 DEF FlowsInv, EntriesInv
  <2> QED
    BY <1>1, <2>1, <2>2, <2>3, FlowMoves
<1>7. CASE ReaderLeaves(f)
  <2>1. /\ Reader(f, "close table", "over") /\ table' = table /\ sender' = sender /\ socket' = socket
        /\ table.once = "done"
    BY <1>7 DEF ReaderLeaves
  <2>0. PICK G : G = [flows[f] EXCEPT !.reader = "over"]
    OBVIOUS
  <2>2. /\ G \in Flow /\ flows' = [flows EXCEPT ![f] = G]
        /\ flows[f].reader = "close table" /\ G.reader = "over"
        /\ G.target = flows[f].target /\ G.open = flows[f].open
    <3>1. flows' = [flows EXCEPT ![f] = G] /\ flows[f].reader = "close table"
      BY <2>0, <2>1 DEF Reader
    <3> QED
      BY <1>1, <1>2, <2>0, <2>1, <3>1 DEF Flow
  <2>3. f \notin table.flows
    BY <2>1 DEF FlowsInv, TableInv
  <2> QED
    BY <1>1, <2>1, <2>2, <2>3, FlowMoves
<1> QED
  BY <1>3, <1>4, <1>5, <1>6, <1>7 DEF Reading

LEMMA TableClosesKeeps ==
  ASSUME FlowsInv, TableCloses
  PROVE  FlowsInv'
<1>1. /\ FlowsTypes /\ table \in Table /\ sender \in Sender /\ socket \in BOOLEAN
      /\ table.doomed \subseteq DOMAIN flows
  BY DEF FlowsInv, FlowsTypes
<1>2. CASE TableCloseBegins
  <2>1. /\ flows' = flows /\ sender' = sender /\ socket' = socket /\ table.once = "no"
        /\ table' = [flows |-> {}, cancelled |-> TRUE, closed |-> TRUE, once |-> "begun", doomed |-> table.flows]
    BY <1>2 DEF TableCloseBegins
  <2>2. PICK T \in Table : /\ table' = T /\ T.flows = {} /\ T.doomed = table.flows
                           /\ T.closed /\ T.once = "begun"
    <3>1. [flows |-> {}, cancelled |-> TRUE, closed |-> TRUE, once |-> "begun", doomed |-> table.flows] \in Table
      BY <1>1 DEF Table
    <3> QED
      BY <2>1, <3>1
  <2>3. table.doomed = {}
    BY <2>1 DEF FlowsInv, TableInv
  <2> QED
    BY <1>1, <2>1, <2>2, <2>3, TableMoves
<1>3. CASE CloseFlow
  <2>1. sender' = sender /\ socket' = socket /\ table.once = "begun" /\ table.closed /\ table.flows = {}
    BY <1>3 DEF CloseFlow, FlowsInv, TableInv
  <2>2. CASE table.doomed = {}
    <3>1. PICK T \in Table : /\ table' = T /\ T.flows = table.flows /\ T.doomed = table.doomed
                             /\ T.closed = table.closed /\ T.once = "done"
      <4>1. table' = [table EXCEPT !.once = "done"]
        BY <1>3, <2>2 DEF CloseFlow
      <4>2. [table EXCEPT !.once = "done"] \in Table
        BY <1>1 DEF Table
      <4> QED
        BY <1>1, <4>1, <4>2 DEF Table
    <3>2. flows' = flows
      BY <1>3, <2>2 DEF CloseFlow
    <3> QED
      BY <1>1, <2>1, <2>2, <3>1, <3>2, TableMoves
  <2>3. CASE table.doomed # {}
    <3>1. PICK f \in table.doomed : /\ flows' = Shut(flows, f)
                                    /\ table' = [table EXCEPT !.doomed = @ \ {f}]
      BY <1>3, <2>3 DEF CloseFlow
    <3>2. f \in DOMAIN flows /\ flows[f] \in Flow
      BY <1>1, FlowsAre
    <3>3. PICK G \in Flow : /\ flows' = [flows EXCEPT ![f] = G] /\ ~G.open
                            /\ G.target = flows[f].target /\ G.reader = flows[f].reader
      <4>1. flows' = [flows EXCEPT ![f] = [flows[f] EXCEPT !.open = FALSE]]
        BY <3>1 DEF Shut
      <4>2. [flows[f] EXCEPT !.open = FALSE] \in Flow
        BY <3>2 DEF Flow
      <4> QED
        BY <3>2, <4>1, <4>2 DEF Flow
    <3>4. PICK T \in Table : /\ table' = T /\ T.flows = table.flows /\ T.doomed = table.doomed \ {f}
                             /\ T.closed = table.closed /\ T.once = table.once
      <4>1. table' = [table EXCEPT !.doomed = table.doomed \ {f}]
        BY <3>1
      <4>2. [table EXCEPT !.doomed = table.doomed \ {f}] \in Table
        BY <1>1 DEF Table
      <4> QED
        BY <1>1, <4>1, <4>2 DEF Table
    <3> QED
      BY <1>1, <2>1, <3>2, <3>3, <3>4, FlowMoves
  <2> QED
    BY <2>2, <2>3
<1> QED
  BY <1>2, <1>3 DEF TableCloses

LEMMA FlowsNextKeeps ==
  ASSUME FlowsInv, FlowsNext
  PROVE  FlowsInv'
<1>1. CASE ControlEnds
  <2>1. PICK T : T = table
    OBVIOUS
  <2>2. T \in Table /\ table' = T /\ flows' = flows /\ sender' = sender /\ socket' \in BOOLEAN
    BY <1>1, <2>1 DEF ControlEnds, FlowsInv, FlowsTypes
  <2>3. /\ T.closed <=> T.once # "no"
        /\ T.closed => T.flows = {}
        /\ T.once \in {"no", "done"} => T.doomed = {}
    BY <2>1 DEF FlowsInv, TableInv
  <2> QED
    BY <2>1, <2>2, <2>3, TableMoves
<1>2. CASE Sending
  BY <1>2, SenderSteps, FlowDialsKeeps, EntersKeeps, RemovesKeeps, RetriesKeeps DEF Sending
<1> QED
  BY <1>1, <1>2, ReadingKeeps, TableClosesKeeps DEF FlowsNext

\* The server's own steps cancel the table's context and close the socket.
LEMMA FlowsCancelled ==
  ASSUME FlowsInv, flows' = flows, sender' = sender, socket' \in BOOLEAN,
         NEW c \in BOOLEAN, table' = table \/ table' = [table EXCEPT !.cancelled = c]
  PROVE  FlowsInv'
<1>1. table \in Table
  BY DEF FlowsInv, FlowsTypes
<1>2. PICK T \in Table : /\ table' = T /\ T.flows = table.flows /\ T.doomed = table.doomed
                         /\ T.closed = table.closed /\ T.once = table.once
  <2>1. [table EXCEPT !.cancelled = c] \in Table
    BY <1>1 DEF Table
  <2> QED
    BY <1>1, <2>1 DEF Table
<1>3. /\ T.closed <=> T.once # "no"
      /\ T.closed => T.flows = {}
      /\ T.once \in {"no", "done"} => T.doomed = {}
  BY <1>2 DEF FlowsInv, TableInv
<1> QED
  BY <1>2, <1>3, TableMoves

-----------------------------------------------------------------------------
(* The relay *)

LEMMA RelayAre ==
  ASSUME RelayInv
  PROVE  /\ client \in SideRec /\ gate \in SideRec /\ copy \in Copy /\ conn \in Conn /\ timer \in Timer
         /\ client.read \in Nat /\ gate.read \in Nat
         /\ wire \in Seq({"data", "close", "part"}) /\ Len(wire) \in Nat /\ DOMAIN wire = 1 .. Len(wire)
  BY LenProperties DEF RelayInv, RelayTypes, SideRec

\* The stream to the gateway is as it was.
LEMMA QuietRelay ==
  ASSUME RelayInv, RelayTypes', wire' = wire, conn' = conn, copy'.up = copy.up,
         client'.read = client.read, gate.closed => gate'.closed,
         main' \in {"wait", "end"} => conn.once = "done", main' = "end" => Done("up"), TimerInv'
  PROVE  RelayInv'
<1>1. LockInv'
  BY DEF RelayInv, LockInv, Done
<1>2. WireInv(Len(wire))'
  BY DEF RelayInv, WireInv
<1>3. CountInv(Len(wire))'
  BY DEF RelayInv, CountInv
<1> QED
  BY <1>1, <1>2, <1>3 DEF RelayInv

LEMMA PeersKeep ==
  ASSUME RelayInv, Peers
  PROVE  RelayInv'
<1>1. ASSUME NEW s \in SideRec, NEW r \in Changes(s, {"fin", "reset"}) \cup Changes(s, {"fin", "reset", "bad"})
      PROVE  r \in SideRec /\ r.read = s.read /\ r.closed = s.closed
  <2>1. PICK e \in {"open", "fin", "reset", "bad"}, b \in BOOLEAN :
          r = [s EXCEPT !.end = e] \/ r = [s EXCEPT !.stalled = b]
    BY <1>1 DEF Changes
  <2> QED
    BY <1>1, <2>1 DEF SideRec
<1>2. client \in SideRec /\ gate \in SideRec
  BY RelayAre
<1>3. /\ client' \in SideRec /\ client'.read = client.read /\ client'.closed = client.closed
      /\ gate' \in SideRec /\ gate'.read = gate.read /\ gate'.closed = gate.closed
      /\ ended' \in BOOLEAN
  BY <1>1, <1>2 DEF Peers, RelayInv, RelayTypes
<1>4. wire' = wire /\ copy' = copy /\ conn' = conn /\ main' = main /\ timer' = timer
  BY DEF Peers
<1>5. RelayTypes' /\ TimerInv'
  BY <1>3, <1>4 DEF RelayInv, RelayTypes, TimerInv
<1>6. /\ main \in {"wait", "end"} => conn.once = "done"
      /\ main = "end" => Done("up")
  BY DEF RelayInv, LockInv
<1> QED
  BY <1>3, <1>4, <1>5, <1>6, QuietRelay

\* What a read does to the timer.
LEMMA ActiveTimer ==
  ASSUME RelayInv, timer' = Active, main' = main
  PROVE  timer' \in Timer /\ TimerInv'
<1>1. PICK a \in 0..2, q \in 0..2 : a = timer.age /\ q = timer.quiet
  BY RelayAre DEF Timer
<1>2. timer' = [timer EXCEPT !.activity = TRUE, !.quiet = IF a < 2 THEN 0 ELSE q]
  BY <1>1 DEF Active
<1>3. timer' = [age |-> a, activity |-> TRUE, quiet |-> IF a < 2 THEN 0 ELSE q]
  BY <1>1, <1>2, RelayAre DEF Timer
<1>4. timer' \in Timer
  BY <1>3 DEF Timer
<1>5. main = "idle" /\ a = 2 => q = 2
  BY <1>1 DEF RelayInv, TimerInv
<1>6. TimerInv'
  BY <1>3, <1>5 DEF TimerInv
<1> QED
  BY <1>4, <1>6

LEMMA DownsKeep ==
  ASSUME RelayInv, DownReads \/ Downloads
  PROVE  RelayInv'
<1>1. /\ wire' = wire /\ conn' = conn /\ client' = client /\ main' = main /\ ended' = ended
  BY DEF DownReads, Downloads, DownReadEnds, DownWrites
<1>2. /\ main \in {"wait", "end"} => conn.once = "done"
      /\ main = "end" => Done("up")
  BY DEF RelayInv, LockInv
<1>3. /\ copy' \in Copy /\ copy'.up = copy.up
  <2>1. PICK d \in {"read", "write", "fin", "ok", "err"} : copy' = [copy EXCEPT !.down = d]
    BY DEF DownReads, Downloads, DownReadEnds, DownWrites
  <2> QED
    BY <2>1, RelayAre DEF Copy
<1>4. gate' \in SideRec /\ gate'.read <= MaxChunks /\ gate'.closed = gate.closed
  <2>1. gate \in SideRec /\ gate.read \in Nat /\ gate.read <= MaxChunks
    BY RelayAre DEF RelayInv, RelayTypes
  <2>2. CASE gate' = gate
    BY <2>1, <2>2
  <2>3. CASE gate' = [gate EXCEPT !.read = gate.read + 1] /\ gate.read < MaxChunks
    BY <2>1, <2>3, RelayAssumption DEF SideRec
  <2> QED
    BY <2>2, <2>3 DEF DownReads, Downloads, DownReadEnds, DownWrites
<1>5. timer' \in Timer /\ TimerInv'
  <2>1. CASE timer' = timer
    BY <1>1, <2>1, RelayAre DEF RelayInv, TimerInv
  <2> QED
    BY <1>1, <2>1, ActiveTimer DEF DownReads, Downloads, DownReadEnds, DownWrites
<1>6. RelayTypes'
  BY <1>1, <1>3, <1>4, <1>5 DEF RelayInv, RelayTypes
<1> QED
  BY <1>1, <1>2, <1>3, <1>4, <1>5, <1>6, QuietRelay

LEMMA RelaysKeep ==
  ASSUME RelayInv, Relays \/ Tick
  PROVE  RelayInv'
<1>1. wire' = wire /\ conn' = conn /\ copy' = copy /\ gate' = gate /\ ended' = ended
  BY DEF Relays, Tick, FirstDone, Activity, SecondDone, TimesOut, ClosesA, ClosedB, Waits
<1>2. client' \in SideRec /\ client'.read = client.read
  <2>1. client' = client \/ client' = [client EXCEPT !.closed = TRUE]
    BY DEF Relays, Tick, FirstDone, Activity, SecondDone, TimesOut, ClosesA, ClosedB, Waits
  <2> QED
    BY <2>1, RelayAre DEF SideRec
<1>3. PICK a \in 0..2, c \in BOOLEAN, q \in 0..2 : timer = [age |-> a, activity |-> c, quiet |-> q]
  <2>1. timer \in Timer
    BY RelayAre
  <2> QED
    BY <2>1 DEF Timer
<1>4. main = "idle" => (a = 2 => q = 2) /\ (~c => a <= q)
  BY <1>3 DEF RelayInv, TimerInv
<1>5. /\ main' \in {"first", "idle", "close a", "close b", "wait", "end"}
      /\ main' \in {"wait", "end"} => conn.once = "done"
      /\ main' = "end" => Done("up")
  <2>1. /\ main \in {"first", "idle", "close a", "close b", "wait", "end"}
        /\ main \in {"wait", "end"} => conn.once = "done"
    BY DEF RelayInv, RelayTypes, LockInv
  <2> QED
    BY <2>1 DEF Relays, Tick, FirstDone, Activity, SecondDone, TimesOut, ClosesA, ClosedB, Waits
<1>6. timer' \in Timer /\ TimerInv'
  <2>1. CASE FirstDone
    <3>1. CASE timer' = timer /\ main' = "close a"
      BY <3>1, RelayAre DEF TimerInv
    <3>2. CASE timer' = [age |-> 0, activity |-> FALSE, quiet |-> 0]
      BY <3>2 DEF Timer, TimerInv
    <3> QED
      BY <2>1, <3>1, <3>2 DEF FirstDone
  <2>2. CASE Activity
    <3>1. timer' = [age |-> 0, activity |-> FALSE, quiet |-> q] /\ main' = main
      BY <1>3, <2>2 DEF Activity
    <3> QED
      BY <3>1 DEF Timer, TimerInv
  <2>3. CASE Tick
    <3>1. timer' = [age |-> a + 1, activity |-> c, quiet |-> IF q < 2 THEN q + 1 ELSE 2]
      BY <1>3, <2>3 DEF Tick
    <3>2. main = "idle" /\ main' = "idle" /\ a < 2 /\ ~c
      BY <1>3, <2>3 DEF Tick
    <3>3. PICK b \in 0..2, p \in 0..2 : b = a + 1 /\ p = IF q < 2 THEN q + 1 ELSE 2
      BY <1>3, <3>2
    <3> QED
      BY <1>3, <1>4, <3>1, <3>2, <3>3 DEF Timer, TimerInv
  <2>4. CASE SecondDone \/ TimesOut \/ ClosesA \/ ClosedB \/ Waits
    <3>1. timer' = timer /\ main' # "idle"
      BY <2>4 DEF SecondDone, TimesOut, ClosesA, ClosedB, Waits
    <3> QED
      BY <3>1, RelayAre DEF TimerInv
  <2> QED
    BY <2>1, <2>2, <2>3, <2>4 DEF Relays
<1>7. RelayTypes'
  BY <1>1, <1>2, <1>5, <1>6 DEF RelayInv, RelayTypes
<1> QED
  BY <1>1, <1>2, <1>5, <1>6, <1>7, QuietRelay

LEMMA UpReadsKeeps ==
  ASSUME RelayInv, UpReads
  PROVE  RelayInv'
<1>1. /\ copy.up = "read" /\ client.read < MaxChunks
      /\ client' = [client EXCEPT !.read = client.read + 1] /\ copy' = [copy EXCEPT !.up = "write"]
      /\ timer' = Active /\ gate' = gate /\ wire' = wire /\ conn' = conn /\ main' = main /\ ended' = ended
  BY DEF UpReads
<1>2. client' \in SideRec /\ client'.read = client.read + 1 /\ client'.read <= MaxChunks
  BY <1>1, RelayAre, RelayAssumption DEF SideRec
<1>3. copy' \in Copy /\ copy'.up = "write"
  BY <1>1, RelayAre DEF Copy
<1>4. timer' \in Timer /\ TimerInv'
  BY <1>1, ActiveTimer
<1>5. RelayTypes'
  BY <1>1, <1>2, <1>3, <1>4 DEF RelayInv, RelayTypes
<1>6. LockInv'
  BY <1>1, <1>3 DEF RelayInv, LockInv, Done
<1>7. WireInv(Len(wire))' /\ CountInv(Len(wire))'
  BY <1>1, <1>2, <1>3 DEF RelayInv, WireInv, CountInv
<1> QED
  BY <1>4, <1>5, <1>6, <1>7 DEF RelayInv

\* What an upload may leave behind: the wire as it was, or one frame more.
LEMMA UploadTypes ==
  ASSUME RelayInv, Uploads
  PROVE  RelayTypes' /\ TimerInv' /\ client' = client /\ main' = main
<1>1. client' = client /\ main' = main /\ timer' = timer /\ ended' = ended
  BY DEF Uploads, UpReadEnds, UpLocks, UpWrites, UpFins
<1>2. copy' \in Copy
  <2>1. PICK u \in {"read", "write", "writing", "fin", "finning", "ok", "err"} : copy' = [copy EXCEPT !.up = u]
    <3>1. CASE UpReadEnds \/ UpWrites \/ UpFins
      BY <3>1 DEF UpReadEnds, UpWrites, UpFins
    <3>2. CASE UpLocks
      BY <3>2 DEF UpLocks
    <3> QED
      BY <3>1, <3>2 DEF Uploads
  <2> QED
    BY <2>1, RelayAre DEF Copy
<1>3. conn' \in Conn
  <2>1. PICK k \in {"free", "up"}, c \in BOOLEAN, f \in BOOLEAN :
          conn' = conn \/ conn' = [conn EXCEPT !.lock = k]
          \/ conn' = [conn EXCEPT !.lock = k, !.closed = c]
          \/ conn' = [conn EXCEPT !.lock = k, !.failed = f]
          \/ conn' = [conn EXCEPT !.lock = k, !.closed = c, !.failed = f]
    BY DEF Uploads, UpReadEnds, UpLocks, UpWrites, UpFins
  <2> QED
    BY <2>1, RelayAre DEF Conn
<1>4. gate' \in SideRec /\ gate'.read = gate.read
  <2>1. gate' = gate \/ gate' = [gate EXCEPT !.closed = TRUE]
    BY DEF Uploads, UpReadEnds, UpLocks, UpWrites, UpFins
  <2> QED
    BY <2>1, RelayAre DEF SideRec
<1>5. wire' \in Seq({"data", "close", "part"})
  <2>1. PICK w \in {"data", "close", "part"} :
          wire' = wire \/ wire' = Append(wire, w)
          \/ (wire' = [wire EXCEPT ![Len(wire)] = w] /\ copy.up = "writing")
    BY DEF Uploads, UpReadEnds, UpLocks, UpWrites, UpFins
  <2>2. copy.up = "writing" => Len(wire) \in DOMAIN wire
    BY RelayAre DEF RelayInv, WireInv
  <2>3. CASE wire' = wire
    BY <2>3, RelayAre
  <2>4. CASE wire' = Append(wire, w)
    BY <2>4, RelayAre, AppendProperties
  <2>5. CASE wire' = [wire EXCEPT ![Len(wire)] = w] /\ copy.up = "writing"
    BY <2>2, <2>5, RelayAre, ExceptSeq
  <2> QED
    BY <2>1, <2>3, <2>4, <2>5
<1>6. RelayTypes'
  BY <1>1, <1>2, <1>3, <1>4, <1>5 DEF RelayInv, RelayTypes
<1> QED
  BY <1>1, <1>6 DEF RelayInv, TimerInv

LEMMA UploadsKeep ==
  ASSUME RelayInv, Uploads
  PROVE  RelayInv'
<1>1. /\ client' = client /\ main' = main /\ RelayTypes' /\ TimerInv'
      /\ copy \in Copy /\ conn \in Conn /\ gate \in SideRec
      /\ wire \in Seq({"data", "close", "part"}) /\ Len(wire) \in Nat /\ DOMAIN wire = 1 .. Len(wire)
      /\ client.read \in Nat
  BY UploadTypes, RelayAre
<1>2. LockInv /\ WireInv(Len(wire)) /\ CountInv(Len(wire))
  BY DEF RelayInv
<1>3. PICK n \in Nat : n = Len(wire)
  BY <1>1
<1>4. ASSUME LockInv', WireInv(Len(wire))', CountInv(Len(wire))'
      PROVE  RelayInv'
  BY <1>1, <1>4 DEF RelayInv
<1>5. CASE UpReadEnds
  <2>1. /\ copy.up = "read" /\ gate' = gate /\ wire' = wire /\ conn' = conn
        /\ copy' = [copy EXCEPT !.up = "fin"] \/ copy' = [copy EXCEPT !.up = "err"]
    BY <1>5 DEF UpReadEnds
  <2>2. copy'.up \in {"fin", "err"}
    BY <1>1, <2>1 DEF Copy
  <2>3. LockInv'
    BY <1>1, <1>2, <2>1, <2>2 DEF LockInv, Done
  <2>4. WireInv(Len(wire))' /\ CountInv(Len(wire))'
    BY <1>1, <1>2, <2>1, <2>2 DEF WireInv, CountInv
  <2> QED
    BY <1>4, <2>3, <2>4
<1>6. CASE UpLocks
  <2>1. copy.up \in {"write", "fin"} /\ conn.lock = "free" /\ gate' = gate
    BY <1>6 DEF UpLocks
  <2>2. CASE conn.closed
    <3>1. /\ wire' = wire /\ conn' = conn
          /\ copy' = [copy EXCEPT !.up = "err"]
             \/ copy' = [copy EXCEPT !.up = IF conn.failed THEN "err" ELSE "ok"]
      BY <1>6, <2>2 DEF UpLocks
    <3>2. copy'.up \in {"err", "ok"}
      BY <1>1, <3>1 DEF Copy
    <3>3. LockInv'
      BY <1>1, <1>2, <2>1, <2>2, <3>1, <3>2 DEF LockInv, Done
    <3>4. WireInv(Len(wire))'
      BY <1>2, <2>1, <2>2, <3>1, <3>2 DEF WireInv
    <3>5. CountInv(Len(wire))'
      BY <1>2, <2>1, <2>2, <3>1, <3>2 DEF CountInv, LockInv
    <3> QED
      BY <1>4, <3>3, <3>4, <3>5
  <2>3. CASE ~conn.closed /\ copy.up = "write"
    <3>1. /\ copy' = [copy EXCEPT !.up = "writing"] /\ conn' = [conn EXCEPT !.lock = "up"]
          /\ wire' = Append(wire, "part")
      BY <1>6, <2>3 DEF UpLocks
    <3>2. /\ copy'.up = "writing" /\ conn'.lock = "up" /\ conn'.closed = conn.closed
          /\ conn'.failed = conn.failed /\ conn'.once = conn.once
      BY <1>1, <3>1 DEF Copy, Conn
    <3>3. Len(wire') = n + 1 /\ \A i \in 1..n : wire'[i] = wire[i]
      BY <1>1, <1>3, <3>1, AppendProperties
    <3>4. LockInv'
      BY <1>1, <1>2, <2>1, <2>3, <3>2 DEF LockInv, Done
    <3>5. \A i \in 1..n : wire'[i] = "data"
      BY <1>2, <1>3, <2>1, <2>3, <3>3 DEF WireInv
    <3>6. WireInv(Len(wire))'
      BY <3>2, <3>3, <3>5 DEF WireInv
    <3>7. CountInv(Len(wire))'
      BY <1>1, <1>2, <1>3, <2>3, <3>2, <3>3 DEF CountInv
    <3> QED
      BY <1>4, <3>4, <3>6, <3>7
  <2>4. CASE ~conn.closed /\ copy.up = "fin"
    <3>1. /\ copy' = [copy EXCEPT !.up = "finning"] /\ conn' = [conn EXCEPT !.lock = "up", !.closed = TRUE]
          /\ wire' = wire
      BY <1>6, <2>4 DEF UpLocks
    <3>2. /\ copy'.up = "finning" /\ conn'.lock = "up" /\ conn'.closed
          /\ conn'.failed = conn.failed /\ conn'.once = conn.once
      BY <1>1, <3>1 DEF Copy, Conn
    <3>3. LockInv'
      BY <1>1, <1>2, <2>1, <2>4, <3>2 DEF LockInv, Done
    <3>4. WireInv(Len(wire))'
      BY <1>2, <2>1, <2>4, <3>1, <3>2 DEF WireInv
    <3>5. CountInv(Len(wire))'
      BY <1>1, <1>2, <2>4, <3>1, <3>2 DEF CountInv
    <3> QED
      BY <1>4, <3>3, <3>4, <3>5
  <2> QED
    BY <2>1, <2>2, <2>3, <2>4
<1>7. CASE UpWrites
  <2>1. copy.up = "writing" /\ n > 0
    BY <1>2, <1>3, <1>7 DEF UpWrites, WireInv
  <2>2. CASE /\ wire' = [wire EXCEPT ![Len(wire)] = "data"] /\ conn' = [conn EXCEPT !.lock = "free"]
             /\ copy' = [copy EXCEPT !.up = "read"] /\ gate' = gate
    <3>1. /\ copy'.up = "read" /\ conn'.lock = "free" /\ conn'.closed = conn.closed
          /\ conn'.failed = conn.failed /\ conn'.once = conn.once
      BY <1>1, <2>2 DEF Copy, Conn
    <3>2. Len(wire') = n /\ \A i \in 1..n : wire'[i] = IF i = n THEN "data" ELSE wire[i]
      BY <1>1, <1>3, <2>1, <2>2, ExceptSeq
    <3>3. \A i \in 1..n : wire'[i] = "data"
      BY <1>2, <1>3, <3>2 DEF WireInv
    <3>4. LockInv'
      BY <1>1, <1>2, <2>1, <2>2, <3>1 DEF LockInv, Done
    <3>5. WireInv(Len(wire))'
      BY <3>1, <3>2, <3>3 DEF WireInv
    <3>6. CountInv(Len(wire))'
      BY <1>1, <1>2, <1>3, <2>1, <3>1, <3>2 DEF CountInv
    <3> QED
      BY <1>4, <3>4, <3>5, <3>6
  <2>3. CASE /\ conn' = [conn EXCEPT !.lock = "free", !.closed = TRUE, !.failed = TRUE]
             /\ gate' = [gate EXCEPT !.closed = TRUE]
             /\ copy' = [copy EXCEPT !.up = "err"] /\ wire' = wire
    <3>1. /\ copy'.up = "err" /\ conn'.lock = "free" /\ conn'.closed /\ conn'.failed
          /\ conn'.once = conn.once /\ gate'.closed
      BY <1>1, <2>3 DEF Copy, Conn, SideRec
    <3>2. LockInv'
      BY <1>1, <1>2, <2>1, <3>1 DEF LockInv, Done
    <3>3. WireInv(Len(wire))' /\ CountInv(Len(wire))'
      BY <1>2, <2>3, <3>1 DEF WireInv, CountInv
    <3> QED
      BY <1>4, <3>2, <3>3
  <2> QED
    BY <1>7, <2>2, <2>3 DEF UpWrites
<1>8. CASE UpFins
  <2>1. /\ copy.up = "finning" /\ conn.closed /\ conn.lock = "up"
        /\ \A i \in 1..n : wire[i] = "data"
    BY <1>2, <1>3, <1>8 DEF UpFins, WireInv, LockInv
  <2>2. CASE /\ wire' = Append(wire, "close") /\ conn' = [conn EXCEPT !.lock = "free"]
             /\ copy' = [copy EXCEPT !.up = "ok"] /\ gate' = gate
    <3>1. /\ copy'.up = "ok" /\ conn'.lock = "free" /\ conn'.closed = conn.closed
          /\ conn'.failed = conn.failed /\ conn'.once = conn.once
      BY <1>1, <2>2 DEF Copy, Conn
    <3>2. Len(wire') = n + 1 /\ wire'[n + 1] = "close" /\ \A i \in 1..n : wire'[i] = wire[i]
      BY <1>1, <1>3, <2>2, AppendProperties
    <3>3. LockInv'
      BY <1>1, <1>2, <2>1, <2>2, <3>1 DEF LockInv, Done
    <3>4. WireInv(Len(wire))'
      BY <2>1, <3>1, <3>2 DEF WireInv
    <3>5. CountInv(Len(wire))'
      BY <1>1, <1>2, <1>3, <2>1, <3>1, <3>2 DEF CountInv
    <3> QED
      BY <1>4, <3>3, <3>4, <3>5
  <2>3. CASE /\ conn' = [conn EXCEPT !.lock = "free", !.failed = TRUE]
             /\ gate' = [gate EXCEPT !.closed = TRUE]
             /\ copy' = [copy EXCEPT !.up = "err"] /\ wire' = wire
    <3>1. /\ copy'.up = "err" /\ conn'.lock = "free" /\ conn'.closed = conn.closed /\ conn'.failed
          /\ conn'.once = conn.once /\ gate'.closed
      BY <1>1, <2>3 DEF Copy, Conn, SideRec
    <3>2. LockInv'
      BY <1>1, <1>2, <2>1, <3>1 DEF LockInv, Done
    <3>3. WireInv(Len(wire))' /\ CountInv(Len(wire))'
      BY <1>2, <2>1, <2>3, <3>1 DEF WireInv, CountInv
    <3> QED
      BY <1>4, <3>2, <3>3
  <2> QED
    BY <1>8, <2>2, <2>3 DEF UpFins
<1> QED
  BY <1>5, <1>6, <1>7, <1>8 DEF Uploads

LEMMA ClosingKeeps ==
  ASSUME RelayInv, Closing
  PROVE  RelayInv'
<1>1. /\ copy' = copy /\ client' = client /\ main' = main /\ timer' = timer /\ ended' = ended
      /\ copy \in Copy /\ conn \in Conn /\ gate \in SideRec
      /\ wire \in Seq({"data", "close", "part"}) /\ Len(wire) \in Nat /\ DOMAIN wire = 1 .. Len(wire)
  BY RelayAre DEF Closing, CloseBegins, CloseFrames
<1>2. LockInv /\ WireInv(Len(wire)) /\ RelayTypes /\ TimerInv
  BY DEF RelayInv
<1>3. TimerInv'
  BY <1>1, <1>2 DEF TimerInv
<1>4. PICK n \in Nat : n = Len(wire)
  BY <1>1
<1>5. CASE CloseBegins
  <2>1. /\ conn.once = "no" /\ conn' = CloseTries /\ wire' = wire
        /\ gate' = [gate EXCEPT !.closed = gate.closed \/ conn'.once = "done"]
    BY <1>5 DEF CloseBegins
  <2>2. /\ gate' \in SideRec /\ gate'.closed = (gate.closed \/ conn'.once = "done")
        /\ gate'.read = gate.read
    BY <1>1, <2>1 DEF SideRec
  <2>3. CASE conn.lock # "free" \/ conn.closed
    <3>1. conn' = [conn EXCEPT !.once = "done"]
      BY <2>1, <2>3 DEF CloseTries
    <3>2. /\ conn' \in Conn /\ conn'.once = "done" /\ conn'.lock = conn.lock
          /\ conn'.closed = conn.closed /\ conn'.failed = conn.failed
      BY <1>1, <3>1 DEF Conn
    <3>3. RelayTypes'
      BY <1>1, <1>2, <2>1, <2>2, <3>2 DEF RelayTypes
    <3>4. LockInv'
      BY <1>1, <1>2, <2>1, <2>2, <3>2 DEF LockInv, Done
    <3>5. WireInv(Len(wire))' /\ CountInv(Len(wire))'
      BY <1>1, <1>2, <2>1, <3>2 DEF WireInv, CountInv
    <3> QED
      BY <1>3, <3>3, <3>4, <3>5 DEF RelayInv
  <2>4. CASE conn.lock = "free" /\ ~conn.closed
    <3>1. conn' = [conn EXCEPT !.once = "frame", !.lock = "close", !.closed = TRUE]
      BY <2>1, <2>4 DEF CloseTries
    <3>2. /\ conn' \in Conn /\ conn'.once = "frame" /\ conn'.lock = "close"
          /\ conn'.closed /\ conn'.failed = conn.failed
      BY <1>1, <3>1 DEF Conn
    <3>3. RelayTypes'
      BY <1>1, <1>2, <2>1, <2>2, <3>2 DEF RelayTypes
    <3>4. LockInv'
      BY <1>1, <1>2, <2>1, <2>2, <2>4, <3>2 DEF LockInv, Done
    <3>5. WireInv(Len(wire))' /\ CountInv(Len(wire))'
      BY <1>1, <1>2, <2>1, <2>4, <3>2 DEF WireInv, CountInv, LockInv
    <3> QED
      BY <1>3, <3>3, <3>4, <3>5 DEF RelayInv
  <2> QED
    BY <2>3, <2>4
<1>6. CASE CloseFrames
  <2>1. conn.once = "frame" /\ gate' = [gate EXCEPT !.closed = TRUE]
    BY <1>6 DEF CloseFrames
  <2>2. gate' \in SideRec /\ gate'.closed /\ gate'.read = gate.read
    BY <1>1, <2>1 DEF SideRec
  <2>3. /\ conn' \in Conn /\ conn'.once = "done" /\ conn'.lock = "free" /\ conn'.closed = conn.closed
    <3>1. PICK b \in BOOLEAN : \/ conn' = [conn EXCEPT !.once = "done", !.lock = "free"]
                               \/ conn' = [conn EXCEPT !.once = "done", !.lock = "free", !.failed = b]
      BY <1>6 DEF CloseFrames
    <3> QED
      BY <1>1, <3>1 DEF Conn
  <2>4. conn.lock = "close" /\ conn.closed /\ \A i \in 1..n : wire[i] = "data"
    BY <1>2, <1>4, <2>1 DEF LockInv, WireInv
  <2>5. LockInv'
    BY <1>1, <1>2, <2>1, <2>2, <2>3, <2>4 DEF LockInv, Done
  <2>6. CountInv(Len(wire))'
    BY <2>3 DEF CountInv
  <2>7. CASE wire' = Append(wire, "close")
    <3>1. /\ wire' \in Seq({"data", "close", "part"})
          /\ Len(wire') = n + 1 /\ \A i \in 1..n : wire'[i] = wire[i]
      BY <1>1, <1>4, <2>7, AppendProperties
    <3>2. RelayTypes'
      BY <1>1, <1>2, <2>2, <2>3, <3>1 DEF RelayTypes
    <3>3. WireInv(Len(wire))'
      BY <1>1, <1>2, <2>3, <2>4, <3>1 DEF WireInv, LockInv
    <3> QED
      BY <1>3, <2>5, <2>6, <3>2, <3>3 DEF RelayInv
  <2>8. CASE wire' = wire
    <3>1. RelayTypes'
      BY <1>1, <1>2, <2>2, <2>3, <2>8 DEF RelayTypes
    <3>2. WireInv(Len(wire))'
      BY <1>1, <1>2, <2>3, <2>4, <2>8 DEF WireInv, LockInv
    <3> QED
      BY <1>3, <2>5, <2>6, <3>1, <3>2 DEF RelayInv
  <2> QED
    BY <1>6, <2>7, <2>8 DEF CloseFrames
<1> QED
  BY <1>5, <1>6 DEF Closing

LEMMA RelayNextKeeps ==
  ASSUME RelayInv, RelayNext
  PROVE  RelayInv'
BY PeersKeep, UpReadsKeeps, DownsKeep, UploadsKeep, ClosingKeeps, RelaysKeep DEF RelayNext, Reads

-----------------------------------------------------------------------------
(* The dial *)

\* resolve refuses what is a gateway under its host, and a name that leads to
\* one, by whatever rule its address was found.
LEMMA NeverAGateway ==
  ASSUME NEW cred, NEW request, NEW answer, NEW T,
         T = Resolution(cred, request, answer, "tcp"), T # Refused
  PROVE  OffGateways(cred, request, T)
<1> DEFINE Target(ip, app, byName) == [ip |-> ip, app |-> app, byName |-> byName]
           Routed(ip, app, byName) ==
      IF ip = Unknown \/ IsGatewayTarget(cred, request.host, ip, request.port) THEN Refused
      ELSE Target(ip, app, byName)
<1>1. ~IsGatewayTarget(cred, request.host, Unknown, request.port)
  BY DEF Resolution
<1>2. \A g \in cred.gateways : g.port = request.port => g.host # request.host
  BY <1>1 DEF IsGatewayTarget
<1>3. ASSUME ~IsLiteral(request.host)
      PROVE  \A g \in cred.gateways : g.port = request.port => g.host.ip # T.ip
  <2>1. \E ip, app, byName : T = Routed(ip, app, byName)
    BY <1>1, <1>3 DEF Resolution
  <2>2. PICK ip, app, byName : T = Routed(ip, app, byName)
    BY <2>1
  <2>3. /\ ip # Unknown /\ ~IsGatewayTarget(cred, request.host, ip, request.port)
        /\ T = [ip |-> ip, app |-> app, byName |-> byName]
    BY <2>2
  <2> QED
    BY <2>3 DEF IsGatewayTarget, IsLiteral
<1> QED
  BY <1>2, <1>3 DEF OffGateways

\* Without an exception for it, the lines are those of the application's group.
LEMMA LinesOfGroup ==
  ASSUME NEW cred, NEW target
  PROVE  OwnLines(cred, target, GatewaysForGroup(cred, GatewayGroupForApp(cred.policy, target.app)))
<1>1. PICK group : group = GatewayGroupForApp(cred.policy, target.app)
  OBVIOUS
<1>2. PICK own : own = IF group \in DOMAIN cred.policy.groups THEN cred.policy.groups[group] ELSE {}
  OBVIOUS
<1>3. ASSUME ~cred.legacyOverride, ~cred.missingGroupFallback, group # "none"
      PROVE  GatewaysForGroup(cred, group) \subseteq own
  <2>1. \/ GatewaysForGroup(cred, group) = own
        \/ GatewaysForGroup(cred, group) = own \cap cred.gateways
    BY <1>2, <1>3 DEF GatewaysForGroup
  <2> QED
    BY <2>1
<1> QED
  BY <1>1, <1>2, <1>3 DEF OwnLines

LEMMA ResolvesKeeps ==
  ASSUME DialInv, Resolves
  PROVE  DialInv'
<1>1. DialShape /\ dial.pc = "resolve" /\ input' = input
  BY DEF DialInv, Resolves
<1>2. PICK cred, request : cred = input.cred /\ request = input.request
  OBVIOUS
<1>3. PICK answer, T : /\ T = Resolution(cred, request, answer, "tcp")
        /\ dial' = [dial EXCEPT
             !.pc = IF T = Refused \/ T.app = NoApp THEN "refused" ELSE "resolved",
             !.target = T,
             !.lines = GatewaysForGroup(cred, GatewayGroupForApp(cred.policy, T.app)),
             !.preferL3 = Preferred(cred, T.app),
             !.fallback = cred.allowTCPFallback]
  BY <1>2 DEF Resolves
<1>4. PICK L, pc : /\ L = GatewaysForGroup(cred, GatewayGroupForApp(cred.policy, T.app))
                   /\ pc = IF T = Refused \/ T.app = NoApp THEN "refused" ELSE "resolved"
  OBVIOUS
<1>5. PICK p, f : dial' = [pc |-> pc, target |-> T, lines |-> L, preferL3 |-> p, fallback |-> f,
                           left |-> dial.left, last |-> dial.last]
  <2>1. PICK p, f : p = Preferred(cred, T.app) /\ f = cred.allowTCPFallback
    OBVIOUS
  <2>2. dial' = [dial EXCEPT !.pc = pc, !.target = T, !.lines = L, !.preferL3 = p, !.fallback = f]
    BY <1>3, <1>4, <2>1
  <2>3. dial' = [pc |-> pc, target |-> T, lines |-> L, preferL3 |-> p, fallback |-> f,
                 left |-> dial.left, last |-> dial.last]
    BY <1>1, <2>2 DEF DialShape
  <2> QED
    BY <2>3
<1>6. dial.last \notin {"auth", "denied", "refused"}
  BY <1>1 DEF DialShape
<1>7. DialShape'
  BY <1>4, <1>5, <1>6 DEF DialShape, DialPoints
<1>8. LinesAuthorised'
  <2>1. ASSUME pc = "resolved"
        PROVE  OffGateways(cred, request, T)
    BY <1>3, <1>4, <2>1, NeverAGateway
  <2>2. OwnLines(cred, T, L)
    BY <1>4, LinesOfGroup
  <2> QED
    BY <1>1, <1>2, <1>5, <2>1, <2>2 DEF LinesAuthorised
<1>9. Asked' /\ AppNamed'
  <2>1. cred \in Creds
    BY <1>1, <1>2 DEF DialInv, Asked
  <2>2. cred.policy.apps \in Seq(Apps)
    BY <2>1, PolicyAssumption
  <2>3. pc = "resolved" => T.app # NoApp
    BY <1>4
  <2>4. pc = "resolved" => T.app = AppOf(cred, request, T.ip)
    BY <1>3, <2>2, <2>3, ResolvedAsNamed
  <2>5. pc # "resolve"
    BY <1>4
  <2> QED
    BY <1>1, <1>2, <1>5, <2>4, <2>5 DEF Asked, AppNamed
<1> QED
  BY <1>7, <1>8, <1>9 DEF DialInv

\* The dial leaves the point where it is resolved, or does not come to it.
LEMMA DialMoves ==
  ASSUME DialInv, NEW pc \in DialPoints \ {"resolved"}, NEW left, NEW last,
         pc = "resolve" => input'.cred \in Creds,
         \/ dial' = [dial EXCEPT !.pc = pc, !.left = left, !.last = last]
         \/ dial' = [dial EXCEPT !.pc = pc, !.left = left] /\ last = dial.last
         \/ dial' = [dial EXCEPT !.pc = pc, !.last = last] /\ left = dial.left
         \/ dial' = [dial EXCEPT !.left = left, !.last = last] /\ pc = dial.pc
         \/ dial' = [dial EXCEPT !.pc = pc] /\ left = dial.left /\ last = dial.last,
         last \in {"auth", "denied", "refused"} => pc = "refused"
  PROVE  DialInv'
<1>1. dial' = [pc |-> pc, target |-> dial.target, lines |-> dial.lines,
               preferL3 |-> dial.preferL3, fallback |-> dial.fallback, left |-> left, last |-> last]
  BY DEF DialInv, DialShape
<1>2. DialShape'
  BY <1>1 DEF DialShape
<1>3. Asked' /\ AppNamed' /\ LinesAuthorised'
  BY <1>1 DEF Asked, AppNamed, LinesAuthorised
<1> QED
  BY <1>2, <1>3 DEF DialInv

LEMMA DialNextKeeps ==
  ASSUME DialInv, Requested \/ Dialling \/ SetupEnds \/ dial' = NoDial
  PROVE  DialInv'
<1>1. PICK left, last : left = dial.left /\ last = dial.last
  OBVIOUS
<1>2. last \in {"auth", "denied", "refused"} => dial.pc = "refused"
  BY <1>1 DEF DialInv, DialShape
<1>3. CASE Requested
  <2>1. dial.pc = "none" /\ dial' = [dial EXCEPT !.pc = "resolve"]
    BY <1>3 DEF Requested
  <2>2. "resolve" \in DialPoints \ {"resolved"}
    BY DEF DialPoints
  <2>3. input'.cred \in Creds
    BY <1>3 DEF Requested
  <2> QED
    BY <1>1, <1>2, <2>1, <2>2, <2>3, DialMoves
<1>4. CASE Resolves
  BY <1>4, ResolvesKeeps
<1>5. CASE ChoosesPath
  <2>1. PICK n, pc : /\ n = Cardinality(dial.lines)
                     /\ pc = IF dial.lines = {} THEN "refused" ELSE "direct"
    OBVIOUS
  <2>2. \/ dial' = [dial EXCEPT !.pc = "l3", !.left = MaxAttempts]
        \/ dial' = [dial EXCEPT !.pc = pc, !.left = n]
    <3>1. dial' = IF dial.preferL3 THEN [dial EXCEPT !.pc = "l3", !.left = MaxAttempts]
                  ELSE [dial EXCEPT !.pc = pc, !.left = n]
      BY <1>5, <2>1 DEF ChoosesPath
    <3> QED
      BY <3>1
  <2>3. /\ dial.pc = "resolved" /\ "l3" \in DialPoints \ {"resolved"}
        /\ pc \in DialPoints \ {"resolved"} /\ pc # "resolve"
    BY <1>5, <2>1 DEF ChoosesPath, DialPoints
  <2>4. CASE dial' = [dial EXCEPT !.pc = "l3", !.left = MaxAttempts]
    BY <1>1, <1>2, <2>3, <2>4, DialMoves
  <2>5. CASE dial' = [dial EXCEPT !.pc = pc, !.left = n]
    BY <1>1, <1>2, <2>3, <2>5, DialMoves
  <2> QED
    BY <2>2, <2>4, <2>5
<1>6. CASE DirectAttempt
  <2>1. dial.pc = "direct" /\ {"direct", "direct stream", "l3", "refused"} \subseteq DialPoints \ {"resolved"}
    BY <1>6 DEF DirectAttempt, DialPoints
  <2>2. PICK v \in Verdicts :
          \/ dial' = [dial EXCEPT !.pc = "direct stream"]
          \/ dial' = AfterDirect(v)
          \/ v \notin Terminal /\ dial' = [dial EXCEPT !.last = v, !.left = @ - 1]
    BY <1>6 DEF DirectAttempt
  <2>3. CASE dial' = [dial EXCEPT !.pc = "direct stream"]
    BY <1>1, <1>2, <2>1, <2>3, DialMoves
  <2>4. CASE dial' = AfterDirect(v) /\ FallsBack(v)
    <3>1. /\ dial' = [dial EXCEPT !.pc = "l3", !.left = MaxAttempts, !.last = v]
          /\ v \in {"incomplete", "unsupported"}
      BY <2>4 DEF AfterDirect, FallsBack
    <3> QED
      BY <2>1, <3>1, DialMoves
  <2>5. CASE dial' = AfterDirect(v) /\ ~FallsBack(v)
    <3>1. dial' = [dial EXCEPT !.pc = "refused", !.last = v]
      BY <2>5 DEF AfterDirect
    <3> QED
      BY <1>1, <2>1, <3>1, DialMoves
  <2>6. CASE v \notin Terminal /\ dial' = [dial EXCEPT !.last = v, !.left = @ - 1]
    <3>1. PICK n : n = dial.left - 1
      OBVIOUS
    <3>2. dial' = [dial EXCEPT !.left = n, !.last = v]
      BY <2>6, <3>1
    <3>3. v \notin {"auth", "denied", "refused"}
      BY <2>2, <2>6 DEF Terminal, Verdicts
    <3> QED
      BY <2>1, <3>2, <3>3, DialMoves
  <2> QED
    BY <2>2, <2>3, <2>4, <2>5, <2>6
<1>7. CASE L3Attempt
  <2>1. PICK v \in {"ok", "refused", "auth", "busy", "other"}, pc \in {"L3 stream", "refused", "l3"} :
          /\ dial' = [dial EXCEPT !.last = v, !.left = @ - 1, !.pc = pc]
          /\ v \in {"refused", "auth"} => pc = "refused"
    BY <1>7 DEF L3Attempt
  <2>2. PICK n : n = dial.left - 1
    OBVIOUS
  <2>3. dial' = [dial EXCEPT !.pc = pc, !.left = n, !.last = v]
    BY <2>1, <2>2
  <2>4. pc \in DialPoints \ {"resolved"}
    BY DEF DialPoints
  <2> QED
    BY <2>1, <2>3, <2>4, DialMoves
<1>8. CASE SetupEnds
  <2>1. dial' = [dial EXCEPT !.pc = "refused"] /\ "refused" \in DialPoints \ {"resolved"}
    BY <1>8 DEF SetupEnds, DialPoints
  <2> QED
    BY <1>1, <2>1, DialMoves
<1>9. CASE dial' = NoDial
  BY <1>9 DEF DialInv, DialShape, Asked, AppNamed, LinesAuthorised, NoDial, DialPoints
<1> QED
  BY <1>3, <1>4, <1>5, <1>6, <1>7, <1>8, <1>9 DEF Dialling

-----------------------------------------------------------------------------
(* The server *)

\* The server's own steps only close the client's connection.
LEMMA RelayServed ==
  ASSUME RelayInv, NEW b \in BOOLEAN, client' = client \/ client' = [client EXCEPT !.closed = b],
         UNCHANGED <<gate, wire, copy, conn, main, timer, ended>>
  PROVE  RelayInv'
<1>1. /\ gate' = gate /\ wire' = wire /\ copy' = copy /\ conn' = conn
      /\ main' = main /\ timer' = timer /\ ended' = ended
  OBVIOUS
<1>2. client' \in SideRec /\ client'.read = client.read
  BY RelayAre DEF SideRec
<1>3. RelayTypes' /\ TimerInv'
  BY <1>1, <1>2 DEF RelayInv, RelayTypes, TimerInv
<1>4. /\ main \in {"wait", "end"} => conn.once = "done"
      /\ main = "end" => Done("up")
  BY DEF RelayInv, LockInv
<1> QED
  BY <1>1, <1>2, <1>3, <1>4, QuietRelay

LEMMA RelayOverKeeps ==
  ASSUME RelayInv, RelayOver
  PROVE  RelayInv'
<1>1. /\ main = "end" /\ client' = [client EXCEPT !.closed = TRUE] /\ wire' = <<>>
      /\ timer' = [age |-> 0, activity |-> FALSE, quiet |-> 0]
      /\ gate' = gate /\ copy' = copy /\ conn' = conn /\ main' = main /\ ended' = ended
  BY DEF RelayOver, Over
<1>2. conn.once = "done" /\ Done("up")
  BY <1>1 DEF RelayInv, LockInv
<1>3. client' \in SideRec /\ client'.read = client.read
  BY <1>1, RelayAre DEF SideRec
<1>4. timer' \in Timer /\ TimerInv'
  BY <1>1 DEF Timer, TimerInv
<1>5. wire' \in Seq({"data", "close", "part"}) /\ Len(wire') = 0
  BY <1>1
<1>6. RelayTypes'
  BY <1>1, <1>3, <1>4, <1>5 DEF RelayInv, RelayTypes
<1>7. LockInv'
  BY <1>1 DEF RelayInv, LockInv, Done
<1>8. WireInv(Len(wire))' /\ CountInv(Len(wire))'
  BY <1>1, <1>2, <1>5 DEF RelayInv, WireInv, CountInv, LockInv, Done
<1> QED
  BY <1>4, <1>6, <1>7, <1>8 DEF RelayInv

LEMMA DialStands ==
  ASSUME DialInv, UNCHANGED dialVars
  PROVE  DialInv'
BY DEF DialInv, DialShape, Asked, AppNamed, LinesAuthorised, dialVars

LEMMA FlowsStand ==
  ASSUME FlowsInv, UNCHANGED flowVars
  PROVE  FlowsInv'
<1>1. table' = table /\ flows' = flows /\ sender' = sender /\ socket' = socket /\ socket \in BOOLEAN
  BY DEF flowVars, FlowsInv, FlowsTypes
<1> QED
  BY <1>1, FlowsCancelled

LEMMA RelayStands ==
  ASSUME RelayInv, UNCHANGED relayVars
  PROVE  RelayInv'
BY RelayServed DEF relayVars

\* Our end of the client's connection, and the socket, are not opened again.
LEMMA StaysClosed ==
  /\ RelayInv /\ RelayNext /\ client.closed => client'.closed
  /\ FlowsInv /\ FlowsNext /\ ~socket => ~socket'
<1>1. ASSUME RelayInv, RelayNext, client.closed
      PROVE  client'.closed
  <2>1. client \in SideRec
    BY <1>1, RelayAre
  <2>2. PICK e, n : \/ client' = client
                    \/ client' = [client EXCEPT !.end = e]
                    \/ client' = [client EXCEPT !.stalled = TRUE]
                    \/ client' = [client EXCEPT !.read = n]
                    \/ client' = [client EXCEPT !.closed = TRUE]
    <3>1. CASE Peers
      BY <3>1 DEF Peers, Changes
    <3>2. CASE Reads
      BY <3>2 DEF Reads, UpReads, DownReads
    <3>3. CASE Uploads
      BY <3>3 DEF Uploads, UpReadEnds, UpLocks, UpWrites, UpFins
    <3>4. CASE Downloads \/ Closing
      BY <3>4 DEF Downloads, DownReadEnds, DownWrites, Closing, CloseBegins, CloseFrames
    <3>5. CASE Relays \/ Tick
      BY <3>5 DEF Relays, Tick, FirstDone, Activity, SecondDone, TimesOut, ClosesA, ClosedB, Waits
    <3> QED
      BY <1>1, <3>1, <3>2, <3>3, <3>4, <3>5 DEF RelayNext
  <2> QED
    BY <1>1, <2>1, <2>2 DEF SideRec
<1>2. ASSUME FlowsInv, FlowsNext, ~socket
      PROVE  ~socket'
  <2>1. CASE Sending
    BY <1>2, <2>1 DEF Sending, Receives, Finds, FlowDials, Enters, Writes, Removes, Retries, Leaves
  <2>2. CASE TableCloses \/ ControlEnds
    BY <1>2, <2>2 DEF TableCloses, TableCloseBegins, CloseFlow, ControlEnds
  <2>3. CASE \E f \in DOMAIN flows : Reading(f)
    BY <1>2, <2>3 DEF Reading, Arrives, ReadFails, ReaderRemoves, ReaderCloses, ReaderLeaves
  <2> QED
    BY <1>2, <2>1, <2>2, <2>3 DEF FlowsNext
<1> QED
  BY <1>1, <1>2

LEMMA ServerInit ==
  Init => ServerInv
<1> SUFFICES ASSUME Init PROVE ServerInv
  OBVIOUS
<1>1. FlowsInv
  <2>1. /\ flows = <<>> /\ sender = Idle /\ socket = TRUE
        /\ table = [flows |-> {}, cancelled |-> FALSE, closed |-> FALSE, once |-> "no", doomed |-> {}]
    BY DEF Init, FlowsInit
  <2>2. FlowsTypes
    <3>1. Len(flows) = 0 /\ flows \in Seq(Flow)
      BY <2>1
    <3>2. table \in Table /\ table.flows = {} /\ table.doomed = {}
      BY <2>1 DEF Table
    <3>3. sender \in Sender /\ sender.pc = "read"
      BY <2>1 DEF Idle, Sender, Points
    <3> QED
      BY <2>1, <3>1, <3>2, <3>3, FlowsAssumption DEF FlowsTypes
  <2>3. EntriesInv
    BY <2>1, FS_EmptySet, FlowsAssumption DEF EntriesInv
  <2>4. SenderInv /\ TableInv /\ OpenInv
    BY <2>1 DEF SenderInv, TableInv, OpenInv, Idle
  <2> QED
    BY <2>2, <2>3, <2>4 DEF FlowsInv
<1>2. RelayInv
  <2>1. /\ client = Side /\ gate = Side /\ wire = <<>> /\ main = "first" /\ ended = FALSE
        /\ copy = [up |-> "read", down |-> "read"]
        /\ conn = [lock |-> "free", closed |-> FALSE, failed |-> FALSE, once |-> "no"]
        /\ timer = [age |-> 0, activity |-> FALSE, quiet |-> 0]
    BY DEF Init, RelayInit
  <2>2. RelayTypes
    <3>1. Side \in SideRec /\ Side.read = 0
      BY DEF Side, SideRec
    <3>2. copy \in Copy /\ conn \in Conn /\ timer \in Timer
      BY <2>1 DEF Copy, Conn, Timer
    <3>3. wire \in Seq({"data", "close", "part"})
      BY <2>1
    <3>4. client.read <= MaxChunks /\ gate.read <= MaxChunks
      BY <2>1, <3>1, RelayAssumption
    <3> QED
      BY <2>1, <3>1, <3>2, <3>3, <3>4 DEF RelayTypes
  <2>3. LockInv /\ TimerInv
    BY <2>1 DEF LockInv, TimerInv, Done
  <2>4. Len(wire) = 0 /\ client.read = 0
    BY <2>1 DEF Side
  <2>5. WireInv(Len(wire)) /\ CountInv(Len(wire))
    BY <2>1, <2>4 DEF WireInv, CountInv
  <2> QED
    BY <2>2, <2>3, <2>5 DEF RelayInv
<1>3. DialInv
  BY DEF Init, DialInit, NoDial, DialInv, DialShape, DialPoints, Asked, AppNamed, LinesAuthorised
<1>4. StopInv
  BY DEF Init, StopInv, Runs, Handlers
<1> QED
  BY <1>1, <1>2, <1>3, <1>4 DEF ServerInv

\* Run and the accept loop.
LEMMA RunKeeps ==
  ASSUME ServerInv, ContextEnds \/ Running \/ Accepts \/ Accepting
  PROVE  ServerInv'
<1>1. FlowsInv /\ RelayInv /\ DialInv /\ StopInv /\ FlowsTypes /\ client \in SideRec
  BY RelayAre DEF ServerInv, FlowsInv
<1>2. CASE ContextEnds
  <2>1. PICK c \in BOOLEAN : c = (table.cancelled \/ handler = "udp")
    OBVIOUS
  <2>2. /\ table' = [table EXCEPT !.cancelled = c] /\ flows' = flows /\ sender' = sender
        /\ socket' = socket /\ UNCHANGED dialVars /\ UNCHANGED relayVars
    BY <1>2, <2>1 DEF ContextEnds
  <2>3. FlowsInv' /\ RelayInv' /\ DialInv'
    BY <1>1, <2>2, FlowsCancelled, RelayStands, DialStands DEF FlowsTypes
  <2>4. /\ run = "serve" /\ run' = "join" /\ accept' = accept /\ tracked' = tracked
        /\ handler' = handler
    BY <1>2 DEF ContextEnds
  <2>5. StopInv'
    BY <1>1, <2>4 DEF StopInv, Runs
  <2> QED
    BY <2>3, <2>5 DEF ServerInv
<1>3. CASE ClosesConns
  <2>1. PICK b \in BOOLEAN : b = (client.closed \/ "client" \in tracked)
    OBVIOUS
  <2>2. /\ client' = [client EXCEPT !.closed = b]
        /\ socket' = (socket /\ "socket" \notin tracked)
        /\ run = "close" /\ run' = "wait" /\ accept' = accept /\ tracked' = tracked /\ handler' = handler
        /\ UNCHANGED dialVars /\ flows' = flows /\ table' = table /\ sender' = sender
        /\ UNCHANGED <<gate, wire, copy, conn, main, timer, ended>>
    BY <1>3, <2>1 DEF ClosesConns
  <2>3. FlowsInv' /\ RelayInv' /\ DialInv'
    BY <1>1, <2>2, FlowsCancelled, RelayServed, DialStands
  <2>4. StopInv'
    <3>1. "client" \in tracked => client'.closed
      BY <1>1, <2>1, <2>2 DEF SideRec
    <3> QED
      BY <1>1, <2>2, <3>1 DEF StopInv, Runs
  <2> QED
    BY <2>3, <2>4 DEF ServerInv
<1>4. CASE Joins \/ Returns \/ Accepts \/ Accepting
  <2>1. UNCHANGED dialVars /\ UNCHANGED relayVars /\ UNCHANGED flowVars
    BY <1>4 DEF Joins, Returns, Accepts, Accepting, Tracks, AcceptFails
  <2>2. FlowsInv' /\ RelayInv' /\ DialInv'
    BY <1>1, <2>1, FlowsStand, RelayStands, DialStands
  <2>3. client' = client /\ socket' = socket
    BY <2>1 DEF relayVars, flowVars
  <2>4. StopInv'
    <3>1. CASE Joins
      BY <1>1, <2>3, <3>1 DEF Joins, StopInv, Runs
    <3>2. CASE Returns
      BY <1>1, <2>3, <3>2 DEF Returns, StopInv, Runs
    <3>3. CASE Accepts
      BY <1>1, <2>3, <3>3 DEF Accepts, StopInv, Runs
    <3>4. CASE Accepting
      BY <1>1, <2>3, <3>4 DEF Accepting, Tracks, AcceptFails, StopInv, Runs, Handlers
    <3> QED
      BY <1>4, <3>1, <3>2, <3>3, <3>4
  <2> QED
    BY <2>2, <2>4 DEF ServerInv
<1> QED
  BY <1>2, <1>3, <1>4 DEF Running

LEMMA HandlerKeeps ==
  ASSUME ServerInv, Connects \/ Associates \/ Dials \/ Handling
  PROVE  ServerInv'
<1>1. FlowsInv /\ RelayInv /\ DialInv /\ StopInv /\ FlowsTypes /\ client \in SideRec
  BY RelayAre DEF ServerInv, FlowsInv
<1>2. ASSUME Over, run' = run, accept' = accept, socket' = socket
      PROVE  StopInv'
  BY <1>1, <1>2 DEF Over, StopInv, Handlers
<1>3. CASE HandshakeFails \/ FlowsOver
  <2>1. /\ Over /\ run' = run /\ accept' = accept /\ UNCHANGED dialVars /\ UNCHANGED flowVars
        /\ UNCHANGED <<gate, wire, copy, conn, main, timer, ended>>
    BY <1>3 DEF HandshakeFails, FlowsOver
  <2>2. client' = [client EXCEPT !.closed = TRUE] /\ socket' = socket
    BY <2>1 DEF Over, flowVars
  <2> QED
    BY <1>1, <1>2, <2>1, <2>2, FlowsStand, RelayServed, DialStands DEF ServerInv
<1>4. CASE Connects
  <2>1. /\ Requested /\ UNCHANGED relayVars /\ UNCHANGED flowVars
        /\ handler = "handshake" /\ ~client.closed /\ handler' = "dial"
        /\ run' = run /\ accept' = accept /\ tracked' = tracked
    BY <1>4 DEF Connects
  <2>2. client' = client /\ socket' = socket
    BY <2>1 DEF relayVars, flowVars
  <2>3. StopInv'
    BY <1>1, <2>1, <2>2 DEF StopInv, Handlers
  <2> QED
    BY <1>1, <2>1, <2>3, FlowsStand, RelayStands, DialNextKeeps DEF ServerInv
<1>5. CASE Associates
  <2>1. PICK c \in BOOLEAN : c = (run # "serve")
    OBVIOUS
  <2>2. /\ table' = [table EXCEPT !.cancelled = c] /\ flows' = flows /\ sender' = sender
        /\ socket' = socket /\ UNCHANGED dialVars /\ UNCHANGED relayVars
        /\ handler = "handshake" /\ ~client.closed /\ handler' = "udp" /\ tracked' = {"client", "socket"}
        /\ run' = run /\ accept' = accept
    BY <1>5, <2>1 DEF Associates
  <2>3. client' = client
    BY <2>2 DEF relayVars
  <2>4. StopInv'
    BY <1>1, <2>2, <2>3 DEF StopInv, Handlers
  <2>5. FlowsInv' /\ RelayInv' /\ DialInv'
    BY <1>1, <2>2, FlowsCancelled, RelayStands, DialStands DEF FlowsTypes
  <2> QED
    BY <2>4, <2>5 DEF ServerInv
<1>6. CASE Dials \/ DialEnds
  <2>1. /\ Dialling \/ SetupEnds
        /\ UNCHANGED serverVars /\ UNCHANGED relayVars /\ UNCHANGED flowVars
    BY <1>6 DEF Dials, DialEnds
  <2>2. StopInv'
    BY <1>1, <2>1 DEF StopInv, serverVars, relayVars, flowVars
  <2> QED
    BY <1>1, <2>1, <2>2, FlowsStand, RelayStands, DialNextKeeps DEF ServerInv
<1>7. CASE Dialled
  <2>1. /\ dial' = NoDial /\ run' = run /\ accept' = accept /\ UNCHANGED flowVars
        /\ UNCHANGED <<gate, wire, copy, conn, main, timer, ended>>
        /\ handler = "dial"
    BY <1>7 DEF Dialled
  <2>2. FlowsInv' /\ DialInv' /\ socket' = socket
    BY <1>1, <2>1, FlowsStand, DialNextKeeps DEF flowVars
  <2>3. CASE Over
    <3>1. client' = [client EXCEPT !.closed = TRUE]
      BY <2>3 DEF Over
    <3> QED
      BY <1>1, <1>2, <2>1, <2>2, <2>3, <3>1, RelayServed DEF ServerInv
  <2>4. CASE ~client.closed /\ handler' = "relay" /\ UNCHANGED <<tracked, client>>
    <3>1. tracked' = tracked /\ client' = client
      BY <2>4
    <3>2. StopInv'
      BY <1>1, <2>1, <2>2, <2>4, <3>1 DEF StopInv, Handlers
    <3> QED
      BY <1>1, <2>1, <2>2, <3>1, <3>2, RelayServed DEF ServerInv
  <2> QED
    BY <1>7, <2>3, <2>4 DEF Dialled
<1>8. CASE RelayOver
  <2>1. Over /\ run' = run /\ accept' = accept /\ UNCHANGED dialVars /\ UNCHANGED flowVars
    BY <1>8 DEF RelayOver
  <2>2. socket' = socket
    BY <2>1 DEF flowVars
  <2> QED
    BY <1>1, <1>2, <1>8, <2>1, <2>2, FlowsStand, RelayOverKeeps, DialStands DEF ServerInv
<1> QED
  BY <1>3, <1>4, <1>5, <1>6, <1>7, <1>8 DEF Handling

LEMMA ServerStep ==
  ServerInv /\ [Next]_vars => ServerInv'
<1> SUFFICES ASSUME ServerInv, [Next]_vars
             PROVE  ServerInv'
  OBVIOUS
<1>1. FlowsInv /\ RelayInv /\ DialInv /\ StopInv /\ FlowsTypes
  BY DEF ServerInv, FlowsInv
<1>2. CASE UNCHANGED vars
  <2>1. UNCHANGED dialVars /\ UNCHANGED relayVars /\ UNCHANGED flowVars /\ UNCHANGED serverVars
    BY <1>2 DEF vars
  <2>2. StopInv'
    BY <1>1, <2>1 DEF StopInv, serverVars, relayVars, flowVars
  <2> QED
    BY <1>1, <2>1, <2>2, FlowsStand, RelayStands, DialStands DEF ServerInv
<1>3. CASE RelayStep(RelayNext)
  <2>1. /\ RelayNext /\ UNCHANGED serverVars /\ UNCHANGED dialVars /\ UNCHANGED flowVars
        /\ handler = "relay"
    BY <1>3 DEF RelayStep
  <2>2. StopInv'
    BY <1>1, <2>1, StaysClosed DEF StopInv, serverVars, flowVars
  <2> QED
    BY <1>1, <2>1, <2>2, FlowsStand, RelayNextKeeps, DialStands DEF ServerInv
<1>4. CASE FlowStep(FlowsNext)
  <2>1. FlowsNext /\ UNCHANGED serverVars /\ UNCHANGED dialVars /\ UNCHANGED relayVars
    BY <1>4 DEF FlowStep
  <2>2. StopInv'
    BY <1>1, <2>1, StaysClosed DEF StopInv, serverVars, relayVars
  <2> QED
    BY <1>1, <2>1, <2>2, FlowsNextKeeps, RelayStands, DialStands DEF ServerInv
<1> QED
  BY <1>2, <1>3, <1>4, RunKeeps, HandlerKeeps DEF Next

-----------------------------------------------------------------------------
(* Theorems *)

RunLeavesNothing ==
  run = "returned" => accept = "done" /\ handler \in {"none", "over"}

\* In every reachable state the flows, the relay, the dial and the server are
\* as their invariants say.
THEOREM ServerInvariant == Spec => []ServerInv
<1>1. Init => ServerInv
  BY ServerInit
<1>2. ServerInv /\ [Next]_vars => ServerInv'
  BY ServerStep
<1> QED
  BY <1>1, <1>2, PTL DEF Spec

\* No flow is lost, shared or kept beside the table without somebody who will
\* close it, whoever closes the table, and whenever.
THEOREM FlowsAreOwned == Spec => []FlowsOwned
<1>1. ServerInv => FlowsOwned
  <2> SUFFICES ASSUME ServerInv PROVE FlowsOwned
    OBVIOUS
  <2>1. FlowsTypes /\ EntriesInv /\ OpenInv
    BY DEF ServerInv, FlowsInv
  <2>2. FlowsTypeOK
    <3>1. \A f \in DOMAIN flows : flows[f] \in Flow
      BY <2>1, FlowsAre
    <3>2. /\ Len(flows) <= MaxDials /\ table.flows \cup table.doomed \subseteq DOMAIN flows
          /\ socket \in BOOLEAN
      BY <2>1 DEF FlowsTypes
    <3>3. sender.pc \in Points
      BY <2>1 DEF FlowsTypes, Sender
    <3>4. \A f \in DOMAIN flows :
            /\ flows[f].target \in Targets /\ flows[f].open \in BOOLEAN
            /\ flows[f].reader \in {"none", "read", "remove", "close", "close table", "over"}
      BY <3>1 DEF Flow, Readers
    <3> QED
      BY <3>2, <3>3, <3>4 DEF FlowsTypeOK, Points
  <2> QED
    BY <2>1, <2>2 DEF FlowsOwned, EntriesInv, OpenInv
<1> QED
  BY <1>1, ServerInvariant, PTL

\* The gateway reads whole frames, however the upload, the close of the relay
\* and the end of the session come together.
THEOREM WireIsWellFormed == Spec => []WireWellFormed
<1>1. ServerInv => WireWellFormed
  <2> SUFFICES ASSUME ServerInv PROVE WireWellFormed
    OBVIOUS
  <2>1. /\ RelayTypes /\ WireInv(Len(wire)) /\ CountInv(Len(wire))
        /\ DOMAIN wire = 1 .. Len(wire)
    BY RelayAre DEF ServerInv, RelayInv
  <2>2. RelayTypeOK
    <3>1. ASSUME NEW s \in SideRec, s.read <= MaxChunks
          PROVE  /\ s.read \in 0..MaxChunks
                 /\ s.end \in {"open", "fin", "reset", "bad"} /\ s.stalled \in BOOLEAN /\ s.closed \in BOOLEAN
      BY <3>1, RelayAssumption DEF SideRec
    <3>2. client \in SideRec /\ client.read <= MaxChunks /\ gate \in SideRec /\ gate.read <= MaxChunks
      BY <2>1 DEF RelayTypes
    <3>3. \A s \in {client, gate} :
            /\ s.read \in 0..MaxChunks
            /\ s.end \in {"open", "fin", "reset", "bad"} /\ s.stalled \in BOOLEAN /\ s.closed \in BOOLEAN
      BY <3>1, <3>2
    <3>4. /\ copy.up \in {"read", "write", "writing", "fin", "finning", "ok", "err"}
          /\ copy.down \in {"read", "write", "fin", "ok", "err"}
      BY <2>1 DEF RelayTypes, Copy
    <3>5. conn.lock \in {"free", "up", "close"} /\ conn.once \in {"no", "frame", "done"}
      BY <2>1 DEF RelayTypes, Conn
    <3>6. /\ main \in {"first", "idle", "close a", "close b", "wait", "end"}
          /\ timer.age \in 0..2 /\ timer.quiet \in 0..2
      BY <2>1 DEF RelayTypes, Timer
    <3> QED
      BY <3>3, <3>4, <3>5, <3>6 DEF RelayTypeOK
  <2>3. \A i \in DOMAIN wire : i < Len(wire) => wire[i] = "data"
    BY <2>1 DEF WireInv
  <2>4. copy.up = "ok" /\ ~conn.failed /\ conn.once = "no" =>
          Len(wire) = client.read + 1 /\ wire[Len(wire)] = "close"
    BY <2>1 DEF CountInv
  <2> QED
    BY <2>2, <2>3, <2>4 DEF WireWellFormed
<1> QED
  BY <1>1, ServerInvariant, PTL

\* A request is dialled for the application its policy names: the rule that the
\* passes of the resolver keep is the one a reader of the policy would name.  It
\* goes to no gateway by the host this is listed by, nor by a name that leads to
\* its listed address, and over lines of the application's own group.
THEOREM DialsAreAuthorised == Spec => []DialAuthorised
<1>1. ServerInv => DialAuthorised
  BY DEF ServerInv, DialInv, AppNamed, LinesAuthorised, OffGateways, OwnLines, DialAuthorised
<1> QED
  BY <1>1, ServerInvariant, PTL

\* When Run has returned no connection is accepted any more and no handler runs.
THEOREM RunReturnsLast == Spec => []RunLeavesNothing
<1>1. ServerInv => RunLeavesNothing
  BY DEF ServerInv, StopInv, RunLeavesNothing
<1> QED
  BY <1>1, ServerInvariant, PTL

\* What the gateway said definitively of the target ends the dial; L3 stands in
\* for the stream only where that is allowed.
THEOREM RefusalsAreFinal == Spec => RefusalIsFinal
<1> DEFINE Final == /\ dial'.last \in {"auth", "denied", "refused"} => dial'.pc = "refused"
                    /\ dial.pc = "direct" /\ dial'.pc = "l3" => dial.fallback
<1>1. ServerInv /\ ServerInv' /\ [Next]_vars => [Final]_dial
  <2> SUFFICES ASSUME ServerInv, ServerInv', [Next]_vars, dial' # dial
               PROVE  Final
    OBVIOUS
  <2>1. dial'.last \in {"auth", "denied", "refused"} => dial'.pc = "refused"
    BY DEF ServerInv, DialInv, DialShape
  <2>2. ASSUME dial.pc = "direct", dial'.pc = "l3"
        PROVE  dial.fallback
    <3>1. dial = [pc |-> dial.pc, target |-> dial.target, lines |-> dial.lines,
                  preferL3 |-> dial.preferL3, fallback |-> dial.fallback,
                  left |-> dial.left, last |-> dial.last]
      BY DEF ServerInv, DialInv, DialShape
    <3>2. Requested \/ Dialling \/ SetupEnds \/ dial' = NoDial
      <4>1. CASE UNCHANGED vars
        BY <4>1 DEF vars, dialVars
      <4>2. CASE ContextEnds \/ Running \/ Accepts \/ Accepting
        BY <4>2 DEF ContextEnds, Running, Joins, ClosesConns, Returns, Accepts, Accepting, Tracks,
                    AcceptFails, dialVars
      <4>3. CASE Connects \/ Associates \/ Dials \/ Handling
        BY <4>3 DEF Connects, Associates, Dials, Handling, HandshakeFails, DialEnds, Dialled,
                    RelayOver, FlowsOver, dialVars
      <4>4. CASE RelayStep(RelayNext) \/ FlowStep(FlowsNext)
        BY <4>4 DEF RelayStep, FlowStep, dialVars
      <4> QED
        BY <4>1, <4>2, <4>3, <4>4 DEF Next
    <3>3. DirectAttempt
      <4>1. CASE dial' = NoDial
        BY <2>2, <4>1 DEF NoDial
      <4>2. CASE SetupEnds
        BY <2>2, <3>1, <4>2 DEF SetupEnds
      <4> QED
        BY <2>2, <3>2, <4>1, <4>2 DEF Requested, Dialling, Resolves, ChoosesPath, L3Attempt
    <3>4. PICK v \in Verdicts :
            \/ dial' = [dial EXCEPT !.pc = "direct stream"]
            \/ dial' = AfterDirect(v)
            \/ dial' = [dial EXCEPT !.last = v, !.left = @ - 1]
      BY <3>3 DEF DirectAttempt
    <3>5. dial' = AfterDirect(v) /\ FallsBack(v)
      BY <2>2, <3>1, <3>4 DEF AfterDirect
    <3> QED
      BY <3>5 DEF FallsBack
  <2> QED
    BY <2>1, <2>2
<1>2. RefusalIsFinal <=> [][Final]_dial
  BY DEF RefusalIsFinal
<1> QED
  BY <1>1, <1>2, ServerInvariant, PTL DEF Spec

\* The direction that is left is cut only when it has been quiet for as long as
\* the timeout says, or is over.
THEOREM IdlenessIsIdle == Spec => IdleIsIdle
<1> DEFINE Quiet == main = "idle" /\ main' = "close a" =>
                      timer.quiet = 2 \/ (Done("up") /\ Done("down"))
<1>1. ServerInv /\ [Next]_vars => [Quiet]_main
  <2> SUFFICES ASSUME ServerInv, [Next]_vars, main = "idle", main' = "close a"
               PROVE  timer.quiet = 2 \/ (Done("up") /\ Done("down"))
    OBVIOUS
  <2>1. timer.age = 2 => timer.quiet = 2
    BY DEF ServerInv, RelayInv, TimerInv
  <2>2. SecondDone \/ TimesOut
    <3>1. CASE UNCHANGED vars
      BY <3>1 DEF vars, relayVars
    <3>2. CASE ContextEnds \/ Running \/ Accepts \/ Accepting
      BY <3>2 DEF ContextEnds, Running, Joins, ClosesConns, Returns, Accepts, Accepting, Tracks,
                  AcceptFails, relayVars
    <3>3. CASE Connects \/ Associates \/ Dials \/ Handling
      BY <3>3 DEF Connects, Associates, Dials, Handling, HandshakeFails, DialEnds, Dialled,
                  RelayOver, FlowsOver, relayVars
    <3>4. CASE FlowStep(FlowsNext)
      BY <3>4 DEF FlowStep, relayVars
    <3>5. CASE RelayStep(RelayNext)
      <4>1. RelayNext
        BY <3>5 DEF RelayStep
      <4>2. CASE Peers \/ Reads
        BY <4>2 DEF Peers, Reads, UpReads, DownReads
      <4>3. CASE Uploads
        BY <4>3 DEF Uploads, UpReadEnds, UpLocks, UpWrites, UpFins
      <4>4. CASE Downloads \/ Closing
        BY <4>4 DEF Downloads, DownReadEnds, DownWrites, Closing, CloseBegins, CloseFrames
      <4>5. CASE Relays \/ Tick
        BY <4>5 DEF Relays, Tick, FirstDone, Activity, ClosesA, ClosedB, Waits
      <4> QED
        BY <4>1, <4>2, <4>3, <4>4, <4>5 DEF RelayNext
    <3> QED
      BY <3>1, <3>2, <3>3, <3>4, <3>5 DEF Next
  <2> QED
    BY <2>1, <2>2 DEF SecondDone, TimesOut
<1>2. IdleIsIdle <=> [][Quiet]_main
  BY DEF IdleIsIdle
<1> QED
  BY <1>1, <1>2, ServerInvariant, PTL DEF Spec

=============================================================================
