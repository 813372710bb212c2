--------------------------- MODULE PlanAuditProofs ---------------------------
(***************************************************************************)
(* PlanAudit for any request, any plans and corrections a model may        *)
(* propose, any audit and any size of a batch: two goals that are ready to *)
(* explore can be told apart, by their origins or as two kinds of the      *)
(* classification that was asked for, a rejected goal is never required,   *)
(* planning ends, and nothing that was asked for is lost on the way.       *)
(*                                                                         *)
(* PlacesInv says where goals and ids may be at each stage of a plan.  On  *)
(* top of it, LeavesInv says which candidates the request itself tells     *)
(* apart, and LossInv what became of everything that was asked for.        *)
(* The preflight, a filter and the end of a chain of merges are computed   *)
(* by functions over prefixes and lengths: facts about them are shown by   *)
(* the least prefix or length that would refute them.                      *)
(***************************************************************************)
EXTENDS PlanAudit, FiniteSetTheorems, TLAPS
-----------------------------------------------------------------------------
(* Sequences: what a filter and the preflight make of a list of goals.      *)
(* Both are functions over the prefixes of the list, and what they compute  *)
(* is shown by the least prefix that would not be as stated.                *)
LEMMA LeastNatural ==
  ASSUME NEW T \in SUBSET Nat, T # {}
  PROVE  \E m \in T : \A k \in T : m <= k
<1> DEFINE Up == {0 .. n : n \in T}
<1>1. Up \subseteq FiniteSubsetsOf(Nat)
  <2>1. \A n \in T : IsFiniteSet(0 .. n) /\ 0 .. n \in SUBSET Nat
    BY FS_Interval
  <2> QED BY <2>1 DEF FiniteSubsetsOf
<1>2. Up # {}
  OBVIOUS
<1>3. IsWellFoundedOn(StrictSubsetOrdering(Nat), FiniteSubsetsOf(Nat))
  BY FS_StrictSubsetOrderingWellFounded
<1> HIDE DEF Up
<1>4. PICK x \in Up : \A y \in Up : ~ (<<y, x>> \in StrictSubsetOrdering(Nat))
  BY <1>1, <1>2, <1>3, WFMin
<1>5. PICK m \in T : x = 0 .. m
  BY DEF Up
<1>6. ASSUME NEW k \in T, ~(m <= k) PROVE FALSE
  <2>1. 0 .. k \in Up
    BY DEF Up
  <2>2. 0 .. k \subseteq 0 .. m /\ 0 .. k # 0 .. m
    BY <1>6
  <2>3. <<0 .. k, x>> \in StrictSubsetOrdering(Nat)
    BY <1>5, <2>2 DEF StrictSubsetOrdering
  <2> QED BY <2>1, <2>3, <1>4
<1> QED BY <1>6

LEMMA MinOfNaturals ==
  ASSUME NEW S \in SUBSET Nat, S # {}
  PROVE  Min(S) \in S /\ \A x \in S : Min(S) <= x
<1>1. \E x \in S : \A y \in S : x <= y
  BY LeastNatural
<1> QED BY <1>1 DEF Min


\* A function over the prefixes of a sequence exists, step by step.
LEMMA CandidatesByPrefix ==
  ASSUME NEW S, NEW goals \in Seq(S)
  PROVE  \E t : /\ t = [n \in 0..Len(goals) |->
                         IF n = 0 THEN << >> ELSE AddCandidate(t[n - 1], goals[n])]
                /\ Candidates(goals) = t[Len(goals)]
<1> DEFINE Body(t, N) == [n \in 0..N |->
                            IF n = 0 THEN << >> ELSE AddCandidate(t[n - 1], goals[n])]
           Bad == {N \in 0..Len(goals) : ~\E t : t = Body(t, N)}
<1>1. Bad = {}
  <2> SUFFICES ASSUME Bad # {} PROVE FALSE
    OBVIOUS
  <2>1. PICK m \in Bad : \A k \in Bad : m <= k
    <3>1. Bad \in SUBSET Nat
      OBVIOUS
    <3> QED BY <3>1, LeastNatural
  <2>2. m # 0
    <3> DEFINE z == [n \in 0..0 |-> << >>]
    <3>1. z = Body(z, 0)
      OBVIOUS
    <3> QED BY <3>1
  <2>3. m - 1 \in 0..Len(goals) /\ m - 1 \notin Bad
    <3>1. m \in 0..Len(goals)
      OBVIOUS
    <3>2. m - 1 \in 0..Len(goals) /\ ~(m <= m - 1)
      BY <3>1, <2>2
    <3> HIDE DEF Bad
    <3> QED BY <3>2, <2>1
  <2>4. PICK t : t = Body(t, m - 1)
    BY <2>3
  <2> DEFINE u == [n \in 0..m |-> IF n = m THEN AddCandidate(t[m - 1], goals[m]) ELSE t[n]]
  <2>5. u = Body(u, m)
    <3> SUFFICES ASSUME NEW n \in 0..m PROVE u[n] = Body(u, m)[n]
      OBVIOUS
    <3>1. CASE n = m
      BY <3>1, <2>2, <2>3
    <3>2. CASE n # m
      <4>1. n \in 0..(m - 1) /\ (n # 0 => n - 1 \in 0..(m - 1))
        BY <3>2, <2>3
      <4>2. t[n] = IF n = 0 THEN << >> ELSE AddCandidate(t[n - 1], goals[n])
        BY <4>1, <2>4
      <4> QED BY <4>1, <4>2, <3>2, <2>3
    <3> QED BY <3>1, <3>2
  <2> QED BY <2>5, <2>1
<1>2. \E t : t = Body(t, Len(goals))
  <2>1. Len(goals) \in 0..Len(goals) /\ Len(goals) \notin Bad
    BY <1>1
  <2>2. ~(\A t : t # Body(t, Len(goals)))
    BY <2>1
  <2> HIDE DEF Body
  <2> QED BY <2>2
<1>3. Candidates(goals) = (CHOOSE t : t = Body(t, Len(goals)))[Len(goals)]
  BY DEF Candidates
<1> QED BY <1>2, <1>3

LEMMA FilterByPrefix ==
  ASSUME NEW S, NEW goals \in Seq(S), NEW keep
  PROVE  \E t : /\ t = [n \in 0..Len(goals) |->
                         IF n = 0 THEN << >>
                         ELSE IF n \in keep THEN Append(t[n - 1], goals[n]) ELSE t[n - 1]]
                /\ AtPositions(goals, keep) = t[Len(goals)]
<1> DEFINE Body(t, N) == [n \in 0..N |->
                            IF n = 0 THEN << >>
                            ELSE IF n \in keep THEN Append(t[n - 1], goals[n]) ELSE t[n - 1]]
           Bad == {N \in 0..Len(goals) : ~\E t : t = Body(t, N)}
<1>1. Bad = {}
  <2> SUFFICES ASSUME Bad # {} PROVE FALSE
    OBVIOUS
  <2>1. PICK m \in Bad : \A k \in Bad : m <= k
    <3>1. Bad \in SUBSET Nat
      OBVIOUS
    <3> QED BY <3>1, LeastNatural
  <2>2. m # 0
    <3> DEFINE z == [n \in 0..0 |-> << >>]
    <3>1. z = Body(z, 0)
      OBVIOUS
    <3> QED BY <3>1
  <2>3. m - 1 \in 0..Len(goals) /\ m - 1 \notin Bad
    <3>1. m \in 0..Len(goals)
      OBVIOUS
    <3>2. m - 1 \in 0..Len(goals) /\ ~(m <= m - 1)
      BY <3>1, <2>2
    <3> HIDE DEF Bad
    <3> QED BY <3>2, <2>1
  <2>4. PICK t : t = Body(t, m - 1)
    BY <2>3
  <2> DEFINE step == IF m \in keep THEN Append(t[m - 1], goals[m]) ELSE t[m - 1]
             u == [n \in 0..m |-> IF n = m THEN step ELSE t[n]]
  <2>5. u = Body(u, m)
    <3> SUFFICES ASSUME NEW n \in 0..m PROVE u[n] = Body(u, m)[n]
      OBVIOUS
    <3>1. CASE n = m
      BY <3>1, <2>2, <2>3
    <3>2. CASE n # m
      <4>1. n \in 0..(m - 1) /\ (n # 0 => n - 1 \in 0..(m - 1))
        BY <3>2, <2>3
      <4>2. t[n] = IF n = 0 THEN << >>
                   ELSE IF n \in keep THEN Append(t[n - 1], goals[n]) ELSE t[n - 1]
        BY <4>1, <2>4
      <4> QED BY <4>1, <4>2, <3>2, <2>3
    <3> QED BY <3>1, <3>2
  <2> QED BY <2>5, <2>1
<1>2. \E t : t = Body(t, Len(goals))
  <2>1. Len(goals) \in 0..Len(goals) /\ Len(goals) \notin Bad
    BY <1>1
  <2>2. ~(\A t : t # Body(t, Len(goals)))
    BY <2>1
  <2> HIDE DEF Body
  <2> QED BY <2>2
<1>3. AtPositions(goals, keep) = (CHOOSE t : t = Body(t, Len(goals)))[Len(goals)]
  BY DEF AtPositions
<1> QED BY <1>2, <1>3

\* A proposal: an id, a core and its origins.
GoalOf(I, C, O) == [id : I, core : C, origins : SUBSET O]

\* What the preflight keeps of each goal, and what it does not invent.
Represents(candidates, goals, n) ==
  /\ \A i \in DOMAIN candidates : \E j \in 1..n :
       candidates[i].id = goals[j].id /\ candidates[i].core = goals[j].core
  /\ \A j \in 1..n : \E i \in DOMAIN candidates :
       candidates[i].core = goals[j].core /\ goals[j].origins \subseteq candidates[i].origins
  /\ IdsAreUnique(goals) => IdsAreUnique(candidates)

LEMMA AddCandidateRepresents ==
  ASSUME NEW I, NEW C, NEW O, NEW goals \in Seq(GoalOf(I, C, O)),
         NEW n \in 1..Len(goals), NEW candidates \in Seq(GoalOf(I, C, O)),
         Represents(candidates, goals, n - 1)
  PROVE  /\ AddCandidate(candidates, goals[n]) \in Seq(GoalOf(I, C, O))
         /\ Represents(AddCandidate(candidates, goals[n]), goals, n)
<1> DEFINE g == goals[n]
           same == {i \in DOMAIN candidates : candidates[i].core = g.core /\ Mergeable(candidates[i], g)}
           result == AddCandidate(candidates, g)
<1>1. g \in GoalOf(I, C, O) /\ n \in Nat \ {0} /\ n - 1 \in Nat
  OBVIOUS
<1>2. DOMAIN candidates = 1..Len(candidates) /\ Len(candidates) \in Nat
  OBVIOUS
<1>3. CASE same = {}
  <2>1. result = Append(candidates, g)
    BY <1>3 DEF AddCandidate
  <2>2. /\ result \in Seq(GoalOf(I, C, O))
        /\ DOMAIN result = 1..(Len(candidates) + 1)
        /\ \A i \in DOMAIN candidates : i \in DOMAIN result /\ result[i] = candidates[i]
        /\ result[Len(candidates) + 1] = g
    BY <1>1, <1>2, <2>1
  <2>3. \A i \in DOMAIN result : i \in DOMAIN candidates \/ i = Len(candidates) + 1
    BY <1>2, <2>2
  <2> HIDE DEF result, g
  <2>4. \A i \in DOMAIN result : \E j \in 1..n :
          result[i].id = goals[j].id /\ result[i].core = goals[j].core
    <3> SUFFICES ASSUME NEW i \in DOMAIN result
                 PROVE \E j \in 1..n : result[i].id = goals[j].id /\ result[i].core = goals[j].core
      OBVIOUS
    <3>1. CASE i = Len(candidates) + 1
      BY <3>1, <2>2 DEF g
    <3>2. CASE i \in DOMAIN candidates
      <4>1. PICK j \in 1..(n - 1) :
              candidates[i].id = goals[j].id /\ candidates[i].core = goals[j].core
        BY <3>2 DEF Represents
      <4> QED BY <4>1, <3>2, <2>2
    <3> QED BY <2>3, <3>1, <3>2
  <2>5. \A j \in 1..n : \E i \in DOMAIN result :
          result[i].core = goals[j].core /\ goals[j].origins \subseteq result[i].origins
    <3> SUFFICES ASSUME NEW j \in 1..n
                 PROVE \E i \in DOMAIN result : result[i].core = goals[j].core
                                                /\ goals[j].origins \subseteq result[i].origins
      OBVIOUS
    <3>1. CASE j = n
      <4>1. Len(candidates) + 1 \in DOMAIN result
        BY <1>2, <2>2
      <4> QED BY <3>1, <4>1, <2>2 DEF g
    <3>2. CASE j # n
      <4>1. j \in 1..(n - 1)
        BY <3>2
      <4>2. PICK i \in DOMAIN candidates :
              candidates[i].core = goals[j].core /\ goals[j].origins \subseteq candidates[i].origins
        BY <4>1 DEF Represents
      <4> QED BY <4>2, <2>2
    <3> QED BY <3>1, <3>2
  <2>6. ASSUME IdsAreUnique(goals) PROVE IdsAreUnique(result)
    <3>1. \A i \in DOMAIN candidates : candidates[i].id # g.id
      <4> SUFFICES ASSUME NEW i \in DOMAIN candidates PROVE candidates[i].id # g.id
        OBVIOUS
      <4>1. PICK j \in 1..(n - 1) : candidates[i].id = goals[j].id
        BY DEF Represents
      <4>2. j \in DOMAIN goals /\ n \in DOMAIN goals /\ j # n
        OBVIOUS
      <4> QED BY <4>1, <4>2, <2>6 DEF IdsAreUnique, g
    <3>2. IdsAreUnique(candidates)
      BY <2>6 DEF Represents
    <3> QED BY <3>1, <3>2, <2>2, <2>3 DEF IdsAreUnique
  <2> QED BY <2>2, <2>4, <2>5, <2>6 DEF Represents, result, g
<1>4. CASE same # {}
  <2> DEFINE m == Min(same)
  <2>1. m \in same
    <3>1. same \in SUBSET Nat
      BY <1>2
    <3> QED BY <3>1, <1>4, MinOfNaturals
  <2>2. result = [candidates EXCEPT ![m].origins = candidates[m].origins \union g.origins]
    BY <1>4 DEF AddCandidate
  <2>3. m \in DOMAIN candidates /\ candidates[m].core = g.core
    BY <2>1
  <2> HIDE DEF m, same
  <2>4. /\ result \in Seq(GoalOf(I, C, O))
        /\ DOMAIN result = DOMAIN candidates
        /\ \A i \in DOMAIN candidates : /\ result[i].id = candidates[i].id
                                        /\ result[i].core = candidates[i].core
                                        /\ candidates[i].origins \subseteq result[i].origins
        /\ g.origins \subseteq result[m].origins
    <3> DEFINE new == [candidates[m] EXCEPT !.origins = candidates[m].origins \union g.origins]
    <3>1. candidates[m] \in GoalOf(I, C, O)
      BY <2>3
    <3>2. /\ new \in GoalOf(I, C, O) /\ new.id = candidates[m].id /\ new.core = candidates[m].core
          /\ candidates[m].origins \subseteq new.origins /\ g.origins \subseteq new.origins
      BY <3>1, <1>1 DEF GoalOf
    <3>3. result = [candidates EXCEPT ![m] = new]
      BY <2>2
    <3> HIDE DEF new, result
    <3>4. /\ DOMAIN result = DOMAIN candidates /\ result[m] = new
          /\ \A i \in DOMAIN candidates : i # m => result[i] = candidates[i]
      BY <3>3, <2>3
    <3>5. result \in Seq(GoalOf(I, C, O))
      BY <3>2, <3>3, <2>3
    <3> QED BY <3>2, <3>4, <3>5
  <2> HIDE DEF result, g
  <2>5. \A i \in DOMAIN result : \E j \in 1..n :
          result[i].id = goals[j].id /\ result[i].core = goals[j].core
    <3> SUFFICES ASSUME NEW i \in DOMAIN result
                 PROVE \E j \in 1..n : result[i].id = goals[j].id /\ result[i].core = goals[j].core
      OBVIOUS
    <3>1. PICK j \in 1..(n - 1) :
            candidates[i].id = goals[j].id /\ candidates[i].core = goals[j].core
      BY <2>4 DEF Represents
    <3> QED BY <3>1, <2>4
  <2>6. \A j \in 1..n : \E i \in DOMAIN result :
          result[i].core = goals[j].core /\ goals[j].origins \subseteq result[i].origins
    <3> SUFFICES ASSUME NEW j \in 1..n
                 PROVE \E i \in DOMAIN result : result[i].core = goals[j].core
                                                /\ goals[j].origins \subseteq result[i].origins
      OBVIOUS
    <3>1. CASE j = n
      BY <3>1, <2>3, <2>4 DEF g
    <3>2. CASE j # n
      <4>1. j \in 1..(n - 1)
        BY <3>2
      <4>2. PICK i \in DOMAIN candidates :
              candidates[i].core = goals[j].core /\ goals[j].origins \subseteq candidates[i].origins
        BY <4>1 DEF Represents
      <4> QED BY <4>2, <2>4
    <3> QED BY <3>1, <3>2
  <2>7. IdsAreUnique(goals) => IdsAreUnique(result)
    BY <2>4 DEF Represents, IdsAreUnique
  <2> QED BY <2>4, <2>5, <2>6, <2>7 DEF Represents, result, g
<1> QED BY <1>3, <1>4

\* The preflight merges goals, and neither loses nor invents one.
LEMMA CandidatesRepresent ==
  ASSUME NEW I, NEW C, NEW O, NEW goals \in Seq(GoalOf(I, C, O))
  PROVE  /\ Candidates(goals) \in Seq(GoalOf(I, C, O))
         /\ Represents(Candidates(goals), goals, Len(goals))
<1>1. PICK t : /\ t = [n \in 0..Len(goals) |->
                        IF n = 0 THEN << >> ELSE AddCandidate(t[n - 1], goals[n])]
               /\ Candidates(goals) = t[Len(goals)]
  BY CandidatesByPrefix
<1> DEFINE Good(n) == t[n] \in Seq(GoalOf(I, C, O)) /\ Represents(t[n], goals, n)
           Bad == {n \in 0..Len(goals) : ~Good(n)}
<1>2. Bad = {}
  <2> SUFFICES ASSUME Bad # {} PROVE FALSE
    OBVIOUS
  <2>1. PICK m \in Bad : \A k \in Bad : m <= k
    <3>1. Bad \in SUBSET Nat
      OBVIOUS
    <3> QED BY <3>1, LeastNatural
  <2>2. m \in 0..Len(goals) /\ ~Good(m)
    OBVIOUS
  <2>3. m # 0
    <3>1. t[0] = << >>
      BY <1>1
    <3>2. Represents(<< >>, goals, 0)
      BY DEF Represents, IdsAreUnique
    <3>3. << >> \in Seq(GoalOf(I, C, O))
      OBVIOUS
    <3> QED BY <3>1, <3>2, <3>3, <2>2
  <2>4. m \in 1..Len(goals) /\ m - 1 \in 0..Len(goals) /\ ~(m <= m - 1)
    BY <2>2, <2>3
  <2>5. Good(m - 1)
    BY <2>1, <2>4
  <2>6. t[m] = AddCandidate(t[m - 1], goals[m])
    BY <1>1, <2>4
  <2> QED BY <2>2, <2>4, <2>5, <2>6, AddCandidateRepresents
<1>3. Len(goals) \in 0..Len(goals)
  OBVIOUS
<1>4. Good(Len(goals))
  BY <1>2, <1>3
<1> QED BY <1>1, <1>4

\* What a filter leaves: elements at kept positions, each once.
LEMMA AtPositionsKeeps ==
  ASSUME NEW S, NEW goals \in Seq(S), NEW keep
  PROVE  /\ AtPositions(goals, keep) \in Seq(S)
         /\ \A i \in DOMAIN AtPositions(goals, keep) :
              \E j \in DOMAIN goals \intersect keep : AtPositions(goals, keep)[i] = goals[j]
         /\ IdsAreUnique(goals) => IdsAreUnique(AtPositions(goals, keep))
<1>1. PICK t : /\ t = [n \in 0..Len(goals) |->
                        IF n = 0 THEN << >>
                        ELSE IF n \in keep THEN Append(t[n - 1], goals[n]) ELSE t[n - 1]]
               /\ AtPositions(goals, keep) = t[Len(goals)]
  BY FilterByPrefix
<1> DEFINE From(s, n) == \A i \in DOMAIN s : \E j \in 1..n : j \in keep /\ s[i] = goals[j]
           Good(n) == /\ t[n] \in Seq(S) /\ From(t[n], n)
                      /\ IdsAreUnique(goals) => IdsAreUnique(t[n])
           Bad == {n \in 0..Len(goals) : ~Good(n)}
<1>2. Bad = {}
  <2> SUFFICES ASSUME Bad # {} PROVE FALSE
    OBVIOUS
  <2>1. PICK m \in Bad : \A k \in Bad : m <= k
    <3>1. Bad \in SUBSET Nat
      OBVIOUS
    <3> QED BY <3>1, LeastNatural
  <2>2. m \in 0..Len(goals) /\ ~Good(m)
    OBVIOUS
  <2>3. m # 0
    <3>1. t[0] = << >>
      BY <1>1
    <3>2. From(<< >>, 0) /\ IdsAreUnique(<< >>) /\ << >> \in Seq(S)
      BY DEF IdsAreUnique
    <3> QED BY <3>1, <3>2, <2>2
  <2>4. /\ m \in 1..Len(goals) /\ m - 1 \in 0..Len(goals) /\ ~(m <= m - 1)
        /\ 1..(m - 1) \subseteq 1..m /\ m \in 1..m
    BY <2>2, <2>3
  <2>5. Good(m - 1)
    BY <2>1, <2>4
  <2>8. t[m] = IF m = 0 THEN << >>
               ELSE IF m \in keep THEN Append(t[m - 1], goals[m]) ELSE t[m - 1]
    BY <1>1, <2>4
  <2>6. CASE m \notin keep
    <3>1. t[m] = t[m - 1]
      BY <2>8, <2>3, <2>6
    <3>2. From(t[m], m)
      BY <3>1, <2>5, <2>4
    <3> QED BY <3>1, <3>2, <2>2, <2>5
  <2>7. CASE m \in keep
    <3> DEFINE s == t[m - 1]
               g == goals[m]
    <3>1. t[m] = Append(s, g)
      BY <2>8, <2>3, <2>7
    <3>2. s \in Seq(S) /\ g \in S
      BY <2>4, <2>5
    <3>3. /\ t[m] \in Seq(S) /\ DOMAIN t[m] = 1..(Len(s) + 1)
          /\ \A i \in DOMAIN s : i \in DOMAIN t[m] /\ t[m][i] = s[i]
          /\ t[m][Len(s) + 1] = g
          /\ \A i \in DOMAIN t[m] : i \in DOMAIN s \/ i = Len(s) + 1
      <4> HIDE DEF s, g
      <4>1. ASSUME NEW x, x = Append(s, g)
            PROVE  /\ x \in Seq(S) /\ DOMAIN x = 1..(Len(s) + 1)
                   /\ \A i \in DOMAIN s : i \in DOMAIN x /\ x[i] = s[i]
                   /\ x[Len(s) + 1] = g
                   /\ \A i \in DOMAIN x : i \in DOMAIN s \/ i = Len(s) + 1
        BY <3>2, <4>1
      <4> QED BY <3>1, <4>1
    <3> HIDE DEF s, g
    <3>4. From(t[m], m)
      <4> SUFFICES ASSUME NEW i \in DOMAIN t[m]
                   PROVE \E j \in 1..m : j \in keep /\ t[m][i] = goals[j]
        OBVIOUS
      <4>1. CASE i = Len(s) + 1
        BY <4>1, <3>3, <2>4, <2>7 DEF g
      <4>2. CASE i \in DOMAIN s
        <5>1. PICK j \in 1..(m - 1) : j \in keep /\ s[i] = goals[j]
          BY <4>2, <2>5 DEF s
        <5> QED BY <5>1, <4>2, <3>3, <2>4
      <4> QED BY <3>3, <4>1, <4>2
    <3>5. ASSUME IdsAreUnique(goals) PROVE IdsAreUnique(t[m])
      <4>1. \A i \in DOMAIN s : s[i].id # g.id
        <5> SUFFICES ASSUME NEW i \in DOMAIN s PROVE s[i].id # g.id
          OBVIOUS
        <5>1. PICK j \in 1..(m - 1) : s[i] = goals[j]
          BY <2>5 DEF s
        <5>2. j \in DOMAIN goals /\ m \in DOMAIN goals /\ j # m
          BY <2>4
        <5> QED BY <5>1, <5>2, <3>5 DEF IdsAreUnique, g
      <4>2. IdsAreUnique(s)
        BY <3>5, <2>5 DEF s
      <4> QED BY <4>1, <4>2, <3>3 DEF IdsAreUnique
    <3> QED BY <3>3, <3>4, <3>5, <2>2
  <2> QED BY <2>6, <2>7
<1>3. Len(goals) \in 0..Len(goals) /\ DOMAIN goals = 1..Len(goals)
  OBVIOUS
<1>4. Good(Len(goals))
  BY <1>2, <1>3
<1> QED BY <1>1, <1>3, <1>4
-----------------------------------------------------------------------------
(* Sets of goals.                                                           *)
\* SetToSeq lists the elements of a finite set.
LEMMA SetToSeqLists ==
  ASSUME NEW S, IsFiniteSet(S)
  PROVE  SetToSeq(S) \in Seq(S) /\ \A x \in S : \E i \in DOMAIN SetToSeq(S) : SetToSeq(S)[i] = x
<1> DEFINE n == Cardinality(S)
<1>1. n \in Nat /\ ExistsBijection(1..n, S)
  BY FS_CardinalityType
<1>2. PICK f \in Bijection(1..n, S) : TRUE
  BY <1>1 DEF ExistsBijection
<1>3. f \in [1..n -> S] /\ IsInjective(f)
  BY <1>2 DEF Bijection, Injection, IsInjective
<1> DEFINE s == SetToSeq(S)
<1>4. s \in [1..n -> S] /\ IsInjective(s)
  BY <1>3 DEF SetToSeq
<1>5. s \in Seq(S) /\ DOMAIN s = 1..n
  BY <1>1, <1>4
<1>6. ASSUME NEW x \in S, \A i \in 1..n : s[i] # x PROVE FALSE
  <2> DEFINE T == S \ {x}
  <2>1. IsFiniteSet(T) /\ Cardinality(T) = n - 1
    BY <1>1, FS_RemoveElement
  <2>2. s \in [1..n -> T]
    BY <1>4, <1>6
  <2>3. IsFiniteSet(1..n) /\ Cardinality(1..n) = n
    BY <1>1, FS_Interval
  <2>4. \E i, j \in 1..n : i # j /\ s[i] = s[j]
    <3>1. n - 1 < n
      BY <1>1
    <3> HIDE DEF s, T, n
    <3> QED BY <2>1, <2>2, <2>3, <3>1, FS_PigeonHole
  <2> QED BY <2>4, <1>4 DEF IsInjective
<1> QED BY <1>5, <1>6

LEMMA PlanIsFinite ==
  ASSUME NEW S, NEW s \in Seq(S)
  PROVE  IsFiniteSet(ToSet(s))
<1> DEFINE D == DOMAIN s
           F == {s[i] : i \in D}
<1>1. ToSet(s) = F
  BY DEF ToSet
<1>2. IsFiniteSet(D)
  <2>1. D = 1..Len(s) /\ 1 \in Int /\ Len(s) \in Int
    OBVIOUS
  <2> HIDE DEF D
  <2> QED BY <2>1, FS_Interval
<1> DEFINE f == [i \in D |-> s[i]]
<1>3. f \in Surjection(D, F)
  BY DEF Surjection
<1>4. IsFiniteSet(F)
  <2> HIDE DEF D, F, f
  <2> QED BY <1>2, <1>3, FS_Surjection
<1> QED BY <1>1, <1>4

\* The goals of an audit: one for each id, in the format of a plan.
Distinct(goals) == \A g, h \in goals : g.id = h.id => g = h
OriginsOf(audit) == \A id \in DOMAIN audit : audit[id].origins \subseteq Origins

LEMMA GroupKeeps ==
  ASSUME NEW I, NEW g \in GoalOf(I, Cores, Origins), NEW audit, OriginsOf(audit)
  PROVE  /\ Group(g, audit) \in GoalOf(I, Cores, Origins)
         /\ Group(g, audit).id = g.id /\ Group(g, audit).core = g.core
<1>1. Members(audit, g.id) \subseteq DOMAIN audit
  BY DEF Members
<1>2. UNION {audit[m].origins : m \in Members(audit, g.id)} \subseteq Origins
  BY <1>1 DEF OriginsOf
<1> QED BY <1>2 DEF Group, GoalOf

\* What a reduction makes of the groups of an audit.
Others(r) == r.ready \union r.blocked \union r.decompose \union r.refine
Splits(r, I, goals, audit) ==
  /\ \A g \in Others(r) \union r.rejected :
       /\ g \in GoalOf(I, Cores, Origins) /\ g.id \in Ids(goals) /\ g.id \in Roots(audit)
       /\ \E h \in goals : h.id = g.id /\ h.core = g.core
  /\ Ids(Others(r)) \intersect Ids(r.rejected) = {}
  /\ \A id \in Roots(audit) \intersect Ids(goals) : id \in Ids(Others(r) \union r.rejected)
  /\ \A g \in r.rejected : audit[g.id].verdict = "reject"
  /\ IsFiniteSet(goals) => IsFiniteSet(Others(r))

\* Every group of an audit is in one part of its reduction, and the rejected
\* part has no id in common with the others.
LEMMA ReductionSplits ==
  ASSUME NEW I, NEW goals \in SUBSET GoalOf(I, Cores, Origins), NEW audit, NEW existing,
         NEW distinctIds, Distinct(goals), OriginsOf(audit)
  PROVE  Splits(Reduce(goals, audit, existing, distinctIds), I, goals, audit)
<1> DEFINE r == Reduce(goals, audit, existing, distinctIds)
           others == r.ready \union r.blocked \union r.decompose \union r.refine
           groups == Groups(goals, audit)
           ready == ReadyGroups(groups, audit)
           vague == Ambiguous(ready, WithStatus(existing, "ready"), distinctIds)
           out == Rejected(groups, audit)
           bad == Defects(groups, audit)
<1>1. /\ r.ready = ready \ vague /\ r.blocked = groups \ (ready \union out \union bad)
      /\ r.decompose = bad /\ r.refine = vague /\ r.rejected = out
  BY DEF Reduce
<1>2. ready \subseteq groups /\ out \subseteq groups /\ bad \subseteq groups /\ vague \subseteq ready
  BY DEF ReadyGroups, Rejected, Defects, Ambiguous
<1>3. out \intersect ready = {} /\ out \intersect bad = {}
  BY DEF ReadyGroups, Rejected, Defects
<1>4. \A g \in groups : \E h \in goals :
        /\ h.id \in Roots(audit) /\ g = Group(h, audit) /\ g.id = h.id /\ g.core = h.core
        /\ g \in GoalOf(I, Cores, Origins)
  BY GroupKeeps DEF Groups
<1>5. \A g, h \in groups : g.id = h.id => g = h
  BY <1>4 DEF Distinct
<1>6. \A id \in Roots(audit) \intersect Ids(goals) : \E g \in groups : g.id = id
  <2> SUFFICES ASSUME NEW h \in goals, h.id \in Roots(audit) PROVE \E g \in groups : g.id = h.id
    BY DEF Ids
  <2>1. Group(h, audit) \in groups /\ Group(h, audit).id = h.id
    BY GroupKeeps DEF Groups
  <2> QED BY <2>1
<1>7. \A g \in out : audit[g.id].verdict = "reject"
  BY DEF Rejected
<1>8. IsFiniteSet(goals) => IsFiniteSet(groups)
  <2> DEFINE roots == {h \in goals : h.id \in Roots(audit)}
  <2>1. groups = {Group(g, audit) : g \in roots}
    BY DEF Groups
  <2>2. IsFiniteSet(goals) => IsFiniteSet(roots)
    BY FS_Subset
  <2> DEFINE f == [g \in roots |-> Group(g, audit)]
  <2>3. f \in Surjection(roots, groups)
    <3> HIDE DEF roots, groups
    <3> QED BY <2>1 DEF Surjection
  <2> HIDE DEF roots, groups, f
  <2> QED BY <2>2, <2>3, FS_Surjection
<1> HIDE DEF groups, ready, vague, out, bad, r
<1>9. others \subseteq groups /\ r.rejected = out /\ others \union out = groups
      /\ others \intersect out = {}
  BY <1>1, <1>2, <1>3
<1>10. IsFiniteSet(groups) => IsFiniteSet(others)
  BY <1>9, FS_Subset
<1>11. \A g \in others \union r.rejected :
         /\ g \in GoalOf(I, Cores, Origins) /\ g.id \in Ids(goals) /\ g.id \in Roots(audit)
         /\ \E h \in goals : h.id = g.id /\ h.core = g.core
  <2> HIDE DEF others
  <2> SUFFICES ASSUME NEW g \in groups
               PROVE /\ g \in GoalOf(I, Cores, Origins) /\ g.id \in Ids(goals) /\ g.id \in Roots(audit)
                     /\ \E h \in goals : h.id = g.id /\ h.core = g.core
    BY <1>9
  <2>1. PICK h \in goals : /\ h.id \in Roots(audit) /\ g.id = h.id /\ g.core = h.core
                           /\ g \in GoalOf(I, Cores, Origins)
    BY <1>4
  <2> QED BY <2>1 DEF Ids
<1> HIDE DEF others
<1>12. Ids(others) \intersect Ids(r.rejected) = {}
  BY <1>5, <1>9 DEF Ids
<1>13. \A id \in Roots(audit) \intersect Ids(goals) : id \in Ids(others \union r.rejected)
  BY <1>6, <1>9 DEF Ids
<1>14. Others(r) = others
  BY DEF Others, others
<1> QED
  <2>1. Splits(r, I, goals, audit)
    BY <1>7, <1>8, <1>9, <1>10, <1>11, <1>12, <1>13, <1>14 DEF Splits
  <2> QED BY <2>1 DEF r
-----------------------------------------------------------------------------
(* The invariants.                                                          *)
\* The ids of audited goals: proposed ones, and corrections of these.
PlanIds == Names \union {<<"corrected", n>> : n \in Names}
RuntimeIds == {"part", "carry"} \X Cores \X SUBSET Origins

Auditing == {"goal_audit", "join", "coverage", "reduce"}

ShapeInv ==
  /\ stage \in Stages /\ attempt \in {0, 1} /\ revision \in {0, 1} /\ late \in BOOLEAN
  /\ plan \in Seq(GoalOf(PlanIds, Cores, Origins)) /\ IdsAreUnique(plan)
  /\ OriginsOf(records)
  /\ uncovered \subseteq Contents
  /\ Ids(rejected) \subseteq PlanIds

\* Before the revision no id was corrected.
FirstInv ==
  revision = 0 =>
    /\ plan \in Seq(GoalOf(Names, Cores, Origins))
    /\ IsFiniteSet(preserved)
    /\ \A p \in preserved : AsGoal(p) \in GoalOf(Names, Cores, Origins)

ObligationsInv ==
  /\ IsFiniteSet(obligations)
  /\ \A o \in obligations : o.core \in Cores /\ o.origins \in SUBSET Origins

PhaseInv ==
  /\ late => revision = 1 /\ stage \in Auditing \union {"done", "failed"}
  /\ stage \in {"planner", "plan_revision"} => revision = 0
  /\ stage \in {"revision_coverage", "carry"} => revision = 1 /\ ~late
  /\ revision = 0 /\ stage \in {"planner"} \union Auditing =>
       ledger = {} /\ preserved = {} /\ obligations = {} /\ rejected = {} /\ wanted = {}
  /\ ~late /\ stage \in {"plan_revision"} \union Auditing => ledger = {}
  /\ late /\ stage \in Auditing => preserved = ledger
  /\ stage \in {"revision_coverage", "carry", "check", "done"} => preserved \subseteq ledger

\* The goals of the second and of the late audit are new.
FreshInv ==
  revision = 1 /\ stage \in Auditing =>
    Ids(ToSet(plan)) \intersect (Ids(rejected) \union Ids(preserved)) = {}

ApartInv == Ids(rejected) \intersect (Ids(ledger) \union Ids(preserved)) = {}

\* The audited goals are the first ones of the plan.
ProgressInv ==
  /\ Audited \in 0..Len(plan)
  /\ DOMAIN records = {plan[i].id : i \in 1..Audited}
  /\ stage = "goal_audit" => Audited < Len(plan)
  /\ stage \in {"join", "coverage", "reduce"} => Audited = Len(plan)

PlacesInv ==
  ShapeInv /\ FirstInv /\ ObligationsInv /\ PhaseInv /\ FreshInv /\ ApartInv /\ ProgressInv
-----------------------------------------------------------------------------
(* Facts about the names and the plan.                                      *)
LEMMA NamesAreApart == PlanIds \intersect RuntimeIds = {}
<1>1. Names \intersect RuntimeIds = {}
  BY PlanAssumption DEF RuntimeIds
<1>2. ASSUME NEW n, <<"corrected", n>> \in RuntimeIds PROVE FALSE
  BY <1>2 DEF RuntimeIds
<1> QED BY <1>1, <1>2 DEF PlanIds

LEMMA ProposalsAreGoals ==
  ASSUME NEW goals \in Proposals
  PROVE  goals \in Seq(GoalOf(Names, Cores, Origins))
<1> DEFINE G == [id : Names, core : Cores, origins : (SUBSET Origins) \ {{}}]
<1>1. goals \in Seq(G)
  BY PlanAssumption
<1>2. G \subseteq GoalOf(Names, Cores, Origins)
  BY DEF GoalOf
<1> HIDE DEF G
<1> QED BY <1>1, <1>2

LEMMA MoreIds ==
  ASSUME NEW goals \in Seq(GoalOf(Names, Cores, Origins))
  PROVE  goals \in Seq(GoalOf(PlanIds, Cores, Origins))
<1>1. GoalOf(Names, Cores, Origins) \subseteq GoalOf(PlanIds, Cores, Origins)
  BY DEF GoalOf, PlanIds
<1> QED BY <1>1

LEMMA InPlan ==
  ASSUME NEW S, NEW s \in Seq(S)
  PROVE  /\ ToSet(s) \subseteq S
         /\ DOMAIN s = 1..Len(s) /\ Len(s) \in Nat
         /\ \A i \in DOMAIN s : s[i] \in ToSet(s)
         /\ \A g \in ToSet(s) : \E i \in DOMAIN s : g = s[i]
  BY DEF ToSet

LEMMA UniqueIsDistinct ==
  ASSUME NEW S, NEW s \in Seq(S), IdsAreUnique(s) PROVE Distinct(ToSet(s))
  BY DEF IdsAreUnique, Distinct, ToSet

Sends(candidates) == \E leaves : SendToAudit(candidates, leaves)

\* What a new plan sets: nothing of it is audited yet.
LEMMA Sending ==
  ASSUME NEW goals, goals \in Seq(GoalOf(PlanIds, Cores, Origins)), IdsAreUnique(goals),
         Sends(goals)
  PROVE  /\ ProgressInv'
         /\ stage' \in {"reduce", "goal_audit"} /\ attempt' = 0 /\ plan' = goals
         /\ (OriginsOf(records))' /\ uncovered' = {}
<1>1. /\ stage' \in {"reduce", "goal_audit"} /\ attempt' = 0 /\ plan' = goals /\ uncovered' = {}
      /\ records' = NoRecords
      /\ goals = << >> => stage' = "reduce"
      /\ goals # << >> => stage' = "goal_audit"
  BY DEF Sends, SendToAudit
<1>2. DOMAIN NoRecords = {}
  BY DEF NoRecords
<1>3. Audited' = 0
  BY <1>1, <1>2, FS_EmptySet DEF Audited
<1>4. Len(goals) \in Nat /\ (goals # << >> => 0 < Len(goals)) /\ (goals = << >> => Len(goals) = 0)
  <2> DEFINE G == GoalOf(PlanIds, Cores, Origins)
  <2>1. goals \in Seq(G)
    OBVIOUS
  <2> HIDE DEF G
  <2> QED BY <2>1
<1>5. ProgressInv'
  BY <1>1, <1>2, <1>3, <1>4 DEF ProgressInv
<1> QED BY <1>1, <1>2, <1>5 DEF OriginsOf

\* Steps that move the request, and nothing it is about.
Moves ==
  /\ attempt' \in {0, 1} /\ stage' \in Stages
  /\ \/ stage' = stage
     \/ stage' = "failed"
     \/ stage \in {"join", "coverage"} /\ stage' \in {"coverage", "reduce"}
     \/ stage = "revision_coverage" /\ stage' = "carry"
     \/ stage = "check" /\ stage' = "done"
  /\ uncovered' \subseteq uncovered
  /\ UNCHANGED <<revision, late, plan, records, preserved, obligations, rejected, ledger, wanted>>

LEMMA MovesKeepPlaces == PlacesInv /\ Moves => PlacesInv'
<1> SUFFICES ASSUME PlacesInv, Moves PROVE PlacesInv'
  OBVIOUS
<1>1. ShapeInv' /\ FirstInv' /\ ObligationsInv' /\ ApartInv'
  BY DEF PlacesInv, Moves, ShapeInv, FirstInv, ObligationsInv, ApartInv, OriginsOf
<1>2. PhaseInv'
  BY DEF PlacesInv, Moves, PhaseInv, Auditing
<1>3. FreshInv'
  BY DEF PlacesInv, Moves, FreshInv, Auditing
<1>4. ProgressInv'
  BY DEF PlacesInv, Moves, ProgressInv, Audited
<1> QED BY <1>1, <1>2, <1>3, <1>4 DEF PlacesInv

LEMMA RefuseMoves == ShapeInv /\ Refuse => Moves
  BY DEF ShapeInv, Refuse, Moves, Stages

LEMMA SomeStepsMove ==
  ASSUME ShapeInv,
         \/ Malformed \/ RequestFails \/ JoinBatches \/ CoverageReply \/ RevisionCoverageReply
         \/ Check \/ UNCHANGED vars
  PROVE  Moves
<1>1. CASE Malformed
  BY <1>1, RefuseMoves DEF Malformed
<1>2. CASE RequestFails
  BY <1>2 DEF RequestFails, Moves, Stages
<1>3. CASE JoinBatches
  <2>1. stage = "join" /\ stage' \in {"failed", "coverage", "reduce"}
    BY <1>3 DEF JoinBatches
  <2>2. UNCHANGED <<attempt, revision, late, plan, records, uncovered, preserved, obligations,
                    rejected, ledger, wanted>>
    BY <1>3 DEF JoinBatches
  <2> QED BY <2>1, <2>2 DEF ShapeInv, Moves, Stages, Requests
<1>4. CASE CoverageReply
  <2>1. CASE Refuse
    BY <2>1, RefuseMoves
  <2>2. CASE ~Refuse
    <3>1. PICK cover :
            /\ uncovered' = {u \in uncovered : cover[BatchObligation(u)] = {}}
            /\ stage = "coverage" /\ stage' = "reduce" /\ attempt' = 0
            /\ UNCHANGED <<revision, late, plan, records, preserved, obligations, rejected, ledger,
                           wanted>>
      <4> HIDE <2>2
      <4>1. stage = "coverage"
        BY <1>4 DEF CoverageReply
      <4>2. \E cover :
              \/ /\ uncovered' = {u \in uncovered : cover[BatchObligation(u)] = {}}
                 /\ stage' = "reduce" /\ attempt' = 0
                 /\ UNCHANGED <<revision, late, plan, records, preserved, obligations, rejected,
                                ledger, wanted>>
              \/ Refuse
        <5> DEFINE open == BatchObligations(uncovered)
                   ids == {g.id : g \in UNION {Coverers(o, JudgedGoals, Judged, open) : o \in open}}
        <5>1. PICK cover \in CoverChoices(open, ids) :
                IF ValidCoverage(cover, JudgedGoals, Judged, open)
                THEN /\ uncovered' = {u \in uncovered : cover[BatchObligation(u)] = {}}
                     /\ covered' = covered \union {<<o, cover[o]>> : o \in {p \in open : cover[p] # {}}}
                     /\ stage' = "reduce" /\ attempt' = 0
                     /\ UNCHANGED <<revision, late, plan, records, preserved, obligations, rejected,
                                    corrected, ledger, wanted>>
                ELSE Refuse
          BY <1>4, Zenon DEF CoverageReply
        <5> HIDE DEF open, ids
        <5> QED BY <5>1, Zenon
      <4> QED BY <4>1, <4>2, <2>2
    <3> QED BY <3>1 DEF Moves, Stages
  <2> QED BY <2>1, <2>2
<1>5. CASE RevisionCoverageReply
  <2>1. CASE Refuse
    BY <2>1, RefuseMoves
  <2>2. CASE ~Refuse
    <3>1. /\ stage = "revision_coverage" /\ stage' = "carry" /\ attempt' = 0
          /\ UNCHANGED <<revision, late, plan, records, uncovered, preserved, obligations,
                         rejected, ledger, wanted>>
      BY <1>5, <2>2 DEF RevisionCoverageReply
    <3> QED BY <3>1 DEF Moves, Stages
  <2> QED BY <2>1, <2>2
<1>6. CASE Check
  <2>1. /\ stage = "check" /\ stage' \in {"done", "failed"}
        /\ UNCHANGED <<attempt, revision, late, plan, records, uncovered, preserved, obligations,
                       rejected, ledger, wanted>>
    BY <1>6 DEF Check
  <2> QED BY <2>1 DEF ShapeInv, Moves, Stages
<1>7. CASE UNCHANGED vars
  BY <1>7 DEF vars, ShapeInv, Moves
<1> QED BY <1>1, <1>2, <1>3, <1>4, <1>5, <1>6, <1>7
-----------------------------------------------------------------------------
(* The steps that begin an audit.                                           *)
LEMMA CandidatesOfPlan ==
  ASSUME NEW I, I \subseteq PlanIds, NEW goals \in Seq(GoalOf(I, Cores, Origins)),
         IdsAreUnique(goals)
  PROVE  /\ Candidates(goals) \in Seq(GoalOf(I, Cores, Origins))
         /\ Candidates(goals) \in Seq(GoalOf(PlanIds, Cores, Origins))
         /\ IdsAreUnique(Candidates(goals))
         /\ Ids(ToSet(Candidates(goals))) \subseteq Ids(ToSet(goals))
<1> DEFINE cs == Candidates(goals)
<1>1. cs \in Seq(GoalOf(I, Cores, Origins)) /\ Represents(cs, goals, Len(goals))
  BY CandidatesRepresent
<1>2. GoalOf(I, Cores, Origins) \subseteq GoalOf(PlanIds, Cores, Origins)
  BY DEF GoalOf
<1>3. cs \in Seq(GoalOf(PlanIds, Cores, Origins))
  BY <1>1, <1>2
<1> HIDE DEF cs
<1>4. ASSUME NEW g \in ToSet(cs) PROVE g.id \in Ids(ToSet(goals))
  <2>1. PICK i \in DOMAIN cs : g = cs[i]
    BY DEF ToSet
  <2>2. PICK j \in 1..Len(goals) : cs[i].id = goals[j].id
    BY <1>1 DEF Represents
  <2>3. goals[j] \in ToSet(goals)
    BY DEF ToSet
  <2> QED BY <2>1, <2>2, <2>3 DEF Ids
<1>5. Ids(ToSet(cs)) \subseteq Ids(ToSet(goals))
  BY <1>4 DEF Ids
<1> QED BY <1>1, <1>3, <1>5 DEF Represents, cs

LEMMA PlannerReplyKeepsPlaces == PlacesInv /\ PlannerReply => PlacesInv'
<1> SUFFICES ASSUME PlacesInv, PlannerReply PROVE PlacesInv'
  OBVIOUS
<1>1. CASE Refuse
  BY <1>1, RefuseMoves, MovesKeepPlaces DEF PlacesInv
<1>2. ASSUME NEW goals \in InitialPlans, ValidPlan(goals), Sends(Candidates(goals)),
             UNCHANGED <<revision, late, preserved, obligations, rejected, corrected, ledger,
                         wanted, covered>>
      PROVE PlacesInv'
  <2>1. goals \in Seq(GoalOf(Names, Cores, Origins)) /\ IdsAreUnique(goals)
    BY <1>2, ProposalsAreGoals DEF Proposals, ValidPlan
  <2>2. Names \subseteq PlanIds
    BY DEF PlanIds
  <2>3. /\ Candidates(goals) \in Seq(GoalOf(Names, Cores, Origins))
        /\ Candidates(goals) \in Seq(GoalOf(PlanIds, Cores, Origins))
        /\ IdsAreUnique(Candidates(goals))
    BY <2>1, <2>2, CandidatesOfPlan
  <2>4. /\ ProgressInv' /\ stage' \in {"reduce", "goal_audit"} /\ attempt' = 0
        /\ plan' = Candidates(goals) /\ (OriginsOf(records))' /\ uncovered' = {}
    BY <1>2, <2>3, Sending
  <2>5. stage = "planner" /\ revision = 0 /\ ~late
    BY PlannerReply DEF PlannerReply, PlacesInv, PhaseInv, ShapeInv
  <2>6. ShapeInv'
    BY <1>2, <2>3, <2>4 DEF PlacesInv, ShapeInv, Stages, Requests
  <2>7. FirstInv' /\ ObligationsInv' /\ ApartInv'
    BY <1>2, <2>3, <2>4 DEF PlacesInv, FirstInv, ObligationsInv, ApartInv
  <2>8. PhaseInv' /\ FreshInv'
    BY <1>2, <2>4, <2>5 DEF PlacesInv, PhaseInv, FreshInv, Auditing
  <2> QED BY <2>4, <2>6, <2>7, <2>8 DEF PlacesInv
<1> QED BY <1>1, <1>2, PlannerReply DEF PlannerReply, Sends

LEMMA LateProposalsKeepPlaces == PlacesInv /\ LateProposals => PlacesInv'
<1> SUFFICES ASSUME PlacesInv, LateProposals PROVE PlacesInv'
  OBVIOUS
<1>1. PICK goals \in LatePlans :
        /\ IdsAreUnique(goals)
        /\ \A i \in DOMAIN goals : goals[i].id \notin Ids(ledger) \union Ids(rejected)
        /\ Sends(Candidates(goals))
  BY DEF LateProposals, Sends
<1>2. /\ stage = "done" /\ ~late /\ late' = TRUE /\ revision' = 1 /\ preserved' = ledger
      /\ UNCHANGED <<obligations, rejected, corrected, ledger, wanted, covered>>
  BY DEF LateProposals
<1>3. goals \in Seq(GoalOf(Names, Cores, Origins))
  BY ProposalsAreGoals DEF Proposals
<1>4. /\ Candidates(goals) \in Seq(GoalOf(PlanIds, Cores, Origins))
      /\ IdsAreUnique(Candidates(goals))
      /\ Ids(ToSet(Candidates(goals))) \subseteq Ids(ToSet(goals))
  BY <1>1, <1>3, CandidatesOfPlan DEF PlanIds
<1>5. /\ ProgressInv' /\ stage' \in {"reduce", "goal_audit"} /\ attempt' = 0
      /\ plan' = Candidates(goals) /\ (OriginsOf(records))' /\ uncovered' = {}
  BY <1>1, <1>4, Sending
<1>6. Ids(ToSet(goals)) \intersect (Ids(ledger) \union Ids(rejected)) = {}
  BY <1>1 DEF Ids, ToSet
<1>7. ShapeInv'
  BY <1>2, <1>4, <1>5 DEF PlacesInv, ShapeInv, Stages, Requests
<1>8. FirstInv' /\ ObligationsInv' /\ ApartInv'
  BY <1>2 DEF PlacesInv, FirstInv, ObligationsInv, ApartInv
<1>9. PhaseInv'
  BY <1>2, <1>5 DEF PhaseInv, Auditing
<1>10. FreshInv'
  BY <1>2, <1>4, <1>5, <1>6 DEF FreshInv
<1> QED BY <1>5, <1>7, <1>8, <1>9, <1>10 DEF PlacesInv

\* The reply with its corrections under their new ids.
LEMMA NormalizedIsGoals ==
  ASSUME NEW goals \in Seq(GoalOf(Names, Cores, Origins))
  PROVE  Normalized(goals) \in Seq(GoalOf(PlanIds, Cores, Origins))
<1> DEFINE G == GoalOf(PlanIds, Cores, Origins)
           normal == Normalized(goals)
<1>1. DOMAIN goals = 1..Len(goals) /\ Len(goals) \in Nat
  OBVIOUS
<1>2. ASSUME NEW i \in DOMAIN goals
      PROVE  (IF IsCorrection(goals[i], goals) THEN [goals[i] EXCEPT !.id = CorrectedId(goals[i])]
              ELSE goals[i]) \in G
  <2>1. goals[i] \in GoalOf(Names, Cores, Origins)
    OBVIOUS
  <2>2. [goals[i] EXCEPT !.id = CorrectedId(goals[i])] \in G
    BY <2>1 DEF GoalOf, PlanIds, CorrectedId
  <2>3. goals[i] \in G
    BY <2>1 DEF GoalOf, PlanIds
  <2> QED BY <2>2, <2>3
<1>3. normal = [i \in 1..Len(goals) |->
                  IF IsCorrection(goals[i], goals) THEN [goals[i] EXCEPT !.id = CorrectedId(goals[i])]
                  ELSE goals[i]]
  BY <1>1 DEF Normalized
<1>4. normal \in [1..Len(goals) -> G]
  <2> HIDE DEF G, normal
  <2> QED BY <1>1, <1>2, <1>3
<1> HIDE DEF G, normal
<1>5. normal \in Seq(G)
  BY <1>1, <1>4
<1> QED BY <1>5 DEF G, normal

\* The corrected plan has goals the first audit did not see under these ids.
LEMMA CorrectedPlanIsNew ==
  ASSUME ShapeInv, FirstInv, revision = 0, NEW goals \in Seq(GoalOf(Names, Cores, Origins)),
         ValidRevision(Retained(Normalized(goals)))
  PROVE  LET new == Candidates(Fresh(Retained(Normalized(goals)))) IN
         /\ new \in Seq(GoalOf(PlanIds, Cores, Origins)) /\ IdsAreUnique(new)
         /\ Ids(ToSet(new)) \intersect (Ids(rejected) \union Ids(preserved)) = {}
<1> DEFINE G == GoalOf(PlanIds, Cores, Origins)
           normal == Normalized(goals)
           kept == {i \in DOMAIN normal : ~RevivesRejected(normal[i]) /\ ~Unchanged(normal[i])}
           retained == Retained(normal)
           candidates == Candidates(retained)
           others == {i \in DOMAIN candidates : candidates[i].id \notin Ids(preserved)}
           fresh == Fresh(retained)
           new == Candidates(fresh)
<1>1. normal \in Seq(G)
  BY NormalizedIsGoals
<1>2. retained = AtPositions(normal, kept)
  BY DEF Retained
<1>3. fresh = AtPositions(candidates, others)
  BY DEF Fresh
<1> HIDE DEF G, normal, retained, fresh, candidates, kept, others
<1>4. /\ retained \in Seq(G)
      /\ \A i \in DOMAIN retained : \E j \in DOMAIN normal \intersect kept : retained[i] = normal[j]
  BY <1>1, <1>2, AtPositionsKeeps
<1>5. IdsAreUnique(retained)
  BY DEF ValidRevision, retained, normal
<1>6. candidates \in Seq(G) /\ IdsAreUnique(candidates) /\ Ids(ToSet(candidates)) \subseteq Ids(ToSet(retained))
  BY <1>4, <1>5, CandidatesOfPlan DEF G, candidates
<1>7. /\ fresh \in Seq(G) /\ IdsAreUnique(fresh)
      /\ \A i \in DOMAIN fresh : \E j \in DOMAIN candidates \intersect others : fresh[i] = candidates[j]
  BY <1>3, <1>6, AtPositionsKeeps
<1>8. new \in Seq(G) /\ IdsAreUnique(new) /\ Ids(ToSet(new)) \subseteq Ids(ToSet(fresh))
  BY <1>7, CandidatesOfPlan DEF G
<1>9. Ids(ToSet(fresh)) \subseteq Ids(ToSet(candidates)) \ Ids(preserved)
  <2> SUFFICES ASSUME NEW i \in DOMAIN fresh
               PROVE fresh[i].id \in Ids(ToSet(candidates)) /\ fresh[i].id \notin Ids(preserved)
    BY DEF Ids, ToSet
  <2>1. PICK j \in DOMAIN candidates \intersect others : fresh[i] = candidates[j]
    BY <1>7
  <2>2. candidates[j] \in ToSet(candidates)
    BY DEF ToSet
  <2> QED BY <2>1, <2>2 DEF Ids, others
<1>10. Ids(ToSet(retained)) \intersect Ids(rejected) = {}
  <2> SUFFICES ASSUME NEW i \in DOMAIN retained, NEW r \in rejected, retained[i].id = r.id PROVE FALSE
    BY DEF Ids, ToSet
  <2>1. PICK j \in DOMAIN normal \intersect kept : retained[i] = normal[j]
    BY <1>4
  <2>2. ~RevivesRejected(normal[j])
    BY DEF kept
  <2> QED BY <2>1, <2>2 DEF RevivesRejected
<1>11. Ids(ToSet(new)) \intersect (Ids(rejected) \union Ids(preserved)) = {}
  BY <1>6, <1>8, <1>9, <1>10
<1> QED BY <1>8, <1>11 DEF G, new, fresh, retained, normal

\* The preserved goals come before or after the new ones, or are missing.
Answer(more, keep) ==
  LET kept == SetToSeq({AsGoal(p) : p \in preserved})
  IN CASE keep = "before" -> kept \o more
       [] keep = "after" -> more \o kept
       [] OTHER -> more

LEMMA AnswerIsGoals ==
  ASSUME PlacesInv, revision = 0, NEW more \in RevisedGoals, NEW keep
  PROVE  Answer(more, keep) \in Seq(GoalOf(Names, Cores, Origins))
<1> DEFINE G == GoalOf(Names, Cores, Origins)
           kept == SetToSeq({AsGoal(p) : p \in preserved})
<1>1. more \in Seq(G)
  BY ProposalsAreGoals DEF Proposals
<1>2. kept \in Seq(G)
  <2> DEFINE P == {AsGoal(p) : p \in preserved}
             f == [p \in preserved |-> AsGoal(p)]
  <2>1. IsFiniteSet(preserved) /\ P \subseteq G
    BY DEF PlacesInv, FirstInv
  <2>2. f \in Surjection(preserved, P)
    BY DEF Surjection
  <2>3. IsFiniteSet(P)
    <3> HIDE DEF P, f
    <3> QED BY <2>1, <2>2, FS_Surjection
  <2> HIDE DEF G
  <2>4. SetToSeq(P) \in Seq(P)
    <3> HIDE DEF P
    <3> QED BY <2>3, SetToSeqLists
  <2> HIDE DEF P
  <2>5. SetToSeq(P) \in Seq(G)
    BY <2>1, <2>4
  <2> QED BY <2>5 DEF P
<1> HIDE DEF kept, G
<1>3. kept \o more \in Seq(G) /\ more \o kept \in Seq(G)
  BY <1>1, <1>2
<1>4. Answer(more, keep) = CASE keep = "before" -> kept \o more
                             [] keep = "after" -> more \o kept
                             [] OTHER -> more
  BY DEF Answer, kept
<1> QED BY <1>1, <1>3, <1>4 DEF G

LEMMA RevisionReplyKeepsPlaces == PlacesInv /\ RevisionReply => PlacesInv'
<1> SUFFICES ASSUME PlacesInv, RevisionReply PROVE PlacesInv'
  OBVIOUS
<1>1. stage = "plan_revision" /\ revision = 0 /\ ~late
  BY DEF RevisionReply, PlacesInv, PhaseInv, ShapeInv
<1>2. PICK more \in RevisedGoals, keep \in {"before", "after", "dropped"} :
        LET goals == Normalized(Answer(more, keep))
            retained == Retained(goals)
            fresh == Fresh(retained)
        IN \/ /\ ValidRevision(retained)
              /\ Sends(Candidates(fresh))
              /\ revision' = 1
              /\ UNCHANGED <<late, preserved, obligations, rejected, ledger, wanted, covered>>
           \/ Refuse
  BY Zenon DEF RevisionReply, Sends, Answer
<1>3. CASE Refuse
  BY <1>3, RefuseMoves, MovesKeepPlaces DEF PlacesInv
<1>4. ASSUME ValidRevision(Retained(Normalized(Answer(more, keep)))),
             Sends(Candidates(Fresh(Retained(Normalized(Answer(more, keep)))))),
             revision' = 1, UNCHANGED <<late, preserved, obligations, rejected, ledger, wanted, covered>>
      PROVE PlacesInv'
  <2> DEFINE G == GoalOf(Names, Cores, Origins)
             goals == Answer(more, keep)
             new == Candidates(Fresh(Retained(Normalized(goals))))
  <2>1. goals \in Seq(G)
    BY <1>1, AnswerIsGoals
  <2>2. /\ new \in Seq(GoalOf(PlanIds, Cores, Origins)) /\ IdsAreUnique(new)
        /\ Ids(ToSet(new)) \intersect (Ids(rejected) \union Ids(preserved)) = {}
    <3> HIDE DEF Answer
    <3> QED BY <2>1, <1>1, <1>4, CorrectedPlanIsNew DEF PlacesInv
  <2> HIDE DEF new
  <2>3. /\ ProgressInv' /\ stage' \in {"reduce", "goal_audit"} /\ attempt' = 0
        /\ plan' = new /\ (OriginsOf(records))' /\ uncovered' = {}
    BY <1>4, <2>2, Sending DEF new
  <2>4. ShapeInv'
    BY <1>4, <2>2, <2>3 DEF PlacesInv, ShapeInv, Stages, Requests
  <2>5. FirstInv' /\ ObligationsInv' /\ ApartInv'
    BY <1>4 DEF PlacesInv, FirstInv, ObligationsInv, ApartInv
  <2>6. PhaseInv'
    BY <1>1, <1>4, <2>3 DEF PlacesInv, PhaseInv, Auditing
  <2>7. FreshInv'
    BY <1>4, <2>2, <2>3 DEF FreshInv
  <2> QED BY <2>3, <2>4, <2>5, <2>6, <2>7 DEF PlacesInv
<1> QED
  <2> HIDE DEF Answer
  <2> QED BY <1>2, <1>3, <1>4, Zenon
-----------------------------------------------------------------------------
(* The steps that audit a batch.                                            *)
\* The goals of a batch are the next ones of the plan.
LEMMA BatchIsNext ==
  ASSUME ShapeInv, ProgressInv, stage = "goal_audit"
  PROVE  \E m \in (Audited + 1)..Len(plan) : Batch = {plan[i] : i \in (Audited + 1)..m}
<1> DEFINE k == Audited
           n == Len(plan)
           m == Min({k + BatchSize, n})
<1>1. k \in Nat /\ n \in Nat /\ k < n /\ BatchSize \in Nat \ {0}
  <2>1. plan \in Seq(GoalOf(PlanIds, Cores, Origins))
    BY DEF ShapeInv
  <2>2. n \in Nat
    BY <2>1
  <2> QED BY <2>2, PlanAssumption DEF ProgressInv
<1>2. m \in {k + BatchSize, n} /\ m <= k + BatchSize /\ m <= n
  <2> HIDE DEF k, n
  <2>1. {k + BatchSize, n} \in SUBSET Nat /\ {k + BatchSize, n} # {}
    BY <1>1
  <2> QED BY <2>1, MinOfNaturals
<1>3. m \in (k + 1)..n
  BY <1>1, <1>2
<1>4. Batch = ToSet(SubSeq(plan, k + 1, m))
  BY DEF Batch
<1> HIDE DEF k, m
<1>5. ToSet(SubSeq(plan, k + 1, m)) = {plan[i] : i \in (k + 1)..m}
  <2> DEFINE G == GoalOf(PlanIds, Cores, Origins)
  <2>1. plan \in Seq(G)
    BY DEF ShapeInv
  <2> HIDE DEF G
  <2>2. /\ DOMAIN SubSeq(plan, k + 1, m) = 1..(m - k)
        /\ \A j \in 1..(m - k) : SubSeq(plan, k + 1, m)[j] = plan[k + j]
    BY <1>1, <1>3, <2>1
  <2>3. ASSUME NEW i \in (k + 1)..m PROVE plan[i] \in ToSet(SubSeq(plan, k + 1, m))
    <3>1. i - k \in 1..(m - k) /\ k + (i - k) = i
      BY <1>1, <1>3
    <3> QED BY <2>2, <3>1 DEF ToSet
  <2>4. ASSUME NEW j \in 1..(m - k) PROVE k + j \in (k + 1)..m
    BY <1>1, <1>3
  <2> QED BY <2>2, <2>3, <2>4 DEF ToSet
<1> QED BY <1>3, <1>4, <1>5 DEF k

\* A reply has a record for each goal of the batch, within its origins.
LEMMA ReplyOfBatch ==
  ASSUME NEW goals, NEW targets, NEW reply \in RecordChoices(goals, targets),
         \A g \in goals : g.origins \subseteq Origins
  PROVE  /\ DOMAIN reply = Ids(goals) /\ OriginsOf(reply)
         /\ \A existing : /\ DOMAIN Quarantined(goals, reply, existing) = Ids(goals)
                          /\ OriginsOf(Quarantined(goals, reply, existing))
<1>1. DOMAIN reply = Ids(goals) /\ \A g \in goals : reply[g.id] \in RecordsFor(g, targets)
  BY DEF RecordChoices
<1>2. ASSUME NEW g \in goals, NEW r \in RecordsFor(g, targets)
      PROVE r = [verdict |-> r.verdict, into |-> r.into, origins |-> r.origins] /\ r.origins \subseteq Origins
  <2>1. CASE r \in [verdict : {"ready", "decompose", "blocked"}, into : {g.id}, origins : (SUBSET g.origins) \ {{}}]
    BY <2>1
  <2>2. CASE r \in [verdict : {"reject"}, into : {g.id}, origins : {{}}]
    BY <2>2
  <2>3. CASE r \in [verdict : {"merge"}, into : targets \ {g.id}, origins : (SUBSET g.origins) \ {{}}]
    BY <2>3
  <2> QED BY <2>1, <2>2, <2>3 DEF RecordsFor
<1>3. \A id \in DOMAIN reply :
        /\ reply[id] = [verdict |-> reply[id].verdict, into |-> reply[id].into, origins |-> reply[id].origins]
        /\ reply[id].origins \subseteq Origins
  BY <1>1, <1>2 DEF Ids
<1>4. ASSUME NEW existing
      PROVE  /\ DOMAIN Quarantined(goals, reply, existing) = Ids(goals)
             /\ OriginsOf(Quarantined(goals, reply, existing))
  <2> DEFINE q == Quarantined(goals, reply, existing)
  <2>1. DOMAIN q = Ids(goals)
    BY <1>1 DEF Quarantined
  <2>2. ASSUME NEW id \in DOMAIN reply PROVE q[id].origins = reply[id].origins
    <3>1. q[id] = reply[id] \/ q[id] = [reply[id] EXCEPT !.verdict = "decompose", !.into = id]
      BY DEF Quarantined
    <3> HIDE DEF q
    <3>2. [reply[id] EXCEPT !.verdict = "decompose", !.into = id].origins = reply[id].origins
      BY <1>3
    <3> QED BY <3>1, <3>2
  <2> QED BY <1>1, <1>3, <2>1, <2>2 DEF OriginsOf
<1> QED BY <1>1, <1>3, <1>4 DEF OriginsOf

LEMMA CountFirst ==
  ASSUME NEW S, NEW s \in Seq(S), IdsAreUnique(s), NEW m \in 0..Len(s)
  PROVE  Cardinality({s[i].id : i \in 1..m}) = m
<1> DEFINE T == {s[i].id : i \in 1..m}
           f == [i \in 1..m |-> s[i].id]
<1>1. DOMAIN s = 1..Len(s) /\ m \in Nat /\ 1..m \subseteq DOMAIN s
  OBVIOUS
<1>2. f \in Bijection(1..m, T)
  <2>1. f \in Surjection(1..m, T)
    BY DEF Surjection
  <2>2. f \in Injection(1..m, T)
    BY <1>1 DEF Injection, IsInjective, IdsAreUnique
  <2> QED BY <2>1, <2>2 DEF Bijection
<1>3. IsFiniteSet(1..m) /\ Cardinality(1..m) = m
  BY <1>1, FS_Interval
<1> HIDE DEF T, f
<1>4. Cardinality(T) = Cardinality(1..m)
  BY <1>2, <1>3, FS_Bijection DEF ExistsBijection
<1> QED BY <1>3, <1>4 DEF T

\* What a step that records a batch does to the count of audited goals.
Counts(reply, k, m) ==
  /\ k \in 0..Len(plan) /\ m \in (k + 1)..Len(plan)
  /\ k = Audited /\ m = Audited'
  /\ DOMAIN reply = {plan[i].id : i \in (k + 1)..m}
  /\ DOMAIN records = {plan[i].id : i \in 1..k}
  /\ DOMAIN records' = {plan[i].id : i \in 1..m}
  /\ m < Len(plan) => stage' = "goal_audit"
  /\ m = Len(plan) => stage' \in {"join", "reduce"}

LEMMA RecordCounts ==
  ASSUME PlacesInv, stage = "goal_audit", NEW reply, DOMAIN reply = Ids(Batch), NEW parts,
         Record(reply, parts)
  PROVE  \E k, m : Counts(reply, k, m)
<1>1. PICK k : k = Audited
  OBVIOUS
<1>2. PICK m \in (k + 1)..Len(plan) : Batch = {plan[i] : i \in (k + 1)..m}
  BY <1>1, BatchIsNext DEF PlacesInv
<1>3. /\ plan \in Seq(GoalOf(PlanIds, Cores, Origins)) /\ IdsAreUnique(plan) /\ Len(plan) \in Nat
      /\ k \in 0..Len(plan) /\ DOMAIN records = {plan[i].id : i \in 1..k}
  <2>1. plan \in Seq(GoalOf(PlanIds, Cores, Origins)) /\ IdsAreUnique(plan)
    BY DEF PlacesInv, ShapeInv
  <2>2. Len(plan) \in Nat
    BY <2>1
  <2> QED BY <1>1, <2>1, <2>2 DEF PlacesInv, ProgressInv
<1>4. DOMAIN reply = {plan[i].id : i \in (k + 1)..m}
  BY <1>2 DEF Ids
<1>5. DOMAIN records' = DOMAIN records \union DOMAIN reply
  BY DEF Record
<1>6. 1..m = (1..k) \union ((k + 1)..m)
  BY <1>2, <1>3
<1>7. DOMAIN records' = {plan[i].id : i \in 1..m}
  BY <1>3, <1>4, <1>5, <1>6
<1>8. m \in 0..Len(plan) /\ m \in (k + 1)..Len(plan)
  BY <1>2, <1>3
<1>9. Cardinality(DOMAIN records') = m
  BY <1>3, <1>7, <1>8, CountFirst
<1>10. m < Len(plan) => stage' = "goal_audit"
  BY <1>9 DEF Record
<1>11. m = Len(plan) => stage' \in {"join", "reduce"}
  <2>1. stage' = IF Cardinality(DOMAIN records') < Len(plan) THEN "goal_audit"
                 ELSE IF Batched THEN "join" ELSE "reduce"
    BY DEF Record
  <2>2. m = Len(plan) => ~(Cardinality(DOMAIN records') < Len(plan))
    BY <1>3, <1>9
  <2> QED BY <2>1, <2>2
<1>12. m = Audited'
  BY <1>9 DEF Audited
<1> QED BY <1>1, <1>3, <1>4, <1>7, <1>8, <1>10, <1>11, <1>12 DEF Counts

\* A reply that was accepted, as returned or after the recovery.
Recorded(reply, parts) ==
  /\ stage = "goal_audit"
  /\ DOMAIN reply = Ids(Batch) /\ OriginsOf(reply) /\ parts \subseteq Contents
  /\ ValidAudit(Batch, reply, parts) /\ Record(reply, parts)

LEMMA PlanGoals ==
  ASSUME ShapeInv
  PROVE  /\ ToSet(plan) \subseteq GoalOf(PlanIds, Cores, Origins) /\ Distinct(ToSet(plan))
         /\ \A g \in ToSet(plan) : g.origins \subseteq Origins /\ g.core \in Cores
<1> DEFINE G == GoalOf(PlanIds, Cores, Origins)
<1>1. plan \in Seq(G) /\ IdsAreUnique(plan)
  BY DEF ShapeInv
<1>2. ToSet(plan) \subseteq G /\ Distinct(ToSet(plan))
  <2> HIDE DEF G
  <2> QED BY <1>1, InPlan, UniqueIsDistinct
<1> QED BY <1>2 DEF GoalOf

LEMMA AuditReplyRecords ==
  ASSUME PlacesInv, AuditReply
  PROVE  Refuse \/ \E reply, parts : Recorded(reply, parts)
<1> DEFINE targets == Ids(Batch) \union Ids(Existing)
<1>1. PICK reply \in RecordChoices(Batch, targets),
           parts \in {s \in SUBSET Contents : Cardinality(s) <= MaxUncovered} :
        LET quarantined == Quarantined(Batch, reply, Existing) IN
        IF ValidAudit(Batch, reply, parts) THEN Record(reply, parts)
        ELSE IF attempt = 1 /\ quarantined # reply /\ ValidAudit(Batch, quarantined, parts)
        THEN Record(quarantined, parts)
        ELSE Refuse
  BY Zenon DEF AuditReply
<1>2. stage = "goal_audit"
  BY DEF AuditReply
<1>3. \A g \in Batch : g.origins \subseteq Origins
  <2>1. PICK m \in (Audited + 1)..Len(plan) : Batch = {plan[i] : i \in (Audited + 1)..m}
    BY <1>2, BatchIsNext DEF PlacesInv
  <2>2. plan \in Seq(GoalOf(PlanIds, Cores, Origins)) /\ Audited \in 0..Len(plan)
    BY DEF PlacesInv, ShapeInv, ProgressInv
  <2>3. \A i \in (Audited + 1)..m : plan[i] \in GoalOf(PlanIds, Cores, Origins)
    BY <2>2
  <2> QED BY <2>1, <2>3 DEF GoalOf
<1> HIDE DEF targets
<1>4. /\ DOMAIN reply = Ids(Batch) /\ OriginsOf(reply)
      /\ DOMAIN Quarantined(Batch, reply, Existing) = Ids(Batch)
      /\ OriginsOf(Quarantined(Batch, reply, Existing))
  <2>1. PICK b, e : b = Batch /\ e = Existing
    OBVIOUS
  <2> QED BY <1>3, <2>1, ReplyOfBatch
<1>5. parts \subseteq Contents
  OBVIOUS
<1>6. CASE ValidAudit(Batch, reply, parts) /\ Record(reply, parts)
  BY <1>2, <1>4, <1>5, <1>6, Zenon DEF Recorded
<1>7. CASE /\ ValidAudit(Batch, Quarantined(Batch, reply, Existing), parts)
           /\ Record(Quarantined(Batch, reply, Existing), parts)
  BY <1>2, <1>4, <1>5, <1>7, Zenon DEF Recorded
<1> QED BY <1>1, <1>6, <1>7, Zenon

LEMMA AuditReplyKeepsPlaces == PlacesInv /\ AuditReply => PlacesInv'
<1> SUFFICES ASSUME PlacesInv, AuditReply PROVE PlacesInv'
  OBVIOUS
<1>1. CASE Refuse
  BY <1>1, RefuseMoves, MovesKeepPlaces DEF PlacesInv
<1>2. ASSUME NEW reply, NEW parts, Recorded(reply, parts) PROVE PlacesInv'
  <2>1. /\ stage = "goal_audit" /\ DOMAIN reply = Ids(Batch) /\ OriginsOf(reply)
        /\ parts \subseteq Contents /\ Record(reply, parts)
    BY <1>2 DEF Recorded
  <2>2. /\ records' = [id \in DOMAIN records \union DOMAIN reply |->
                         IF id \in DOMAIN reply THEN reply[id] ELSE records[id]]
        /\ uncovered' = uncovered \union parts
        /\ stage' \in {"goal_audit", "join", "reduce"} /\ attempt' = 0
        /\ UNCHANGED <<revision, late, plan, preserved, obligations, rejected, corrected, ledger,
                       wanted, covered>>
    BY <2>1 DEF Record
  <2>3. PICK k, m : Counts(reply, k, m)
    BY <2>1, RecordCounts
  <2>4. ProgressInv'
    <3>1. plan \in Seq(GoalOf(PlanIds, Cores, Origins))
      BY DEF PlacesInv, ShapeInv
    <3>2. Len(plan) \in Nat /\ m \in 0..Len(plan)
      BY <2>3, <3>1 DEF Counts
    <3>3. /\ Audited' = m /\ plan' = plan /\ DOMAIN records' = {plan[i].id : i \in 1..m}
          /\ m < Len(plan) => stage' = "goal_audit"
          /\ m = Len(plan) => stage' \in {"join", "reduce"}
      BY <2>2, <2>3 DEF Counts
    <3> QED BY <3>2, <3>3 DEF ProgressInv
  <2>5. (OriginsOf(records))'
    <3>1. OriginsOf(records)
      BY DEF PlacesInv, ShapeInv
    <3> QED BY <2>1, <2>2, <3>1 DEF OriginsOf
  <2>6. ShapeInv'
    BY <2>1, <2>2, <2>5 DEF PlacesInv, ShapeInv, Stages, Requests
  <2>7. FirstInv' /\ ObligationsInv' /\ ApartInv'
    BY <2>2 DEF PlacesInv, FirstInv, ObligationsInv, ApartInv
  <2>8. PhaseInv' /\ FreshInv'
    BY <2>1, <2>2 DEF PlacesInv, PhaseInv, FreshInv, Auditing
  <2> QED BY <2>4, <2>6, <2>7, <2>8 DEF PlacesInv
<1> QED BY <1>1, <1>2, AuditReplyRecords
-----------------------------------------------------------------------------
(* The steps that end an audit.                                             *)
\* The goals under judgement: those of the plan that were not merged into the
\* ledger.
LEMMA JudgedIsOfPlan ==
  ASSUME PlacesInv, stage = "reduce"
  PROVE  /\ JudgedGoals \in SUBSET GoalOf(PlanIds, Cores, Origins)
         /\ revision = 0 => JudgedGoals \in SUBSET GoalOf(Names, Cores, Origins)
         /\ JudgedGoals \subseteq ToSet(plan) /\ Distinct(JudgedGoals) /\ OriginsOf(Judged)
         /\ DOMAIN Judged = Ids(JudgedGoals)
         /\ DOMAIN records = Ids(ToSet(plan))
         /\ IsFiniteSet(JudgedGoals)
<1>1. /\ plan \in Seq(GoalOf(PlanIds, Cores, Origins)) /\ IdsAreUnique(plan)
      /\ OriginsOf(records)
      /\ DOMAIN records = {plan[i].id : i \in 1..Len(plan)}
  BY DEF PlacesInv, ShapeInv, ProgressInv
<1>2. ToSet(plan) \subseteq GoalOf(PlanIds, Cores, Origins) /\ Distinct(ToSet(plan))
  BY PlanGoals DEF PlacesInv
<1>3. DOMAIN records = Ids(ToSet(plan))
  <2>1. DOMAIN plan = 1..Len(plan)
    BY <1>1
  <2> QED BY <1>1, <2>1 DEF Ids, ToSet
<1>4. /\ DOMAIN Judged = DOMAIN records \ External(records, Existing)
      /\ \A id \in DOMAIN Judged : Judged[id] = records[id]
  BY DEF Judged, Internal, Restrict, External
<1>5. OriginsOf(Judged)
  BY <1>1, <1>4 DEF OriginsOf
<1>6. JudgedGoals \subseteq ToSet(plan)
  BY DEF JudgedGoals
<1>7. DOMAIN Judged = Ids(JudgedGoals)
  BY <1>3, <1>4 DEF JudgedGoals, Ids
<1>8. IsFiniteSet(JudgedGoals)
  BY <1>1, <1>6, PlanIsFinite, FS_Subset
<1>9. revision = 0 => JudgedGoals \in SUBSET GoalOf(Names, Cores, Origins)
  <2> SUFFICES ASSUME revision = 0 PROVE ToSet(plan) \subseteq GoalOf(Names, Cores, Origins)
    BY <1>6
  <2> QED BY InPlan DEF PlacesInv, FirstInv
<1> QED BY <1>2, <1>3, <1>5, <1>6, <1>7, <1>8, <1>9 DEF Distinct

LEMMA FiniteImage ==
  ASSUME NEW S, IsFiniteSet(S), NEW f PROVE IsFiniteSet({f[x] : x \in S})
<1> DEFINE T == {f[x] : x \in S}
           h == [x \in S |-> f[x]]
<1>1. h \in Surjection(S, T)
  BY DEF Surjection
<1> HIDE DEF T, h
<1>2. IsFiniteSet(T)
  BY <1>1, FS_Surjection
<1> QED BY <1>2 DEF T

LEMMA InitialGoalIs ==
  ASSUME NEW id \in Ids(ToSet(plan))
  PROVE  InitialGoal(id) \in ToSet(plan) /\ InitialGoal(id).id = id
<1>1. \E g \in ToSet(plan) : g.id = id
  BY DEF Ids
<1> QED BY <1>1 DEF InitialGoal

LEMMA AcceptedIds ==
  ASSUME NEW reduction
  PROVE  /\ Ids(Accepted(reduction)) = Ids(reduction.ready \union reduction.blocked)
         /\ \A p \in Accepted(reduction) : \E g \in reduction.ready \union reduction.blocked :
              AsGoal(p) = AsGoal(g) /\ p.id = g.id
<1>1. \A p \in Accepted(reduction) : \E g \in reduction.ready \union reduction.blocked :
        AsGoal(p) = AsGoal(g) /\ p.id = g.id
  BY DEF Accepted, Required, AsGoal
<1>2. \A g \in reduction.ready \union reduction.blocked : \E p \in Accepted(reduction) : p.id = g.id
  <2> SUFFICES ASSUME NEW g \in reduction.ready \union reduction.blocked
               PROVE \E p \in Accepted(reduction) : p.id = g.id
    OBVIOUS
  <2>1. Required(g, "ready").id = g.id /\ Required(g, "blocked").id = g.id
    BY DEF Required
  <2> QED BY <2>1 DEF Accepted
<1> QED BY <1>1, <1>2 DEF Ids

\* The reduction of the audit at hand.
Reduced(existing) == Reduce(JudgedGoals, Judged, existing, distinct)

LEMMA ReductionOfPlan ==
  ASSUME PlacesInv, stage = "reduce", NEW r, NEW existing, r = Reduced(existing)
  PROVE  /\ \A g \in Others(r) \union r.rejected :
              /\ g \in GoalOf(PlanIds, Cores, Origins)
              /\ revision = 0 => g \in GoalOf(Names, Cores, Origins)
              /\ g.id \in Ids(JudgedGoals) /\ g.id \in Ids(ToSet(plan)) /\ g.id \in Roots(Judged)
              /\ \E h \in JudgedGoals : h.id = g.id /\ h.core = g.core
         /\ Ids(Others(r)) \intersect Ids(r.rejected) = {}
         /\ \A id \in Roots(Judged) : id \in Ids(Others(r)) \union Ids(r.rejected)
         /\ \A g \in r.rejected : Judged[g.id].verdict = "reject"
         /\ IsFiniteSet(Others(r))
<1>1. PICK goals, audit, distinctIds : goals = JudgedGoals /\ audit = Judged /\ distinctIds = distinct
  OBVIOUS
<1>2. /\ goals \in SUBSET GoalOf(PlanIds, Cores, Origins)
      /\ revision = 0 => goals \in SUBSET GoalOf(Names, Cores, Origins)
      /\ goals \subseteq ToSet(plan) /\ Distinct(goals) /\ OriginsOf(audit)
      /\ DOMAIN audit = Ids(goals) /\ IsFiniteSet(goals)
  BY <1>1, JudgedIsOfPlan
<1>3. r = Reduce(goals, audit, existing, distinctIds)
  BY <1>1 DEF Reduced
<1>4. /\ \A g \in Others(r) \union r.rejected :
           /\ g \in GoalOf(PlanIds, Cores, Origins) /\ g.id \in Ids(goals) /\ g.id \in Roots(audit)
           /\ \E h \in goals : h.id = g.id /\ h.core = g.core
      /\ Ids(Others(r)) \intersect Ids(r.rejected) = {}
      /\ \A id \in Roots(audit) \intersect Ids(goals) : id \in Ids(Others(r) \union r.rejected)
      /\ \A g \in r.rejected : audit[g.id].verdict = "reject"
      /\ IsFiniteSet(Others(r))
  <2>1. Splits(Reduce(goals, audit, existing, distinctIds), PlanIds, goals, audit)
    BY <1>2, ReductionSplits
  <2>2. Splits(r, PlanIds, goals, audit)
    BY <1>3, <2>1
  <2> QED BY <1>2, <2>2 DEF Splits
<1>5. revision = 0 => \A g \in Others(r) \union r.rejected : g \in GoalOf(Names, Cores, Origins)
  <2> SUFFICES ASSUME revision = 0, NEW g \in Others(r) \union r.rejected
               PROVE g \in GoalOf(Names, Cores, Origins)
    OBVIOUS
  <2>1. g \in GoalOf(PlanIds, Cores, Origins) /\ g.id \in Ids(goals)
    BY <1>4
  <2>2. g.id \in Names
    BY <1>2, <2>1 DEF Ids, GoalOf
  <2> QED BY <2>1, <2>2 DEF GoalOf
<1>6. Ids(goals) \subseteq Ids(ToSet(plan)) /\ Roots(audit) \subseteq Ids(goals)
  BY <1>2 DEF Ids, Roots
<1>7. Ids(Others(r) \union r.rejected) = Ids(Others(r)) \union Ids(r.rejected)
  BY DEF Ids
<1> QED BY <1>1, <1>4, <1>5, <1>6, <1>7

LEMMA ObligationsAreTyped ==
  ASSUME PlacesInv, stage = "reduce", NEW r, r = Reduced({})
  PROVE  /\ IsFiniteSet(RevisionObligations(r))
         /\ \A o \in RevisionObligations(r) : o.core \in Cores /\ o.origins \in SUBSET Origins
<1> DEFINE D == {Obligation("decompose", g.id, InitialGoal(g.id), g.origins) : g \in r.decompose}
           F == {Obligation("refine", g.id, g, g.origins) : g \in r.refine}
           P == PartObligations(uncovered)
           d == [g \in r.decompose |-> Obligation("decompose", g.id, InitialGoal(g.id), g.origins)]
           f == [g \in r.refine |-> Obligation("refine", g.id, g, g.origins)]
           p == [u \in uncovered |-> Obligation("uncovered", PartGoal(u).id, u, u.origins)]
<1>1. RevisionObligations(r) = (D \union F) \union P
  BY DEF RevisionObligations
<1>2. /\ \A g \in Others(r) : g \in GoalOf(PlanIds, Cores, Origins) /\ g.id \in Ids(ToSet(plan))
      /\ IsFiniteSet(Others(r))
  BY ReductionOfPlan
<1>3. IsFiniteSet(r.decompose) /\ IsFiniteSet(r.refine)
  BY <1>2, FS_Subset DEF Others
<1>4. uncovered \subseteq Contents /\ IsFiniteSet(uncovered)
  BY PlanAssumption, FS_Subset DEF PlacesInv, ShapeInv
<1>5. /\ D = {d[g] : g \in r.decompose} /\ F = {f[g] : g \in r.refine}
      /\ P = {p[u] : u \in uncovered}
  BY DEF PartObligations
<1>6. IsFiniteSet(D) /\ IsFiniteSet(F) /\ IsFiniteSet(P)
  <2> HIDE DEF D, F, P, d, f, p
  <2> QED BY <1>3, <1>4, <1>5, FiniteImage
<1>7. IsFiniteSet(RevisionObligations(r))
  <2> HIDE DEF D, F, P
  <2> QED BY <1>1, <1>6, FS_Union
<1>8. \A o \in D : o.core \in Cores /\ o.origins \in SUBSET Origins
  <2> SUFFICES ASSUME NEW g \in r.decompose
               PROVE InitialGoal(g.id).core \in Cores /\ InitialGoal(g.id).origins \in SUBSET Origins
    BY DEF Obligation
  <2>1. InitialGoal(g.id) \in ToSet(plan)
    BY <1>2, InitialGoalIs DEF Others
  <2> QED BY <2>1, PlanGoals DEF PlacesInv
<1>9. \A o \in F : o.core \in Cores /\ o.origins \in SUBSET Origins
  BY <1>2 DEF Obligation, GoalOf, Others
<1>10. \A o \in P : o.core \in Cores /\ o.origins \in SUBSET Origins
  <2>1. \A u \in uncovered : u.core \in Cores /\ u.origins \in SUBSET Origins
    <3>1. Contents \subseteq [core : Cores, origins : (SUBSET Origins) \ {{}}]
      BY GoalAuditAssumption
    <3> QED BY <1>4, <3>1
  <2> QED BY <2>1 DEF PartObligations, Obligation
<1> HIDE DEF D, F, P
<1> QED BY <1>1, <1>7, <1>8, <1>9, <1>10

\* What the first audit leaves.
LEMMA ReduceInitialKeepsPlaces == PlacesInv /\ ReduceInitial => PlacesInv'
<1> SUFFICES ASSUME PlacesInv, ReduceInitial PROVE PlacesInv'
  OBVIOUS
<1>1. PICK r : r = Reduced({})
  OBVIOUS
<1> DEFINE accepted == Accepted(r)
<1>2. /\ stage = "reduce" /\ revision = 0
      /\ rejected' = {InitialGoal(g.id) : g \in r.rejected}
      /\ UNCHANGED <<attempt, revision, late, plan, records, uncovered, corrected, covered>>
      /\ \/ /\ stage' = "plan_revision" /\ preserved' = accepted
            /\ obligations' = RevisionObligations(r) /\ ledger' = ledger
         \/ stage' = "check" /\ ledger' = accepted /\ UNCHANGED <<preserved, obligations>>
  BY <1>1 DEF ReduceInitial, Reduced
<1>3. ~late /\ ledger = {} /\ preserved = {} /\ obligations = {} /\ rejected = {}
  BY <1>2 DEF PlacesInv, PhaseInv, ShapeInv, Auditing
<1>4. /\ \A g \in Others(r) \union r.rejected :
           /\ g \in GoalOf(Names, Cores, Origins)
           /\ g.id \in Ids(ToSet(plan))
      /\ Ids(Others(r)) \intersect Ids(r.rejected) = {}
      /\ IsFiniteSet(Others(r))
  BY <1>1, <1>2, ReductionOfPlan
<1>5. Ids(rejected)' = Ids(r.rejected)
  <2>1. \A g \in r.rejected : InitialGoal(g.id).id = g.id
    BY <1>4, InitialGoalIs
  <2> QED BY <1>2, <2>1 DEF Ids
<1>6. Ids(r.rejected) \subseteq PlanIds
  BY <1>4 DEF Ids, GoalOf, PlanIds
<1>7. /\ Ids(accepted) \subseteq Ids(Others(r))
      /\ \A p \in accepted : \E g \in Others(r) : AsGoal(p) = AsGoal(g)
  <2>1. /\ Ids(accepted) = Ids(r.ready \union r.blocked)
        /\ \A p \in accepted : \E g \in r.ready \union r.blocked : AsGoal(p) = AsGoal(g)
    BY AcceptedIds
  <2> QED BY <2>1 DEF Others, Ids
<1>8. \A p \in accepted : AsGoal(p) \in GoalOf(Names, Cores, Origins)
  <2> SUFFICES ASSUME NEW g \in Others(r) PROVE AsGoal(g) \in GoalOf(Names, Cores, Origins)
    BY <1>7
  <2> QED BY <1>4 DEF AsGoal, GoalOf
<1>9. IsFiniteSet(accepted)
  <2> DEFINE R == {Required(g, "ready") : g \in r.ready}
             B == {Required(g, "blocked") : g \in r.blocked}
             fr == [g \in r.ready |-> Required(g, "ready")]
             fb == [g \in r.blocked |-> Required(g, "blocked")]
  <2>1. IsFiniteSet(r.ready) /\ IsFiniteSet(r.blocked)
    BY <1>4, FS_Subset DEF Others
  <2>2. R = {fr[g] : g \in r.ready} /\ B = {fb[g] : g \in r.blocked}
    OBVIOUS
  <2>3. IsFiniteSet(R) /\ IsFiniteSet(B)
    <3> HIDE DEF R, B, fr, fb
    <3> QED BY <2>1, <2>2, FiniteImage
  <2>4. accepted = R \union B
    BY DEF Accepted
  <2> HIDE DEF R, B, accepted
  <2> QED BY <2>3, <2>4, FS_Union
<1> HIDE DEF accepted
<1>10. ShapeInv'
  BY <1>2, <1>5, <1>6 DEF PlacesInv, ShapeInv, Stages, Requests, OriginsOf
<1>11. FirstInv'
  BY <1>2, <1>8, <1>9 DEF PlacesInv, FirstInv
<1>12. ObligationsInv'
  BY <1>1, <1>2, ObligationsAreTyped DEF PlacesInv, ObligationsInv
<1>13. PhaseInv' /\ FreshInv'
  BY <1>2, <1>3 DEF PhaseInv, FreshInv, Auditing
<1>14. ApartInv'
  <2>1. Ids({}) = {}
    BY DEF Ids
  <2>2. Ids(ledger') \union Ids(preserved') = Ids(accepted)
    BY <1>2, <1>3, <2>1
  <2> QED BY <1>4, <1>5, <1>7, <2>2 DEF ApartInv
<1>15. ProgressInv'
  BY <1>2 DEF PlacesInv, ProgressInv, Audited
<1> QED BY <1>10, <1>11, <1>12, <1>13, <1>14, <1>15 DEF PlacesInv

\* What the second or the late audit adds to the ledger: its own groups, and
\* parts under ids of the runtime.
Added(r) == Accepted(r) \union Leftover(r, uncovered)

LEMMA AddedIds ==
  ASSUME PlacesInv, NEW r
  PROVE  /\ Ids(Others(r)) \subseteq Ids(Added(r))
         /\ Ids(Added(r)) \subseteq Ids(Others(r)) \union RuntimeIds
<1>1. Ids(Accepted(r)) = Ids(r.ready \union r.blocked)
  BY AcceptedIds
<1>2. \A u \in uncovered : PartGoal(u).id \in RuntimeIds
  <2>1. \A u \in uncovered : u.core \in Cores /\ u.origins \in SUBSET Origins
    <3>1. Contents \subseteq [core : Cores, origins : (SUBSET Origins) \ {{}}] /\ uncovered \subseteq Contents
      BY GoalAuditAssumption DEF PlacesInv, ShapeInv
    <3> QED BY <3>1
  <2> QED BY <2>1 DEF PartGoal, RuntimeIds
<1>3. \A g \in Leftover(r, uncovered) : \/ \E h \in r.decompose \union r.refine : g.id = h.id
                                        \/ \E u \in uncovered : g.id = PartGoal(u).id
  BY DEF Leftover, Required
<1>4. \A h \in r.decompose \union r.refine : \E g \in Leftover(r, uncovered) : g.id = h.id
  <2> SUFFICES ASSUME NEW h \in r.decompose \union r.refine
               PROVE \E g \in Leftover(r, uncovered) : g.id = h.id
    OBVIOUS
  <2>1. Required(h, "planning_incomplete") \in Leftover(r, uncovered)
    BY DEF Leftover
  <2>2. Required(h, "planning_incomplete").id = h.id
    BY DEF Required
  <2> QED BY <2>1, <2>2
<1>5. Ids(Added(r)) = Ids(Accepted(r)) \union Ids(Leftover(r, uncovered))
  BY DEF Ids, Added
<1>6. Ids(Others(r)) = Ids(r.ready \union r.blocked) \union Ids(r.decompose \union r.refine)
  BY DEF Ids, Others
<1>7. Ids(r.decompose \union r.refine) \subseteq Ids(Leftover(r, uncovered))
  BY <1>4 DEF Ids
<1>8. Ids(Leftover(r, uncovered)) \subseteq Ids(r.decompose \union r.refine) \union RuntimeIds
  BY <1>2, <1>3 DEF Ids
<1> QED BY <1>1, <1>5, <1>6, <1>7, <1>8

LEMMA ReductionKeepsPlaces ==
  ASSUME PlacesInv, ReduceRevision \/ ReduceLate
  PROVE  PlacesInv'
<1>1. PICK r : r = Reduced(Existing)
  OBVIOUS
<1>2. /\ stage = "reduce" /\ revision = 1
      /\ rejected' = rejected \union r.rejected
      /\ ledger' = preserved \union Added(r)
      /\ UNCHANGED <<attempt, revision, late, plan, records, uncovered, preserved, obligations,
                     corrected, wanted>>
      /\ \/ ~late /\ stage' \in {"revision_coverage", "carry"}
         \/ late /\ stage' = "done"
  <2>1. CASE ReduceRevision
    BY <1>1, <2>1 DEF ReduceRevision, Reduced, Added
  <2>2. CASE ReduceLate
    BY <1>1, <2>2 DEF ReduceLate, Reduced, Added, PlacesInv, PhaseInv
  <2> QED BY <2>1, <2>2
<1>3. /\ \A g \in Others(r) \union r.rejected :
           g \in GoalOf(PlanIds, Cores, Origins) /\ g.id \in Ids(ToSet(plan))
      /\ Ids(Others(r)) \intersect Ids(r.rejected) = {}
  BY <1>1, <1>2, ReductionOfPlan
<1>4. /\ Ids(r.rejected) \subseteq PlanIds
      /\ Ids(Others(r)) \union Ids(r.rejected) \subseteq Ids(ToSet(plan))
  <2>1. \A g \in r.rejected : g.id \in PlanIds
    BY <1>3 DEF GoalOf
  <2> QED BY <1>3, <2>1 DEF Ids
<1>5. Ids(Added(r)) \subseteq Ids(Others(r)) \union RuntimeIds
  BY AddedIds
<1>6. Ids(ToSet(plan)) \intersect (Ids(rejected) \union Ids(preserved)) = {}
  BY <1>2 DEF PlacesInv, FreshInv, Auditing
<1>7. /\ Ids(rejected)' = Ids(rejected) \union Ids(r.rejected)
      /\ Ids(ledger)' = Ids(preserved) \union Ids(Added(r))
      /\ Ids(preserved)' = Ids(preserved)
  BY <1>2 DEF Ids
<1>8. Ids(rejected) \subseteq PlanIds /\ Ids(rejected) \intersect Ids(preserved) = {}
  BY DEF PlacesInv, ShapeInv, ApartInv
<1>9. ApartInv'
  BY <1>3, <1>4, <1>5, <1>6, <1>7, <1>8, NamesAreApart DEF ApartInv
<1>10. ShapeInv'
  BY <1>2, <1>4, <1>7 DEF PlacesInv, ShapeInv, Stages, Requests, OriginsOf
<1>11. FirstInv' /\ ObligationsInv'
  BY <1>2 DEF PlacesInv, FirstInv, ObligationsInv
<1>12. PhaseInv' /\ FreshInv'
  BY <1>2 DEF PlacesInv, PhaseInv, FreshInv, Auditing
<1>13. ProgressInv'
  BY <1>2 DEF PlacesInv, ProgressInv, Audited
<1> QED BY <1>9, <1>10, <1>11, <1>12, <1>13 DEF PlacesInv

\* Each unresolved obligation is carried by a goal of its core that has its
\* origins, under an id of the runtime.
LEMMA CarriedGoalsCarry ==
  ASSUME PlacesInv
  PROVE  /\ \A g \in ToSet(CarriedGoals) : g.id \in RuntimeIds
         /\ \A o \in Unresolved : \E g \in ToSet(CarriedGoals) :
              g.core = o.core /\ o.origins \subseteq g.origins
<1> DEFINE Carry(o) == [id |-> <<"carry", o.core, o.origins>>, core |-> o.core, origins |-> o.origins]
           S == {Carry(o) : o \in Unresolved}
           f == [o \in Unresolved |-> Carry(o)]
           goals == SetToSeq(S)
           I == RuntimeIds
           G == GoalOf(I, Cores, Origins)
           cs == Candidates(goals)
<1>1. Unresolved \subseteq obligations /\ IsFiniteSet(obligations)
      /\ \A o \in obligations : o.core \in Cores /\ o.origins \in SUBSET Origins
  BY DEF Unresolved, PlacesInv, ObligationsInv
<1>2. S \subseteq G
  BY <1>1 DEF GoalOf, RuntimeIds
<1>3. IsFiniteSet(S)
  <2>1. IsFiniteSet(Unresolved)
    BY <1>1, FS_Subset
  <2>2. S = {f[o] : o \in Unresolved}
    OBVIOUS
  <2> HIDE DEF S, f
  <2> QED BY <2>1, <2>2, FiniteImage
<1>4. \A o \in Unresolved : /\ Carry(o) \in S /\ Carry(o).core = o.core
                            /\ Carry(o).origins = o.origins
  OBVIOUS
<1>5. CarriedGoals = cs
  BY DEF CarriedGoals
<1> HIDE DEF Carry, S, f, G, I, cs
<1>6. goals \in Seq(S) /\ \A x \in S : \E i \in DOMAIN goals : goals[i] = x
  BY <1>3, SetToSeqLists
<1> HIDE DEF goals
<1>7. goals \in Seq(G)
  BY <1>2, <1>6
<1>8. cs \in Seq(G) /\ Represents(cs, goals, Len(goals))
  BY <1>7, CandidatesRepresent DEF G, cs
<1>9. \A g \in ToSet(cs) : g.id \in I
  <2>1. ToSet(cs) \subseteq G
    BY <1>8, InPlan
  <2> QED BY <2>1 DEF G, GoalOf
<1>10. ASSUME NEW o \in Unresolved
       PROVE  \E g \in ToSet(cs) : g.core = o.core /\ o.origins \subseteq g.origins
  <2>1. PICK i \in DOMAIN goals : goals[i] = Carry(o)
    BY <1>4, <1>6
  <2>2. i \in 1..Len(goals)
    BY <1>7
  <2>3. PICK j \in DOMAIN cs : cs[j].core = goals[i].core /\ goals[i].origins \subseteq cs[j].origins
    BY <1>8, <2>2 DEF Represents
  <2>4. cs[j] \in ToSet(cs)
    BY DEF ToSet
  <2> QED BY <1>4, <2>1, <2>3, <2>4
<1> QED BY <1>5, <1>9, <1>10 DEF I

LEMMA CarryForwardKeepsPlaces == PlacesInv /\ CarryForward => PlacesInv'
<1> SUFFICES ASSUME PlacesInv, CarryForward PROVE PlacesInv'
  OBVIOUS
<1> DEFINE more == {Required(g, "planning_incomplete") : g \in ToSet(CarriedGoals)}
<1>1. /\ stage = "carry" /\ stage' = "check" /\ ledger' = ledger \union more
      /\ UNCHANGED <<attempt, revision, late, plan, records, uncovered, preserved, obligations,
                     rejected, corrected, wanted, covered>>
  BY DEF CarryForward
<1>2. Ids(more) \subseteq RuntimeIds
  BY CarriedGoalsCarry DEF Ids, Required
<1> HIDE DEF more
<1>3. Ids(ledger)' = Ids(ledger) \union Ids(more)
  BY <1>1 DEF Ids
<1>4. ApartInv'
  <2>1. Ids(rejected) \subseteq PlanIds /\ Ids(rejected) \intersect (Ids(ledger) \union Ids(preserved)) = {}
    BY DEF PlacesInv, ShapeInv, ApartInv
  <2>2. Ids(rejected)' = Ids(rejected) /\ Ids(preserved)' = Ids(preserved)
    BY <1>1
  <2> QED BY <1>2, <1>3, <2>1, <2>2, NamesAreApart DEF ApartInv
<1>5. ShapeInv' /\ FirstInv' /\ ObligationsInv'
  BY <1>1 DEF PlacesInv, ShapeInv, FirstInv, ObligationsInv, Stages, OriginsOf
<1>6. PhaseInv' /\ FreshInv'
  BY <1>1 DEF PlacesInv, PhaseInv, FreshInv, Auditing
<1>7. ProgressInv'
  BY <1>1 DEF PlacesInv, ProgressInv, Audited
<1> QED BY <1>4, <1>5, <1>6, <1>7 DEF PlacesInv

LEMMA InitPlaces == Init => PlacesInv
<1> SUFFICES ASSUME Init PROVE PlacesInv
  OBVIOUS
<1>1. /\ stage = "planner" /\ attempt = 0 /\ revision = 0 /\ late = FALSE
      /\ plan = << >> /\ records = NoRecords /\ uncovered = {}
      /\ preserved = {} /\ obligations = {} /\ rejected = {} /\ ledger = {} /\ wanted = {}
  BY DEF Init
<1>2. Ids({}) = {} /\ DOMAIN NoRecords = {} /\ IsFiniteSet({})
  BY FS_EmptySet DEF Ids, NoRecords
<1>3. plan \in Seq(GoalOf(PlanIds, Cores, Origins)) /\ plan \in Seq(GoalOf(Names, Cores, Origins))
  BY <1>1
<1>4. ShapeInv
  <2>1. OriginsOf(records)
    BY <1>1, <1>2 DEF OriginsOf
  <2>2. IdsAreUnique(plan)
    BY <1>1 DEF IdsAreUnique
  <2>3. Ids(rejected) \subseteq PlanIds /\ uncovered \subseteq Contents
    BY <1>1, <1>2
  <2>4. stage \in Stages /\ attempt \in {0, 1} /\ revision \in {0, 1} /\ late \in BOOLEAN
    BY <1>1 DEF Stages, Requests
  <2> QED BY <1>3, <2>1, <2>2, <2>3, <2>4 DEF ShapeInv
<1>5. FirstInv /\ ObligationsInv
  <2>1. preserved = {} /\ obligations = {} /\ IsFiniteSet(preserved) /\ IsFiniteSet(obligations)
    BY <1>1, <1>2
  <2>2. (\A p \in preserved : AsGoal(p) \in GoalOf(Names, Cores, Origins))
        /\ \A o \in obligations : o.core \in Cores /\ o.origins \in SUBSET Origins
    BY <2>1
  <2> QED BY <1>3, <2>1, <2>2 DEF FirstInv, ObligationsInv
<1>8. ApartInv
  BY <1>1, <1>2 DEF ApartInv
<1>6. PhaseInv /\ FreshInv
  BY <1>1 DEF PhaseInv, FreshInv, Auditing
<1>7. ProgressInv
  <2>1. Audited = 0
    BY <1>1, <1>2, FS_EmptySet DEF Audited
  <2>2. 1..0 = {} /\ Len(plan) = 0
    BY <1>1
  <2> QED BY <1>1, <1>2, <2>1, <2>2 DEF ProgressInv
<1> QED BY <1>4, <1>5, <1>6, <1>7, <1>8 DEF PlacesInv

LEMMA NextPlaces == PlacesInv /\ [Next]_vars => PlacesInv'
<1> SUFFICES ASSUME PlacesInv, [Next]_vars PROVE PlacesInv'
  OBVIOUS
<1>1. CASE \/ Malformed \/ RequestFails \/ JoinBatches \/ CoverageReply \/ RevisionCoverageReply
           \/ Check \/ UNCHANGED vars
  BY <1>1, SomeStepsMove, MovesKeepPlaces DEF PlacesInv
<1>2. CASE \/ PlannerReply \/ AuditReply \/ ReduceInitial \/ RevisionReply \/ CarryForward
           \/ LateProposals
  BY <1>2, PlannerReplyKeepsPlaces, AuditReplyKeepsPlaces, ReduceInitialKeepsPlaces,
     RevisionReplyKeepsPlaces, CarryForwardKeepsPlaces, LateProposalsKeepPlaces
<1>3. CASE ReduceRevision \/ ReduceLate
  BY <1>3, ReductionKeepsPlaces
<1> QED BY <1>1, <1>2, <1>3 DEF Next

\* A goal an audit rejected is never required under its id in a finished plan,
\* whatever the corrected plan, the carry-forward of the uncovered parts and a
\* late audit make of it (runtime.mjs:10357).
THEOREM RejectedIsNeverRequired == Spec => []RejectedStaysOut
<1>1. PlacesInv => RejectedStaysOut
  BY DEF PlacesInv, ApartInv, RejectedStaysOut
<1> QED
  BY <1>1, InitPlaces, NextPlaces, PTL DEF Spec
-----------------------------------------------------------------------------
(* Goals ready to explore can be told apart.                                *)
Tellable(goals, leaves) ==
  \A g, h \in WithStatus(goals, "ready") : Overlap(g, h) => AreTwoLeaves(g, h, leaves)

\* Candidates under two ids of distinct are leaves of two kinds, and no such id
\* belongs to a goal the second or the late audit has to respect.
LeavesInv ==
  /\ \A g, h \in ToSet(plan) :
       g.id # h.id /\ {g.id, h.id} \subseteq distinct => AreTwoLeaves(g, h, wrapper.leaves)
  /\ revision = 1 => distinct \intersect Ids(preserved) = {}

\* The goals an audit has to respect are told apart as well as those of the plan.
PlanInv ==
  Tellable(ledger, wrapper.leaves) /\ Tellable(preserved, wrapper.leaves) /\ LeavesInv

\* Overlap and the kind of a leaf depend neither on the order of two goals nor
\* on their status.
LEMMA OverlapIsSymmetric ==
  ASSUME NEW g, NEW h, NEW leaves
  PROVE  /\ Overlap(g, h) => Overlap(h, g)
         /\ AreTwoLeaves(g, h, leaves) => AreTwoLeaves(h, g, leaves)
<1>1. Overlap(g, h) => Overlap(h, g)
  BY DEF Overlap, SameType
<1>2. AreTwoLeaves(g, h, leaves) => AreTwoLeaves(h, g, leaves)
  BY DEF AreTwoLeaves
<1> QED BY <1>1, <1>2

LEMMA OverlapOfRequired ==
  ASSUME NEW g, NEW h, NEW leaves PROVE
    /\ Overlap(Required(g, "ready"), h) <=> Overlap(g, h)
    /\ Overlap(g, Required(h, "ready")) <=> Overlap(g, h)
    /\ AreTwoLeaves(Required(g, "ready"), h, leaves) <=> AreTwoLeaves(g, h, leaves)
    /\ AreTwoLeaves(g, Required(h, "ready"), leaves) <=> AreTwoLeaves(g, h, leaves)
  BY DEF Overlap, SameType, Required, AreTwoLeaves

\* The ready goals of a reduction do not overlap the ready goals it was told
\* of, and each other only where the request tells them apart:
\* ambiguousReadyGoalIds looks at both.
LEMMA ReductionIsTellable ==
  ASSUME PlacesInv, LeavesInv, stage = "reduce", NEW existing,
         distinct \intersect Ids(existing) = {}, NEW g \in Reduced(existing).ready
  PROVE /\ \A h \in Reduced(existing).ready : Overlap(g, h) => AreTwoLeaves(g, h, wrapper.leaves)
        /\ \A h \in WithStatus(existing, "ready") : ~Overlap(g, h)
<1> DEFINE ready == ReadyGroups(Groups(JudgedGoals, Judged), Judged)
           known == WithStatus(existing, "ready")
<1>1. Reduced(existing).ready = ready \ Ambiguous(ready, known, distinct)
  BY DEF Reduced, Reduce
<1> HIDE DEF ready, known
<1>2. \A h \in ready \union known : Overlap(g, h) => {g.id, h.id} \subseteq distinct
  BY <1>1 DEF Ambiguous
<1>3. ASSUME NEW h \in known PROVE ~Overlap(g, h)
  <2>1. h.id \in Ids(existing)
    BY DEF known, WithStatus, Ids
  <2> QED BY <1>2, <2>1
<1>4. ASSUME NEW h \in Reduced(existing).ready, Overlap(g, h)
      PROVE  AreTwoLeaves(g, h, wrapper.leaves)
  <2>1. g.id # h.id
    BY <1>4 DEF Overlap
  <2>2. \A x \in Reduced(existing).ready : \E y \in JudgedGoals : y.id = x.id /\ y.core = x.core
    BY ReductionOfPlan DEF Others
  <2>3. PICK p \in JudgedGoals : p.id = g.id /\ p.core = g.core
    BY <2>2
  <2>4. PICK q \in JudgedGoals : q.id = h.id /\ q.core = h.core
    BY <1>4, <2>2
  <2>5. p \in ToSet(plan) /\ q \in ToSet(plan)
    BY DEF JudgedGoals
  <2>6. {p.id, q.id} \subseteq distinct
    BY <1>1, <1>2, <1>4, <2>3, <2>4
  <2>7. AreTwoLeaves(p, q, wrapper.leaves)
    BY <2>1, <2>3, <2>4, <2>5, <2>6 DEF LeavesInv
  <2> QED BY <2>3, <2>4, <2>7 DEF AreTwoLeaves
<1> QED BY <1>3, <1>4 DEF known

\* The accepted goals of a reduction, next to the goals it respected.
LEMMA AcceptedIsTellable ==
  ASSUME PlacesInv, LeavesInv, stage = "reduce", NEW existing,
         distinct \intersect Ids(existing) = {}, Tellable(existing, wrapper.leaves)
  PROVE  Tellable(existing \union Accepted(Reduced(existing)), wrapper.leaves)
<1> DEFINE reduction == Reduced(existing)
           L == wrapper.leaves
<1> SUFFICES ASSUME NEW g \in WithStatus(existing \union Accepted(reduction), "ready"),
                    NEW h \in WithStatus(existing \union Accepted(reduction), "ready"),
                    Overlap(g, h)
             PROVE AreTwoLeaves(g, h, L)
  BY DEF Tellable
<1>1. ASSUME NEW x \in WithStatus(existing \union Accepted(reduction), "ready")
      PROVE x \in WithStatus(existing, "ready") \/ \E r \in reduction.ready : x = Required(r, "ready")
  <2> HIDE DEF reduction
  <2>1. x.status = "ready" /\ (x \in existing \/ x \in Accepted(reduction))
    BY DEF WithStatus
  <2>2. ASSUME NEW r PROVE Required(r, "blocked").status = "blocked"
    BY DEF Required
  <2> QED
    BY <2>1, <2>2 DEF WithStatus, Accepted
<1>6. \A r \in reduction.ready :
        /\ \A q \in reduction.ready : Overlap(r, q) => AreTwoLeaves(r, q, L)
        /\ \A q \in WithStatus(existing, "ready") : ~Overlap(r, q)
  BY ReductionIsTellable
<1>7. Tellable(existing, L)
  OBVIOUS
<1> HIDE DEF reduction, L
<1>2. CASE g \in WithStatus(existing, "ready") /\ h \in WithStatus(existing, "ready")
  BY <1>2, <1>7 DEF Tellable
<1>3. ASSUME NEW r \in reduction.ready, g = Required(r, "ready"), h \in WithStatus(existing, "ready")
      PROVE FALSE
  BY <1>3, <1>6, OverlapOfRequired
<1>4. ASSUME NEW r \in reduction.ready, h = Required(r, "ready"), g \in WithStatus(existing, "ready")
      PROVE FALSE
  BY <1>4, <1>6, OverlapOfRequired, OverlapIsSymmetric
<1>5. ASSUME NEW r \in reduction.ready, NEW q \in reduction.ready,
             g = Required(r, "ready"), h = Required(q, "ready")
      PROVE AreTwoLeaves(g, h, L)
  BY <1>5, <1>6, OverlapOfRequired
<1> QED
  BY <1>1, <1>2, <1>3, <1>4, <1>5

\* A goal that planning left incomplete is not ready.
LEMMA IncompleteIsTellable ==
  ASSUME NEW goals, NEW more, NEW leaves, Tellable(goals, leaves),
         \A g \in more : g.status = "planning_incomplete"
  PROVE Tellable(goals \union more, leaves)
  BY DEF Tellable, WithStatus

\* What one revision leaves is planning_incomplete.
LEMMA LeftoverIsIncomplete ==
  ASSUME NEW reduction, NEW parts, NEW g \in Leftover(reduction, parts)
  PROVE g.status = "planning_incomplete"
  BY DEF Leftover, Required

\* What the leaves of a proposal became keeps their cores, so two of them under
\* two ids are of two kinds: each kind has one exact goal.
LEMMA LeavesAreTwo ==
  ASSUME NEW G, NEW proposal \in Seq(G), NEW I, NEW C, NEW O,
         NEW goals \in Seq(GoalOf(I, C, O)), IdsAreUnique(goals),
         ToSet(goals) \subseteq ToSet(proposal), LeavesAreExact(ToSet(proposal), wrapper),
         NEW g, NEW h, {g.id, h.id} \subseteq LeafIds(goals, wrapper), g.id # h.id,
         \A c \in ToSet(Candidates(goals)) :
           (c.id = g.id => c.core = g.core) /\ (c.id = h.id => c.core = h.core)
  PROVE  AreTwoLeaves(g, h, wrapper.leaves)
<1> DEFINE cs == Candidates(goals)
           exact == {x \in ToSet(goals) : \E leaf \in wrapper.leaves : IsLeaf(x, leaf)}
           Became(x) == CHOOSE c \in ToSet(cs) : c.core = x.core
<1>1. LeafIds(goals, wrapper) = {Became(x).id : x \in exact}
  BY DEF LeafIds
<1>2. ASSUME NEW x \in ToSet(goals) PROVE Became(x) \in ToSet(cs) /\ Became(x).core = x.core
  <2>1. PICK j \in 1..Len(goals) : x = goals[j]
    BY DEF ToSet
  <2>2. Represents(cs, goals, Len(goals)) /\ cs \in Seq(GoalOf(I, C, O))
    BY CandidatesRepresent
  <2> HIDE DEF cs
  <2>3. PICK i \in DOMAIN cs : cs[i].core = goals[j].core
    BY <2>2 DEF Represents
  <2>4. cs[i] \in ToSet(cs)
    BY DEF ToSet
  <2> QED BY <2>1, <2>3, <2>4
<1>3. PICK x \in exact : g.id = Became(x).id
  BY <1>1
<1>4. PICK y \in exact : h.id = Became(y).id
  BY <1>1
<1>5. g.core = x.core /\ h.core = y.core
  <2>1. Became(x) \in ToSet(cs) /\ Became(x).core = x.core
    BY <1>2
  <2>2. Became(y) \in ToSet(cs) /\ Became(y).core = y.core
    BY <1>2
  <2> HIDE DEF Became
  <2> QED BY <1>3, <1>4, <2>1, <2>2
<1>6. x # y
  BY <1>3, <1>4
<1> HIDE DEF Became
<1>7. PICK l \in wrapper.leaves : IsLeaf(x, l)
  OBVIOUS
<1>8. PICK m \in wrapper.leaves : IsLeaf(y, m)
  OBVIOUS
<1>9. l # m
  <2>1. x \in ToSet(proposal) /\ y \in ToSet(proposal)
    OBVIOUS
  <2>2. PICK z \in ToSet(proposal) : \A w \in ToSet(proposal) : IsLeaf(w, l) <=> w = z
    BY DEF LeavesAreExact
  <2> QED BY <1>6, <1>7, <1>8, <2>1, <2>2
<1> QED BY <1>5, <1>7, <1>8, <1>9 DEF AreTwoLeaves, IsLeaf

\* The first plan: its candidates are what the proposal became.
LEMMA PlannerReplyKeepsLeaves == PlacesInv /\ LeavesInv /\ PlannerReply => LeavesInv'
<1> SUFFICES ASSUME PlacesInv, LeavesInv, PlannerReply PROVE LeavesInv'
  OBVIOUS
<1>1. CASE Refuse
  BY <1>1 DEF Refuse, LeavesInv
<1>2. ASSUME NEW goals \in InitialPlans, ValidPlan(goals),
             SendToAudit(Candidates(goals), LeafIds(goals, wrapper)),
             UNCHANGED <<revision, wrapper, preserved>>
      PROVE LeavesInv'
  <2>1. plan' = Candidates(goals) /\ distinct' = LeafIds(goals, wrapper) /\ revision' = 0
    BY <1>2 DEF PlannerReply, SendToAudit, PlacesInv, PhaseInv
  <2>2. /\ goals \in Seq(GoalOf(Names, Cores, Origins)) /\ IdsAreUnique(goals)
        /\ LeavesAreExact(ToSet(goals), wrapper)
    BY <1>2, ProposalsAreGoals DEF Proposals, ValidPlan
  <2>3. Distinct(ToSet(Candidates(goals)))
    BY <2>2, CandidatesOfPlan, UniqueIsDistinct DEF PlanIds
  <2>4. ASSUME NEW g \in ToSet(Candidates(goals)), NEW h \in ToSet(Candidates(goals)),
               g.id # h.id, {g.id, h.id} \subseteq LeafIds(goals, wrapper)
        PROVE  AreTwoLeaves(g, h, wrapper.leaves)
    BY <2>2, <2>3, <2>4, LeavesAreTwo DEF Distinct
  <2> QED BY <1>2, <2>1, <2>4 DEF LeavesInv
<1> QED BY <1>1, <1>2, Zenon DEF PlannerReply

\* The corrected plan: its candidates come from the new ones among those the
\* reply became, and only the leaves among them are listed.
LEMMA CorrectedLeaves ==
  ASSUME NEW goals \in Seq(GoalOf(PlanIds, Cores, Origins)), IdsAreUnique(Retained(goals)),
         LeavesAreExact(ToSet(goals), wrapper),
         NEW g \in ToSet(Candidates(Fresh(Retained(goals)))),
         NEW h \in ToSet(Candidates(Fresh(Retained(goals)))),
         g.id # h.id, {g.id, h.id} \subseteq LeafIds(Retained(goals), wrapper)
  PROVE  AreTwoLeaves(g, h, wrapper.leaves)
<1> DEFINE G == GoalOf(PlanIds, Cores, Origins)
           kept == {i \in DOMAIN goals : ~RevivesRejected(goals[i]) /\ ~Unchanged(goals[i])}
           retained == Retained(goals)
           candidates == Candidates(retained)
           others == {i \in DOMAIN candidates : candidates[i].id \notin Ids(preserved)}
           fresh == Fresh(retained)
           new == Candidates(fresh)
<1>1. retained = AtPositions(goals, kept) /\ fresh = AtPositions(candidates, others)
  BY DEF Retained, Fresh
<1> HIDE DEF kept, retained, candidates, others, fresh, new
<1>2. /\ retained \in Seq(G)
      /\ \A i \in DOMAIN retained : \E j \in DOMAIN goals \intersect kept : retained[i] = goals[j]
  BY <1>1, AtPositionsKeeps
<1>3. ToSet(retained) \subseteq ToSet(goals)
  BY <1>2 DEF ToSet
<1>4. candidates \in Seq(G) /\ IdsAreUnique(candidates)
  BY <1>2, CandidatesOfPlan DEF candidates, retained
<1>5. /\ fresh \in Seq(G)
      /\ \A i \in DOMAIN fresh : \E j \in DOMAIN candidates \intersect others : fresh[i] = candidates[j]
  BY <1>1, <1>4, AtPositionsKeeps
<1>6. Represents(new, fresh, Len(fresh))
  BY <1>5, CandidatesRepresent DEF new
<1>7. ASSUME NEW x \in ToSet(new)
      PROVE  \A c \in ToSet(candidates) : c.id = x.id => c.core = x.core
  <2>1. PICK i \in DOMAIN new : x = new[i]
    BY DEF ToSet
  <2>2. PICK j \in 1..Len(fresh) : new[i].id = fresh[j].id /\ new[i].core = fresh[j].core
    BY <1>6 DEF Represents
  <2>3. fresh[j] \in ToSet(candidates)
    <3>1. j \in DOMAIN fresh
      BY <1>5
    <3> QED BY <1>5, <3>1 DEF ToSet
  <2>4. Distinct(ToSet(candidates))
    BY <1>4, UniqueIsDistinct
  <2> QED BY <2>1, <2>2, <2>3, <2>4 DEF Distinct
<1> QED
  <2>1. g \in ToSet(new) /\ h \in ToSet(new)
    BY DEF new, fresh, retained
  <2>2. {g.id, h.id} \subseteq LeafIds(retained, wrapper) /\ IdsAreUnique(retained)
    BY DEF retained
  <2>3. \A c \in ToSet(Candidates(retained)) :
          (c.id = g.id => c.core = g.core) /\ (c.id = h.id => c.core = h.core)
    BY <1>7, <2>1 DEF candidates
  <2> QED BY <1>2, <1>3, <2>2, <2>3, LeavesAreTwo

\* The preserved goals are not among the candidates of a corrected plan.
LEMMA RevisionReplyKeepsLeaves == PlacesInv /\ LeavesInv /\ RevisionReply => LeavesInv'
<1> SUFFICES ASSUME PlacesInv, LeavesInv, RevisionReply PROVE LeavesInv'
  OBVIOUS
<1>1. stage = "plan_revision" /\ revision = 0
  BY DEF RevisionReply, PlacesInv, PhaseInv, ShapeInv
<1>2. CASE Refuse
  BY <1>2 DEF Refuse, LeavesInv
<1>3. ASSUME NEW more \in RevisedGoals, NEW keep, NEW goals, goals = Normalized(Answer(more, keep)),
             LeavesAreExact(ToSet(goals), wrapper), ValidRevision(Retained(goals)),
             SendToAudit(Candidates(Fresh(Retained(goals))),
               LeafIds(Retained(goals), wrapper)
                 \cap Ids(ToSet(Candidates(Fresh(Retained(goals)))))),
             UNCHANGED <<wrapper, preserved>>
      PROVE LeavesInv'
  <2> DEFINE new == Candidates(Fresh(Retained(goals)))
             leaves == LeafIds(Retained(goals), wrapper)
  <2>1. plan' = new /\ distinct' = leaves \cap Ids(ToSet(new))
    BY <1>3 DEF SendToAudit
  <2>2. Answer(more, keep) \in Seq(GoalOf(Names, Cores, Origins))
    BY <1>1, AnswerIsGoals
  <2>3. goals \in Seq(GoalOf(PlanIds, Cores, Origins)) /\ IdsAreUnique(Retained(goals))
    BY <1>3, <2>2, NormalizedIsGoals DEF ValidRevision
  <2>4. Ids(ToSet(new)) \intersect (Ids(rejected) \union Ids(preserved)) = {}
    <3> HIDE DEF Answer
    <3> QED BY <1>1, <1>3, <2>2, CorrectedPlanIsNew DEF PlacesInv
  <2>5. ASSUME NEW g \in ToSet(new), NEW h \in ToSet(new), g.id # h.id, {g.id, h.id} \subseteq leaves
        PROVE  AreTwoLeaves(g, h, wrapper.leaves)
    BY <1>3, <2>3, <2>5, CorrectedLeaves
  <2> HIDE DEF new, leaves
  <2> QED BY <1>3, <2>1, <2>4, <2>5 DEF LeavesInv
<1> QED BY <1>2, <1>3, Zenon DEF RevisionReply, Answer

LEMMA NextLeaves == PlacesInv /\ LeavesInv /\ [Next]_vars => LeavesInv'
<1> SUFFICES ASSUME PlacesInv, LeavesInv, [Next]_vars PROVE LeavesInv'
  OBVIOUS
<1>1. CASE PlannerReply
  BY <1>1, PlannerReplyKeepsLeaves
<1>2. CASE RevisionReply
  BY <1>2, RevisionReplyKeepsLeaves
<1>3. CASE LateProposals
  <2>1. distinct' = {}
    BY <1>3 DEF LateProposals, SendToAudit
  <2> QED BY <2>1 DEF LeavesInv
<1>4. CASE ReduceInitial
  BY <1>4 DEF ReduceInitial, LeavesInv
<1>5. CASE UNCHANGED <<wrapper, plan, distinct, revision, preserved>>
  BY <1>5 DEF LeavesInv
<1>6. ASSUME Refuse PROVE UNCHANGED <<wrapper, plan, distinct, revision, preserved>>
  BY <1>6 DEF Refuse
<1>7. CASE Malformed
  BY <1>5, <1>6, <1>7 DEF Malformed
<1>8. CASE RequestFails
  BY <1>5, <1>8 DEF RequestFails
<1>9. CASE AuditReply
  <2>1. ASSUME NEW reply, NEW parts, Record(reply, parts)
        PROVE  UNCHANGED <<wrapper, plan, distinct, revision, preserved>>
    BY <2>1 DEF Record
  <2> QED BY <1>5, <1>6, <1>9, <2>1, Zenon DEF AuditReply
<1>10. CASE CoverageReply
  BY <1>5, <1>6, <1>10, Zenon DEF CoverageReply
<1>11. CASE RevisionCoverageReply
  BY <1>5, <1>6, <1>11, Zenon DEF RevisionCoverageReply
<1>12. CASE JoinBatches \/ ReduceRevision \/ CarryForward \/ Check \/ ReduceLate \/ UNCHANGED vars
  BY <1>5, <1>12 DEF JoinBatches, ReduceRevision, CarryForward, Check, ReduceLate, vars
<1> QED BY <1>1, <1>2, <1>3, <1>4, <1>7, <1>8, <1>9, <1>10, <1>11, <1>12 DEF Next

\* What a finished audit adds to the goals it respected.
LEMMA JoinIsTellable ==
  ASSUME PlacesInv, PlanInv, stage = "reduce", revision = 1
  PROVE  Tellable(preserved \union Accepted(Reduced(Existing))
                    \union Leftover(Reduced(Existing), uncovered), wrapper.leaves)
<1>1. distinct \intersect Ids(Existing) = {} /\ Tellable(Existing, wrapper.leaves) /\ Existing = preserved
  BY DEF PlanInv, LeavesInv, Existing
<1>2. Tellable(Existing \union Accepted(Reduced(Existing)), wrapper.leaves)
  BY <1>1, AcceptedIsTellable DEF PlanInv
<1>3. \A g \in Leftover(Reduced(Existing), uncovered) : g.status = "planning_incomplete"
  BY LeftoverIsIncomplete
<1> QED BY <1>1, <1>2, <1>3, IncompleteIsTellable

LEMMA NextPlan == PlacesInv /\ PlanInv /\ [Next]_vars => PlanInv'
<1> SUFFICES ASSUME PlacesInv, PlanInv, [Next]_vars PROVE PlanInv'
  OBVIOUS
<1>1. LeavesInv'
  BY NextLeaves DEF PlanInv
<1>2. CASE UNCHANGED <<wrapper, preserved, ledger>>
  BY <1>1, <1>2 DEF PlanInv
<1>3. CASE ReduceInitial
  <2> DEFINE accepted == Accepted(Reduced({}))
  <2>1. /\ stage = "reduce" /\ preserved = {} /\ ledger = {}
        /\ wrapper' = wrapper
        /\ \/ ledger' = ledger /\ preserved' = accepted
           \/ ledger' = accepted /\ preserved' = preserved
    BY <1>3 DEF ReduceInitial, Reduced, PlacesInv, PhaseInv, Auditing
  <2>2. Tellable({}, wrapper.leaves) /\ Ids({}) = {}
    BY DEF Tellable, WithStatus, Ids
  <2>3. Tellable(accepted, wrapper.leaves)
    <3>1. Tellable({} \union accepted, wrapper.leaves)
      BY <2>1, <2>2, AcceptedIsTellable DEF PlanInv
    <3> HIDE DEF accepted
    <3> QED BY <3>1
  <2> HIDE DEF accepted
  <2> QED BY <1>1, <2>1, <2>2, <2>3 DEF PlanInv
<1>4. CASE ReduceRevision \/ ReduceLate
  <2>1. stage = "reduce" /\ revision = 1
    BY <1>4 DEF ReduceRevision, ReduceLate, PlacesInv, PhaseInv
  <2>2. /\ wrapper' = wrapper /\ preserved' = preserved
        /\ ledger' = preserved \union Accepted(Reduced(Existing))
                       \union Leftover(Reduced(Existing), uncovered)
    BY <1>4 DEF ReduceRevision, ReduceLate, Reduced
  <2> QED BY <1>1, <2>1, <2>2, JoinIsTellable DEF PlanInv
<1>5. CASE CarryForward
  <2> DEFINE more == {Required(g, "planning_incomplete") : g \in ToSet(CarriedGoals)}
  <2>1. wrapper' = wrapper /\ preserved' = preserved /\ ledger' = ledger \union more
    BY <1>5 DEF CarryForward
  <2>2. \A g \in more : g.status = "planning_incomplete"
    BY DEF Required
  <2> HIDE DEF more
  <2> QED BY <1>1, <2>1, <2>2, IncompleteIsTellable DEF PlanInv
<1>6. CASE LateProposals
  BY <1>1, <1>6 DEF LateProposals, PlanInv
<1>7. ASSUME Refuse PROVE UNCHANGED <<wrapper, preserved, ledger>>
  BY <1>7 DEF Refuse
<1>8. CASE Malformed
  BY <1>2, <1>7, <1>8 DEF Malformed
<1>9. CASE PlannerReply
  BY <1>2, <1>7, <1>9, Zenon DEF PlannerReply
<1>10. CASE RevisionReply
  BY <1>2, <1>7, <1>10, Zenon DEF RevisionReply
<1>11. CASE AuditReply
  <2>1. ASSUME NEW reply, NEW parts, Record(reply, parts)
        PROVE  UNCHANGED <<wrapper, preserved, ledger>>
    BY <2>1 DEF Record
  <2> QED BY <1>2, <1>7, <1>11, <2>1, Zenon DEF AuditReply
<1>12. CASE CoverageReply
  BY <1>2, <1>7, <1>12, Zenon DEF CoverageReply
<1>13. CASE RevisionCoverageReply
  BY <1>2, <1>7, <1>13, Zenon DEF RevisionCoverageReply
<1>14. CASE RequestFails \/ JoinBatches \/ Check \/ UNCHANGED vars
  BY <1>2, <1>14 DEF RequestFails, JoinBatches, Check, vars
<1> QED
  BY <1>3, <1>4, <1>5, <1>6, <1>8, <1>9, <1>10, <1>11, <1>12, <1>13, <1>14 DEF Next

\* ReadyGoalsAreTellable for every plan, batch size and reply: of one claim
\* type, no two goals ready to explore have origins strictly inside each
\* other's, whichever audit accepted them (ambiguousReadyGoalIds,
\* coverage.mjs:949-973), unless they are of two kinds of the classification
\* the request asks for (the exemption at 952-956).
THEOREM PlanIsTellable == Spec => []ReadyGoalsAreTellable
<1>1. Init => PlanInv
  BY DEF Init, PlanInv, LeavesInv, Tellable, WithStatus, ToSet
<1>2. PlanInv => ReadyGoalsAreTellable
  BY DEF PlanInv, Tellable, ReadyGoalsAreTellable
<1> QED
  BY <1>1, <1>2, InitPlaces, NextPlaces, NextPlan, PTL DEF Spec
-----------------------------------------------------------------------------
(* Planning ends: the rank of a plan.                                       *)
LEMMA SmallerInOrder ==
  ASSUME NEW a1, NEW a2, NEW a3, NEW a4, NEW a5, NEW b1, NEW b2, NEW b3, NEW b4, NEW b5,
         \/ 0 <= a1 /\ a1 < b1
         \/ a1 = b1 /\ 0 <= a2 /\ a2 < b2
         \/ a1 = b1 /\ a2 = b2 /\ 0 <= a3 /\ a3 < b3
         \/ a1 = b1 /\ a2 = b2 /\ a3 = b3 /\ 0 <= a4 /\ a4 < b4
         \/ a1 = b1 /\ a2 = b2 /\ a3 = b3 /\ a4 = b4 /\ 0 <= a5 /\ a5 < b5
  PROVE  Smaller(<<a1, a2, a3, a4, a5>>, <<b1, b2, b3, b4, b5>>)
<1> DEFINE x == <<a1, a2, a3, a4, a5>>
           y == <<b1, b2, b3, b4, b5>>
           Less(i) == 0 <= x[i] /\ x[i] < y[i] /\ \A j \in 1..(i - 1) : x[j] = y[j]
<1>1. Less(1) \/ Less(2) \/ Less(3) \/ Less(4) \/ Less(5)
  <2>1. /\ x[1] = a1 /\ x[2] = a2 /\ x[3] = a3 /\ x[4] = a4 /\ x[5] = a5
        /\ y[1] = b1 /\ y[2] = b2 /\ y[3] = b3 /\ y[4] = b4 /\ y[5] = b5
    OBVIOUS
  <2>2. /\ 1..(1 - 1) = {} /\ 1..(2 - 1) = {1} /\ 1..(3 - 1) = {1, 2} /\ 1..(4 - 1) = {1, 2, 3}
        /\ 1..(5 - 1) = {1, 2, 3, 4}
    OBVIOUS
  <2> HIDE DEF x, y
  <2> QED BY <2>1, <2>2
<1>2. DOMAIN x = 1..5
  OBVIOUS
<1> HIDE DEF x, y
<1>3. \E i \in DOMAIN x : Less(i)
  BY <1>1, <1>2
<1> QED BY <1>3 DEF Smaller, x, y

LEMMA Orders ==
  /\ Order("planner") = 9 /\ Order("goal_audit") = 8 /\ Order("join") = 7 /\ Order("coverage") = 6
  /\ Order("reduce") = 5 /\ Order("plan_revision") = 4 /\ Order("revision_coverage") = 4
  /\ Order("carry") = 3 /\ Order("check") = 2 /\ Order("done") = 1 /\ Order("failed") = 1
  BY DEF Order

\* The request comes closer to its end within one plan.
Advances ==
  /\ UNCHANGED <<late, revision>>
  /\ \/ Order(stage') < Order(stage)
     \/ /\ stage' = stage
        /\ \/ Len(plan') - Audited' \in Nat /\ Len(plan') - Audited' < Len(plan) - Audited
           \/ /\ UNCHANGED <<plan, records>>
              /\ attempt = 0 /\ attempt' = 1

LEMMA AdvancesIsSmaller ==
  ASSUME PlacesInv, PlacesInv', Advances
  PROVE  Smaller(Rank', Rank)
<1>1. \A st \in Stages : Order(st) \in 1..9
  BY Orders DEF Stages, Requests
<1>2. Order(stage) \in 1..9 /\ Order(stage') \in 1..9
  BY <1>1 DEF PlacesInv, ShapeInv
<1>3. PICK l, v, l2, v2, o2, n2, a2, o, n, a :
        /\ l = (IF late THEN 0 ELSE 1) /\ l2 = (IF late' THEN 0 ELSE 1)
        /\ v = 1 - revision /\ v2 = 1 - revision'
        /\ o = Order(stage) /\ o2 = Order(stage')
        /\ n = Len(plan) - Audited /\ n2 = Len(plan') - Audited'
        /\ a = 1 - attempt /\ a2 = 1 - attempt'
  OBVIOUS
<1>4. Rank = <<l, v, o, n, a>> /\ Rank' = <<l2, v2, o2, n2, a2>>
  BY <1>3 DEF Rank
<1>5. l = l2 /\ v = v2
  BY <1>3 DEF Advances
<1>6. \/ 0 <= o2 /\ o2 < o
      \/ o = o2 /\ 0 <= n2 /\ n2 < n
      \/ o = o2 /\ n = n2 /\ 0 <= a2 /\ a2 < a
  <2>1. CASE Order(stage') < Order(stage)
    BY <1>2, <1>3, <2>1
  <2>2. CASE stage' = stage /\ Len(plan') - Audited' \in Nat
             /\ Len(plan') - Audited' < Len(plan) - Audited
    BY <1>3, <2>2
  <2>3. CASE stage' = stage /\ UNCHANGED <<plan, records>> /\ attempt = 0 /\ attempt' = 1
    <3>1. Len(plan') - Audited' = Len(plan) - Audited
      BY <2>3 DEF Audited
    <3>2. a = 1 /\ a2 = 0
      BY <1>3, <2>3
    <3> QED BY <1>3, <2>3, <3>1, <3>2
  <2> QED BY <2>1, <2>2, <2>3 DEF Advances
<1> QED BY <1>4, <1>5, <1>6, SmallerInOrder

LEMMA RefuseAdvances == PlacesInv /\ stage \in Requests /\ Refuse => Advances
<1> SUFFICES ASSUME PlacesInv, stage \in Requests, Refuse PROVE Advances
  OBVIOUS
<1>1. Order("failed") < Order(stage)
  BY Orders DEF Requests
<1>2. attempt \in {0, 1}
  BY DEF PlacesInv, ShapeInv
<1> QED BY <1>1, <1>2 DEF Refuse, Advances

LEMMA NextAdvances ==
  ASSUME PlacesInv, PlacesInv', Next
  PROVE  Advances \/ (late' = late /\ revision = 0 /\ revision' = 1) \/ (~late /\ late')
<1>1. CASE Malformed \/ (stage \in Requests /\ Refuse)
  BY <1>1, RefuseAdvances DEF Malformed
<1>2. CASE RequestFails
  <2>1. Order("failed") < Order(stage)
    BY <1>2, Orders DEF Requests, RequestFails
  <2> QED BY <1>2, <2>1 DEF RequestFails, Advances
<1>3. CASE PlannerReply
  <2>1. stage = "planner"
    BY <1>3 DEF PlannerReply
  <2>2. Refuse \/ (stage' \in {"goal_audit", "reduce"} /\ UNCHANGED <<late, revision>>)
    BY <1>3 DEF PlannerReply, SendToAudit
  <2> QED BY <1>1, <2>1, <2>2, Orders DEF Requests, Advances
<1>4. CASE AuditReply
  <2>1. stage = "goal_audit"
    BY <1>4 DEF AuditReply
  <2>2. CASE Refuse
    BY <1>1, <2>1, <2>2 DEF Requests
  <2>3. ASSUME NEW reply, NEW parts, Recorded(reply, parts) PROVE Advances
    <3>1. PICK k, m : Counts(reply, k, m)
      BY <2>3, RecordCounts DEF Recorded
    <3>2. UNCHANGED <<late, revision, plan>>
      BY <2>3 DEF Recorded, Record
    <3>3. Len(plan) \in Nat
      <4>1. plan \in Seq(GoalOf(PlanIds, Cores, Origins))
        BY DEF PlacesInv, ShapeInv
      <4> QED BY <4>1
    <3>4. Len(plan) - m \in Nat /\ Len(plan) - m < Len(plan) - k
      BY <3>1, <3>3 DEF Counts
    <3>5. k = Audited /\ m = Audited' /\ (m < Len(plan) => stage' = "goal_audit")
          /\ (m = Len(plan) => stage' \in {"join", "reduce"})
          /\ (m < Len(plan) \/ m = Len(plan))
      BY <3>1, <3>3 DEF Counts
    <3>6. CASE m < Len(plan)
      BY <2>1, <3>2, <3>4, <3>5, <3>6 DEF Advances
    <3>7. CASE m = Len(plan)
      <4>1. Order(stage') < Order(stage)
        BY <2>1, <3>5, <3>7, Orders
      <4> QED BY <3>2, <4>1 DEF Advances
    <3> QED BY <3>5, <3>6, <3>7
  <2> QED BY <1>4, <2>2, <2>3, AuditReplyRecords
<1>5. CASE JoinBatches
  <2>1. stage = "join" /\ stage' \in {"failed", "coverage", "reduce"} /\ UNCHANGED <<late, revision>>
    BY <1>5 DEF JoinBatches
  <2> QED BY <2>1, Orders DEF Advances
<1>6. CASE CoverageReply
  <2>1. stage = "coverage" /\ (Refuse \/ (stage' = "reduce" /\ UNCHANGED <<late, revision>>))
    BY <1>6, Zenon DEF CoverageReply
  <2> QED BY <1>1, <2>1, Orders DEF Requests, Advances
<1>7. CASE ReduceInitial
  <2>1. stage = "reduce" /\ stage' \in {"plan_revision", "check"} /\ UNCHANGED <<late, revision>>
    BY <1>7 DEF ReduceInitial
  <2> QED BY <2>1, Orders DEF Advances
<1>8. CASE RevisionReply
  <2>1. stage = "plan_revision" /\ revision = 0
    BY <1>8 DEF RevisionReply, PlacesInv, PhaseInv
  <2>2. Refuse \/ (revision' = 1 /\ late' = late)
    BY <1>8, Zenon DEF RevisionReply
  <2> QED BY <1>1, <2>1, <2>2 DEF Requests
<1>9. CASE ReduceRevision
  <2>1. stage = "reduce" /\ stage' \in {"revision_coverage", "carry"} /\ UNCHANGED <<late, revision>>
    BY <1>9 DEF ReduceRevision
  <2> QED BY <2>1, Orders DEF Advances
<1>10. CASE RevisionCoverageReply
  <2>1. stage = "revision_coverage" /\ (Refuse \/ (stage' = "carry" /\ UNCHANGED <<late, revision>>))
    BY <1>10, Zenon DEF RevisionCoverageReply
  <2> QED BY <1>1, <2>1, Orders DEF Requests, Advances
<1>11. CASE CarryForward
  <2>1. stage = "carry" /\ stage' = "check" /\ UNCHANGED <<late, revision>>
    BY <1>11 DEF CarryForward
  <2> QED BY <2>1, Orders DEF Advances
<1>12. CASE Check
  <2>1. stage = "check" /\ stage' \in {"done", "failed"} /\ UNCHANGED <<late, revision>>
    BY <1>12 DEF Check
  <2> QED BY <2>1, Orders DEF Advances
<1>13. CASE LateProposals
  BY <1>13 DEF LateProposals
<1>14. CASE ReduceLate
  <2>1. stage = "reduce" /\ stage' = "done" /\ UNCHANGED <<late, revision>>
    BY <1>14 DEF ReduceLate
  <2> QED BY <2>1, Orders DEF Advances
<1> QED BY <1>1, <1>2, <1>3, <1>4, <1>5, <1>6, <1>7, <1>8, <1>9, <1>10, <1>11, <1>12, <1>13, <1>14
        DEF Next

LEMMA NextIsSmaller ==
  ASSUME PlacesInv, PlacesInv', Next
  PROVE  Smaller(Rank', Rank)
<1>1. CASE Advances
  BY <1>1, AdvancesIsSmaller
<1>2. CASE (late' = late /\ revision = 0 /\ revision' = 1) \/ (~late /\ late')
  <2>1. PICK l, v, l2, v2, o2, n2, a2, o, n, a :
          /\ l = (IF late THEN 0 ELSE 1) /\ l2 = (IF late' THEN 0 ELSE 1)
          /\ v = 1 - revision /\ v2 = 1 - revision'
          /\ o = Order(stage) /\ o2 = Order(stage')
          /\ n = Len(plan) - Audited /\ n2 = Len(plan') - Audited'
          /\ a = 1 - attempt /\ a2 = 1 - attempt'
    OBVIOUS
  <2>2. Rank = <<l, v, o, n, a>> /\ Rank' = <<l2, v2, o2, n2, a2>>
    BY <2>1 DEF Rank
  <2>3. \/ 0 <= l2 /\ l2 < l
        \/ l2 = l /\ 0 <= v2 /\ v2 < v
    BY <1>2, <2>1
  <2> QED BY <2>2, <2>3, SmallerInOrder
<1> QED BY <1>1, <1>2, NextAdvances

\* Planning ends: every step of a plan, of its one revision and of the late
\* audit comes closer to the end of it, whatever the models answer
\* (requestValidatedGoalControl, runtime.mjs:2505).
THEOREM PlanningComesCloser == Spec => EveryStepComesCloser
<1>1. PlacesInv /\ PlacesInv' /\ [Next]_vars => [Smaller(Rank', Rank)]_vars
  BY NextIsSmaller
<1> QED
  BY <1>1, InitPlaces, NextPlaces, PTL DEF Spec, EveryStepComesCloser
-----------------------------------------------------------------------------
(* Nothing is lost: the invariant.                                          *)
\* Merges of the goals audited so far end in a goal of the same audit.
GroupsInv ==
  stage \in Auditing =>
    /\ \A id \in DOMAIN Judged : Step(Judged, id) \in DOMAIN Judged
    /\ \A id \in DOMAIN Judged : Root(Judged, id) \in Roots(Judged)

\* What the first audit did not reject.
WantedInv ==
  \A id \in wanted : id \in Ids(preserved) \union Ids(ledger) \/ \E o \in obligations : o.source = id

\* The parts reconciled between the batches are no obligations of the revision.
SourcesInv ==
  /\ obligations \intersect BatchObligations(Contents) = {}
  /\ revision = 0 => \A c \in covered : c[1] \in BatchObligations(Contents)

\* A goal that was said to cover something is required, is an obligation of
\* the revision or is among the goals just audited.
Placed(id) ==
  \/ id \in Ids(preserved) \union Ids(ledger)
  \/ \E o \in obligations : o.source = id
  \/ stage = "reduce" /\ Eligible(Judged, id)

\* What covers an obligation of the revision is required already, and so is
\* everything the second reconciliation may name.
CoveredInv ==
  /\ \A c \in covered : \A id \in c[2] : Placed(id)
  /\ \A c \in covered : c[1] \in obligations => c[2] \subseteq Ids(ledger)
  /\ stage = "revision_coverage" => \A id \in DOMAIN Judged : Eligible(Judged, id) => id \in Ids(ledger)

\* Once the plan is complete its obligations are met.
SettledInv == stage \in {"check", "done"} \/ late => \A o \in obligations : Settled(o)

\* A late goal was merged into the plan, or its group was decided upon.
LateInv ==
  stage = "done" /\ late => \A g \in ToSet(plan) :
    \/ g.id \in External(records, preserved)
    \/ Root(Judged, g.id) \in Ids(ledger) \union Ids(rejected)

LossInv == GroupsInv /\ WantedInv /\ SourcesInv /\ CoveredInv /\ SettledInv /\ LateInv
-----------------------------------------------------------------------------
(* Where the merges of an audit end.                                        *)
\* A walk along the merges from a goal, step by step.
LEMMA RootByWalk ==
  ASSUME NEW audit, IsFiniteSet(DOMAIN audit), NEW id
  PROVE  \E w : /\ w = [n \in 0..Cardinality(DOMAIN audit) |->
                         IF n = 0 THEN id ELSE Step(audit, w[n - 1])]
                /\ Root(audit, id) = w[Cardinality(DOMAIN audit)]
<1> DEFINE Body(w, N) == [n \in 0..N |-> IF n = 0 THEN id ELSE Step(audit, w[n - 1])]
           Bad == {N \in Nat : ~\E w : w = Body(w, N)}
           size == Cardinality(DOMAIN audit)
<1>1. Bad = {}
  <2> SUFFICES ASSUME Bad # {} PROVE FALSE
    OBVIOUS
  <2>1. PICK m \in Bad : \A k \in Bad : m <= k
    <3>1. Bad \in SUBSET Nat
      OBVIOUS
    <3> QED BY <3>1, LeastNatural
  <2>2. m # 0
    <3> DEFINE z == [n \in 0..0 |-> id]
    <3>1. z = Body(z, 0)
      OBVIOUS
    <3> QED BY <3>1
  <2>3. m - 1 \in Nat /\ m \in Nat /\ m - 1 \notin Bad
    <3>1. m \in Nat
      OBVIOUS
    <3>2. m - 1 \in Nat /\ ~(m <= m - 1)
      BY <3>1, <2>2
    <3> HIDE DEF Bad
    <3> QED BY <3>1, <3>2, <2>1
  <2>4. PICK w : w = Body(w, m - 1)
    BY <2>3
  <2> DEFINE u == [n \in 0..m |-> IF n = m THEN Step(audit, w[m - 1]) ELSE w[n]]
  <2>5. u = Body(u, m)
    <3> SUFFICES ASSUME NEW n \in 0..m PROVE u[n] = Body(u, m)[n]
      OBVIOUS
    <3>1. CASE n = m
      BY <3>1, <2>2, <2>3
    <3>2. CASE n # m
      <4>1. n \in 0..(m - 1) /\ (n # 0 => n - 1 \in 0..(m - 1))
        BY <3>2, <2>3
      <4>2. w[n] = IF n = 0 THEN id ELSE Step(audit, w[n - 1])
        BY <4>1, <2>4
      <4> QED BY <4>1, <4>2, <3>2, <2>3
    <3> QED BY <3>1, <3>2
  <2> QED BY <2>5, <2>1
<1>2. \E w : w = Body(w, size)
  <2>1. size \in Nat
    BY FS_CardinalityType
  <2>2. ~(\A w : w # Body(w, size))
    BY <1>1, <2>1
  <2> HIDE DEF Body
  <2> QED BY <2>2
<1>3. Root(audit, id) = (CHOOSE w : w = Body(w, size))[size]
  BY DEF Root
<1> QED BY <1>2, <1>3

\* A group stays the same group when goals are added to the audit.
LEMMA RootExtends ==
  ASSUME NEW small, NEW big, IsFiniteSet(DOMAIN big), DOMAIN small \subseteq DOMAIN big,
         \A i \in DOMAIN small : big[i] = small[i] /\ Step(small, i) \in DOMAIN small,
         NEW id \in DOMAIN small, Root(small, id) \in Roots(small)
  PROVE  Root(big, id) = Root(small, id)
<1> DEFINE N == Cardinality(DOMAIN small)
           M == Cardinality(DOMAIN big)
<1>1. IsFiniteSet(DOMAIN small) /\ N \in Nat /\ M \in Nat /\ N <= M
  BY FS_Subset, FS_CardinalityType
<1>2. PICK s : /\ s = [n \in 0..N |-> IF n = 0 THEN id ELSE Step(small, s[n - 1])]
               /\ Root(small, id) = s[N]
  BY <1>1, RootByWalk
<1>3. PICK b : /\ b = [n \in 0..M |-> IF n = 0 THEN id ELSE Step(big, b[n - 1])]
               /\ Root(big, id) = b[M]
  BY RootByWalk
<1> DEFINE r == Root(small, id)
<1>4. r \in DOMAIN small /\ Step(big, r) = r
  BY DEF Roots, Step
<1>5. \A i \in DOMAIN small : Step(big, i) = Step(small, i)
  BY DEF Step
<1> HIDE DEF N, M
<1>6. /\ s[0] = id /\ b[0] = id
      /\ \A n \in 1..N : s[n] = Step(small, s[n - 1])
      /\ \A n \in 1..M : b[n] = Step(big, b[n - 1])
  BY <1>1, <1>2, <1>3
<1> HIDE DEF r
<1> DEFINE Follows(n) == IF n <= N THEN b[n] = s[n] /\ s[n] \in DOMAIN small ELSE b[n] = r
           Bad == {n \in 0..M : ~Follows(n)}
<1>7. Bad = {}
  <2> SUFFICES ASSUME Bad # {} PROVE FALSE
    OBVIOUS
  <2>1. PICK m \in Bad : \A k \in Bad : m <= k
    <3>1. Bad \in SUBSET Nat
      OBVIOUS
    <3> QED BY <3>1, LeastNatural
  <2>2. m # 0
    BY <1>1, <1>6
  <2>3. m \in 0..M /\ m - 1 \in 0..M /\ Follows(m - 1) /\ ~Follows(m)
    <3>1. m \in 0..M /\ ~Follows(m)
      OBVIOUS
    <3>2. m - 1 \in 0..M /\ ~(m <= m - 1)
      BY <3>1, <2>2, <1>1
    <3>3. m - 1 \notin Bad
      <4> HIDE DEF Bad
      <4> QED BY <3>2, <2>1
    <3> QED BY <3>1, <3>2, <3>3
  <2>4. CASE m <= N
    <3>1. m - 1 <= N /\ m \in 1..N /\ m \in 1..M
      BY <1>1, <2>2, <2>3, <2>4
    <3>2. b[m - 1] = s[m - 1] /\ s[m - 1] \in DOMAIN small
      BY <2>3, <3>1
    <3>3. b[m] = Step(big, b[m - 1]) /\ s[m] = Step(small, s[m - 1])
      BY <1>6, <3>1
    <3>4. b[m] = s[m] /\ s[m] \in DOMAIN small
      BY <1>5, <3>2, <3>3
    <3> QED BY <2>3, <2>4, <3>4
  <2>5. CASE ~(m <= N)
    <3>1. b[m - 1] = r
      <4>1. CASE m - 1 <= N
        <5>1. m - 1 = N
          BY <4>1, <2>5, <2>3, <1>1
        <5> QED BY <4>1, <5>1, <2>3, <1>2 DEF r
      <4>2. CASE ~(m - 1 <= N)
        BY <4>2, <2>3
      <4> QED BY <4>1, <4>2
    <3>2. b[m] = Step(big, b[m - 1])
      BY <1>1, <1>6, <2>2, <2>3
    <3> QED BY <3>1, <3>2, <1>4, <2>3, <2>5
  <2> QED BY <2>4, <2>5
<1>8. Follows(M)
  BY <1>1, <1>7
<1>9. b[M] = r
  <2>1. CASE M <= N
    BY <1>1, <1>2, <1>8, <2>1 DEF r
  <2>2. CASE ~(M <= N)
    BY <1>8, <2>2
  <2> QED BY <2>1, <2>2
<1> QED BY <1>3, <1>9 DEF r

\* What stays in an audit when the merges into the ledger leave it.
LEMMA InternalIs ==
  ASSUME NEW audit, NEW existing
  PROVE  /\ DOMAIN Internal(audit, existing) = DOMAIN audit \ External(audit, existing)
         /\ \A id \in DOMAIN Internal(audit, existing) : Internal(audit, existing)[id] = audit[id]
  BY DEF Internal, Restrict

\* The groups of the batches audited so far stay what they are, and those of
\* the batch just recorded join them.
LEMMA RecordKeepsGroups ==
  ASSUME PlacesInv, GroupsInv, NEW reply, NEW parts, Recorded(reply, parts)
  PROVE  GroupsInv'
<1>1. PICK before, inner, after :
        before = Judged /\ inner = Internal(reply, Existing) /\ after = Internal(records', Existing)
  OBVIOUS
<1>2. /\ records' = [id \in DOMAIN records \union DOMAIN reply |->
                       IF id \in DOMAIN reply THEN reply[id] ELSE records[id]]
      /\ stage = "goal_audit" /\ DOMAIN reply = Ids(Batch) /\ Record(reply, parts)
      /\ preserved' = preserved
  BY DEF Recorded, Record
<1>3. PICK k, m : Counts(reply, k, m)
  BY <1>2, RecordCounts
<1>4. plan \in Seq(GoalOf(PlanIds, Cores, Origins)) /\ IdsAreUnique(plan)
  BY DEF PlacesInv, ShapeInv
<1>5. DOMAIN plan = 1..Len(plan) /\ k \in 0..Len(plan) /\ m \in (k + 1)..Len(plan) /\ Len(plan) \in Nat
  BY <1>3, <1>4 DEF Counts
<1>6. DOMAIN reply \intersect DOMAIN records = {}
  <2> SUFFICES ASSUME NEW i \in (k + 1)..m, NEW j \in 1..k, plan[i].id = plan[j].id PROVE FALSE
    BY <1>3 DEF Counts
  <2>1. i \in DOMAIN plan /\ j \in DOMAIN plan /\ i # j
    BY <1>5
  <2> QED BY <1>4, <2>1 DEF IdsAreUnique
<1>7. /\ DOMAIN records' = DOMAIN records \union DOMAIN reply
      /\ \A id \in DOMAIN records : records'[id] = records[id]
      /\ \A id \in DOMAIN reply : records'[id] = reply[id]
  BY <1>2, <1>6
<1>8. IsFiniteSet(DOMAIN records')
  <2> DEFINE f == [i \in 1..m |-> plan[i].id]
  <2>1. DOMAIN records' = {f[i] : i \in 1..m}
    BY <1>3 DEF Counts
  <2>2. IsFiniteSet(1..m)
    BY <1>5, FS_Interval
  <2> HIDE DEF f
  <2>3. IsFiniteSet({f[i] : i \in 1..m})
    BY <2>2, FiniteImage
  <2> QED BY <2>1, <2>3
<1>9. /\ before = Internal(records, Existing)
      /\ DOMAIN before = DOMAIN records \ External(records, Existing)
      /\ DOMAIN inner = DOMAIN reply \ External(reply, Existing)
      /\ DOMAIN after = DOMAIN records' \ External(records', Existing)
      /\ \A id \in DOMAIN before : before[id] = records[id]
      /\ \A id \in DOMAIN inner : inner[id] = reply[id]
      /\ \A id \in DOMAIN after : after[id] = records'[id]
  BY <1>1, InternalIs DEF Judged
<1>10. /\ DOMAIN after = DOMAIN before \union DOMAIN inner
       /\ \A id \in DOMAIN before : after[id] = before[id]
       /\ \A id \in DOMAIN inner : after[id] = inner[id]
  <2>1. \A id \in DOMAIN records : id \in External(records', Existing) <=> id \in External(records, Existing)
    BY <1>7 DEF External
  <2>2. \A id \in DOMAIN reply : id \in External(records', Existing) <=> id \in External(reply, Existing)
    BY <1>7 DEF External
  <2> QED BY <1>7, <1>9, <2>1, <2>2
<1>11. /\ \A id \in DOMAIN before : Step(before, id) \in DOMAIN before
       /\ \A id \in DOMAIN before : Root(before, id) \in Roots(before)
  BY <1>1, <1>2 DEF GroupsInv, Auditing
<1>12. /\ \A id \in DOMAIN inner : Step(inner, id) \in DOMAIN inner
       /\ \A id \in DOMAIN inner : Root(inner, id) \in Roots(inner)
  BY <1>1 DEF Recorded, ValidAudit, GroupsAreSound
<1>13. IsFiniteSet(DOMAIN after)
  BY <1>8, <1>9, FS_Subset
<1>14. Roots(before) \subseteq Roots(after) /\ Roots(inner) \subseteq Roots(after)
  BY <1>10 DEF Roots
<1>15. ASSUME NEW id \in DOMAIN before
       PROVE  Step(after, id) \in DOMAIN after /\ Root(after, id) \in Roots(after)
  <2>1. Step(after, id) = Step(before, id)
    BY <1>10 DEF Step
  <2>2. Root(after, id) = Root(before, id)
    BY <1>10, <1>11, <1>13, RootExtends
  <2> QED BY <1>10, <1>11, <1>14, <2>1, <2>2
<1>16. ASSUME NEW id \in DOMAIN inner
       PROVE  Step(after, id) \in DOMAIN after /\ Root(after, id) \in Roots(after)
  <2>1. Step(after, id) = Step(inner, id)
    BY <1>10 DEF Step
  <2>2. Root(after, id) = Root(inner, id)
    BY <1>10, <1>12, <1>13, RootExtends
  <2> QED BY <1>10, <1>12, <1>14, <2>1, <2>2
<1>17. Judged' = after
  BY <1>1, <1>2 DEF Judged, Existing
<1> QED BY <1>10, <1>15, <1>16, <1>17 DEF GroupsInv
-----------------------------------------------------------------------------
(* The steps that change neither the goals nor what covers them.            *)
LEMMA SettledStays ==
  ASSUME ledger \subseteq ledger', covered \subseteq covered', NEW o, Settled(o)
  PROVE  Settled(o)'
<1>1. CASE Carried(o)
  BY <1>1 DEF Carried, Settled
<1>2. CASE \E c \in covered : c[1] = o /\ \A id \in c[2] : InLedger(id)
  <2>1. PICK c \in covered : c[1] = o /\ \A id \in c[2] : \E g \in ledger : g.id = id
    BY <1>2 DEF InLedger
  <2>2. c \in covered' /\ \A id \in c[2] : \E g \in ledger' : g.id = id
    BY <2>1
  <2> QED BY <2>1, <2>2 DEF InLedger, Settled
<1> QED BY <1>1, <1>2 DEF Settled

LEMMA MovesKeepGroups ==
  ASSUME PlacesInv, LossInv, Moves
  PROVE  GroupsInv' /\ WantedInv' /\ LateInv'
<1>1. GroupsInv /\ WantedInv /\ LateInv
  BY DEF LossInv
<1>2. UNCHANGED <<revision, late, plan, records, preserved, obligations, rejected, ledger, wanted>>
  BY DEF Moves
<1>3. Judged' = Judged
  BY <1>2 DEF Judged, Existing
<1>4. GroupsInv'
  <2>1. stage' \in Auditing => stage \in Auditing
    BY DEF Moves, Auditing
  <2> QED BY <1>1, <1>3, <2>1 DEF GroupsInv
<1>5. WantedInv'
  BY <1>1, <1>2 DEF WantedInv
<1>6. LateInv'
  <2>1. stage' = "done" /\ late' => stage = "done" /\ late
    BY <1>2 DEF Moves, PlacesInv, PhaseInv, Auditing
  <2> QED BY <1>1, <1>2, <1>3, <2>1 DEF LateInv
<1> QED BY <1>4, <1>5, <1>6

Still == Moves /\ covered' = covered /\ (stage = "reduce" => stage' = "reduce")

LEMMA StillKeepsLoss == PlacesInv /\ LossInv /\ Still => LossInv'
<1> SUFFICES ASSUME PlacesInv, LossInv, Still PROVE LossInv'
  OBVIOUS
<1>1. /\ Moves /\ covered' = covered /\ (stage = "reduce" => stage' = "reduce")
      /\ UNCHANGED <<revision, late, records, preserved, obligations, ledger>>
  BY DEF Still, Moves
<1>2. GroupsInv' /\ WantedInv' /\ LateInv'
  BY <1>1, MovesKeepGroups
<1>3. SourcesInv'
  BY <1>1 DEF LossInv, SourcesInv
<1>4. Judged' = Judged
  BY <1>1 DEF Judged, Existing
<1>5. CoveredInv'
  <2>1. CoveredInv
    BY DEF LossInv
  <2>2. stage' = "revision_coverage" => stage = "revision_coverage"
    BY <1>1 DEF Moves
  <2>3. ASSUME NEW id, Placed(id) PROVE Placed(id)'
    <3>1. Eligible(Judged, id) => Eligible(Judged', id)
      BY <1>4
    <3> QED BY <1>1, <2>3, <3>1 DEF Placed
  <2> QED BY <1>1, <1>4, <2>1, <2>2, <2>3 DEF CoveredInv
<1>6. SettledInv'
  <2>1. stage' \in {"check", "done"} \/ late' => stage \in {"check", "done"} \/ late
    BY <1>1 DEF Moves
  <2>2. SettledInv
    BY DEF LossInv
  <2>3. ledger \subseteq ledger' /\ covered \subseteq covered'
    BY <1>1
  <2> QED BY <1>1, <2>1, <2>2, <2>3, SettledStays DEF SettledInv
<1> QED BY <1>2, <1>3, <1>5, <1>6 DEF LossInv

LEMMA RefuseIsStill == ShapeInv /\ stage # "reduce" /\ Refuse => Still
  BY RefuseMoves DEF Refuse, Still

LEMMA SomeStepsAreStill ==
  ASSUME ShapeInv, Malformed \/ RequestFails \/ JoinBatches \/ Check \/ UNCHANGED vars
  PROVE  Still
<1>1. Moves
  BY SomeStepsMove
<1>2. CASE Malformed
  BY <1>2, RefuseIsStill DEF Malformed, Requests
<1>3. CASE RequestFails
  BY <1>1, <1>3 DEF RequestFails, Requests, Still
<1>4. CASE JoinBatches
  <2>1. stage = "join" /\ covered' = covered
    BY <1>4 DEF JoinBatches
  <2> QED BY <1>1, <2>1 DEF Still
<1>5. CASE Check
  <2>1. stage = "check" /\ covered' = covered
    BY <1>5 DEF Check
  <2> QED BY <1>1, <2>1 DEF Still
<1>6. CASE UNCHANGED vars
  BY <1>1, <1>6 DEF vars, Still
<1> QED BY <1>2, <1>3, <1>4, <1>5, <1>6
-----------------------------------------------------------------------------
(* The steps that begin an audit, and the one that records a batch.         *)
LEMMA SendKeepsLoss ==
  ASSUME PlacesInv, LossInv, NEW goals, Sends(goals),
         stage \in {"planner", "plan_revision", "done"},
         UNCHANGED <<obligations, ledger, wanted, covered>>,
         revision' = 0 => revision = 0,
         preserved' = preserved \/ (stage = "done" /\ preserved' = ledger),
         late' => late \/ stage = "done"
  PROVE  LossInv'
<1>1. stage' \in {"goal_audit", "reduce"} /\ records' = NoRecords
  BY DEF Sends, SendToAudit
<1>2. DOMAIN Judged' = {}
  <2>1. DOMAIN NoRecords = {}
    BY DEF NoRecords
  <2>2. PICK audit, existing : audit = records' /\ existing = Existing'
    OBVIOUS
  <2>3. DOMAIN Internal(audit, existing) = DOMAIN audit \ External(audit, existing)
    BY InternalIs
  <2>4. Judged' = Internal(audit, existing)
    BY <2>2 DEF Judged
  <2> QED BY <1>1, <2>1, <2>2, <2>3, <2>4
<1>3. GroupsInv'
  BY <1>2 DEF GroupsInv
<1>4. Ids(preserved) \union Ids(ledger) \subseteq Ids(preserved') \union Ids(ledger')
  <2>1. stage = "done" => preserved \subseteq ledger
    BY DEF PlacesInv, PhaseInv
  <2> QED BY <2>1 DEF Ids
<1>5. WantedInv'
  BY <1>4 DEF LossInv, WantedInv
<1>6. SourcesInv'
  BY DEF LossInv, SourcesInv
<1>7. CoveredInv'
  <2>1. CoveredInv
    BY DEF LossInv
  <2>2. ASSUME NEW id, Placed(id) PROVE Placed(id)'
    <3>1. stage # "reduce"
      OBVIOUS
    <3> QED BY <1>4, <2>2, <3>1 DEF Placed
  <2> QED BY <1>1, <2>1, <2>2 DEF CoveredInv
<1>8. SettledInv'
  <2>1. SettledInv /\ (late' => stage \in {"check", "done"} \/ late)
    BY DEF LossInv
  <2>2. ledger \subseteq ledger' /\ covered \subseteq covered'
    OBVIOUS
  <2>3. stage' \notin {"check", "done"}
    BY <1>1
  <2> QED BY <2>1, <2>2, <2>3, SettledStays DEF SettledInv
<1>9. LateInv'
  BY <1>1 DEF LateInv
<1> QED BY <1>3, <1>5, <1>6, <1>7, <1>8, <1>9 DEF LossInv

LEMMA BeginningsKeepLoss ==
  ASSUME PlacesInv, LossInv, PlannerReply \/ RevisionReply \/ LateProposals
  PROVE  LossInv'
<1>1. ASSUME stage # "reduce", Refuse PROVE LossInv'
  BY <1>1, RefuseIsStill, StillKeepsLoss DEF PlacesInv
<1>2. CASE PlannerReply
  <2>1. stage = "planner"
    BY <1>2 DEF PlannerReply
  <2>2. \/ Refuse
        \/ \E goals : /\ Sends(Candidates(goals))
                      /\ UNCHANGED <<revision, late, preserved, obligations, ledger, wanted, covered>>
    BY <1>2, Zenon DEF PlannerReply, Sends
  <2>3. ASSUME NEW goals, Sends(goals),
               UNCHANGED <<revision, late, preserved, obligations, ledger, wanted, covered>>
        PROVE LossInv'
    <3>1. /\ stage \in {"planner", "plan_revision", "done"}
          /\ UNCHANGED <<obligations, ledger, wanted, covered>>
          /\ revision' = 0 => revision = 0
          /\ preserved' = preserved /\ late' = late
      BY <2>1, <2>3
    <3> QED BY <2>3, <3>1, SendKeepsLoss
  <2> QED BY <1>1, <2>1, <2>2, <2>3
<1>3. CASE RevisionReply
  <2>1. stage = "plan_revision"
    BY <1>3 DEF RevisionReply
  <2>2. \/ Refuse
        \/ \E fresh : /\ Sends(Candidates(fresh)) /\ revision' = 1
                      /\ UNCHANGED <<late, preserved, obligations, ledger, wanted, covered>>
    BY <1>3, Zenon DEF RevisionReply, Sends
  <2>3. ASSUME NEW goals, Sends(goals), revision' = 1,
               UNCHANGED <<late, preserved, obligations, ledger, wanted, covered>>
        PROVE LossInv'
    <3>1. /\ stage \in {"planner", "plan_revision", "done"}
          /\ UNCHANGED <<obligations, ledger, wanted, covered>>
          /\ revision' = 0 => revision = 0
          /\ preserved' = preserved /\ late' = late
      BY <2>1, <2>3
    <3> QED BY <2>3, <3>1, SendKeepsLoss
  <2> QED BY <1>1, <2>1, <2>2, <2>3
<1>4. CASE LateProposals
  <2>1. /\ stage = "done" /\ revision' = 1 /\ preserved' = ledger
        /\ UNCHANGED <<obligations, ledger, wanted, covered>>
    BY <1>4 DEF LateProposals
  <2>2. \E goals : Sends(goals)
    BY <1>4 DEF LateProposals, Sends
  <2> QED BY <2>1, <2>2, SendKeepsLoss
<1> QED BY <1>2, <1>3, <1>4

LEMMA AuditReplyKeepsLoss == PlacesInv /\ LossInv /\ AuditReply => LossInv'
<1> SUFFICES ASSUME PlacesInv, LossInv, AuditReply PROVE LossInv'
  OBVIOUS
<1>1. CASE Refuse
  <2>1. stage # "reduce"
    BY DEF AuditReply
  <2> QED BY <1>1, <2>1, RefuseIsStill, StillKeepsLoss DEF PlacesInv
<1>2. ASSUME NEW reply, NEW parts, Recorded(reply, parts) PROVE LossInv'
  <2>1. /\ stage = "goal_audit" /\ stage' \in {"goal_audit", "join", "reduce"}
        /\ UNCHANGED <<revision, late, plan, preserved, obligations, rejected, ledger, wanted, covered>>
    BY <1>2 DEF Recorded, Record
  <2>2. GroupsInv'
    BY <1>2, RecordKeepsGroups DEF LossInv
  <2>3. WantedInv' /\ SourcesInv' /\ LateInv'
    BY <2>1 DEF LossInv, WantedInv, SourcesInv, LateInv
  <2>4. CoveredInv'
    <3>1. CoveredInv
      BY DEF LossInv
    <3>2. ASSUME NEW id, Placed(id) PROVE Placed(id)'
      BY <2>1, <3>2 DEF Placed
    <3> QED BY <2>1, <3>1, <3>2 DEF CoveredInv
  <2>5. SettledInv'
    <3>1. SettledInv /\ ledger \subseteq ledger' /\ covered \subseteq covered'
      BY <2>1 DEF LossInv
    <3> QED BY <2>1, <3>1, SettledStays DEF SettledInv
  <2> QED BY <2>2, <2>3, <2>4, <2>5 DEF LossInv
<1> QED BY <1>1, <1>2, AuditReplyRecords
-----------------------------------------------------------------------------
(* The reconciliations: only goals the audit kept cover anything.           *)
LEMMA CoverersAreEligible ==
  ASSUME NEW asked, NEW goals, NEW audit,
         NEW cover \in CoverChoices(asked,
           {g.id : g \in UNION {Coverers(o, goals, audit, asked) : o \in asked}}),
         NEW o \in asked, NEW id \in cover[o]
  PROVE  Eligible(audit, id)
<1>1. id \in {g.id : g \in UNION {Coverers(p, goals, audit, asked) : p \in asked}}
  BY DEF CoverChoices
<1>2. PICK p \in asked : \E g \in Coverers(p, goals, audit, asked) : id = g.id
  BY <1>1
<1> QED BY <1>2 DEF Coverers, MayCover

LEMMA FixedAreEligible ==
  ASSUME NEW asked, NEW goals, NEW audit, NEW ids,
         NEW f \in Deterministic(goals, audit, asked, ids)
  PROVE  f[1] \in asked /\ \A id \in f[2] : Eligible(audit, id)
<1> DEFINE exact(o, g) == /\ \A h \in goals : Corrects(h, audit, o, ids) <=> h = g
                          /\ \A p \in asked : Corrects(g, audit, p, ids) <=> p = o
           pairs == {q \in asked \X goals : exact(q[1], q[2])}
<1>1. CASE f \in Corrections(goals, audit, asked, ids)
  <2>1. PICK q \in pairs : f = <<q[1], {q[2].id}>>
    BY <1>1 DEF Corrections
  <2>2. q[1] \in asked /\ q[2] \in goals /\ exact(q[1], q[2])
    OBVIOUS
  <2> HIDE DEF pairs
  <2>3. Corrects(q[2], audit, q[1], ids)
    BY <2>2
  <2>4. Eligible(audit, q[2].id)
    BY <2>3 DEF Corrects
  <2>5. f[1] = q[1] /\ f[2] = {q[2].id}
    BY <2>1
  <2> QED BY <2>2, <2>4, <2>5
<1>2. CASE f \notin Corrections(goals, audit, asked, ids)
  <2>1. \E o \in asked : f = <<o, {}>>
    BY <1>2 DEF Deterministic
  <2> QED BY <2>1
<1> QED BY <1>1, <1>2

\* Every goal the audit kept is in the part of the reduction that stays.
LEMMA EligibleIsKept ==
  ASSUME PlacesInv, stage = "reduce", NEW r, NEW existing, r = Reduced(existing),
         NEW id, Eligible(Judged, id)
  PROVE  id \in Ids(Others(r))
<1>1. /\ \A i \in Roots(Judged) : i \in Ids(Others(r)) \union Ids(r.rejected)
      /\ \A g \in r.rejected : Judged[g.id].verdict = "reject"
  BY ReductionOfPlan
<1>2. id \in Roots(Judged) /\ Judged[id].verdict # "reject"
  BY DEF Eligible, Roots
<1>3. id \notin Ids(r.rejected)
  BY <1>1, <1>2 DEF Ids
<1> QED BY <1>1, <1>2, <1>3

LEMMA CoverageReplyKeepsLoss == PlacesInv /\ LossInv /\ CoverageReply => LossInv'
<1> SUFFICES ASSUME PlacesInv, LossInv, CoverageReply PROVE LossInv'
  OBVIOUS
<1>1. stage = "coverage"
  BY DEF CoverageReply
<1>2. CASE Refuse
  BY <1>1, <1>2, RefuseIsStill, StillKeepsLoss DEF PlacesInv
<1>3. CASE ~Refuse
  <2> DEFINE open == BatchObligations(uncovered)
             ids == {g.id : g \in UNION {Coverers(o, JudgedGoals, Judged, open) : o \in open}}
  <2>1. PICK cover \in CoverChoices(open, ids) :
          /\ covered' = covered \union {<<o, cover[o]>> : o \in {p \in open : cover[p] # {}}}
          /\ stage' = "reduce"
          /\ UNCHANGED <<revision, late, plan, records, preserved, obligations, rejected, ledger, wanted>>
    <3>1. PICK cover \in CoverChoices(open, ids) :
            IF ValidCoverage(cover, JudgedGoals, Judged, open)
            THEN /\ uncovered' = {u \in uncovered : cover[BatchObligation(u)] = {}}
                 /\ covered' = covered \union {<<o, cover[o]>> : o \in {p \in open : cover[p] # {}}}
                 /\ stage' = "reduce" /\ attempt' = 0
                 /\ UNCHANGED <<revision, late, plan, records, preserved, obligations, rejected,
                                corrected, ledger, wanted>>
            ELSE Refuse
      BY Zenon DEF CoverageReply
    <3> HIDE DEF open, ids
    <3> QED BY <1>3, <3>1
  <2>2. \A o \in open : \A id \in cover[o] : Eligible(Judged, id)
    <3>1. PICK goals, audit, asked : goals = JudgedGoals /\ audit = Judged /\ asked = open
      OBVIOUS
    <3>2. cover \in CoverChoices(asked,
             {g.id : g \in UNION {Coverers(o, goals, audit, asked) : o \in asked}})
      BY <3>1
    <3>3. \A o \in asked : \A id \in cover[o] : Eligible(audit, id)
      <4> HIDE DEF open, ids
      <4> QED BY <3>2, CoverersAreEligible
    <3> QED BY <3>1, <3>3
  <2>3. open \subseteq BatchObligations(Contents)
    BY DEF PlacesInv, ShapeInv, BatchObligations
  <2> HIDE DEF open, ids
  <2> DEFINE more == {<<o, cover[o]>> : o \in {p \in open : cover[p] # {}}}
  <2>4. \A c \in more : /\ c[1] \in BatchObligations(Contents)
                        /\ \A id \in c[2] : Eligible(Judged, id)
    BY <2>2, <2>3
  <2>5. covered' = covered \union more
    BY <2>1
  <2> HIDE DEF more
  <2>6. GroupsInv' /\ WantedInv' /\ LateInv'
    BY SomeStepsMove, MovesKeepGroups DEF PlacesInv
  <2>7. SourcesInv'
    BY <2>1, <2>4, <2>5 DEF LossInv, SourcesInv
  <2>8. CoveredInv'
    <3>1. CoveredInv /\ SourcesInv
      BY DEF LossInv
    <3>2. Judged' = Judged
      BY <2>1 DEF Judged, Existing
    <3>3. ASSUME NEW id, Placed(id) \/ Eligible(Judged, id) PROVE Placed(id)'
      <4>1. Eligible(Judged, id) => Placed(id)'
        BY <2>1, <3>2 DEF Placed
      <4>2. Placed(id) => Placed(id)'
        BY <1>1, <2>1 DEF Placed
      <4> QED BY <3>3, <4>1, <4>2
    <3>4. \A c \in covered' : \A id \in c[2] : Placed(id)'
      BY <2>4, <2>5, <3>1, <3>3 DEF CoveredInv
    <3>5. \A c \in covered' : c[1] \in obligations' => c[2] \subseteq Ids(ledger')
      BY <2>1, <2>4, <2>5, <3>1 DEF CoveredInv, SourcesInv
    <3> QED BY <2>1, <3>4, <3>5 DEF CoveredInv
  <2>9. SettledInv'
    <3>1. SettledInv /\ ledger \subseteq ledger' /\ covered \subseteq covered'
      BY <2>1, <2>5 DEF LossInv
    <3> QED BY <2>1, <3>1, SettledStays DEF SettledInv
  <2> QED BY <2>6, <2>7, <2>8, <2>9 DEF LossInv
<1> QED BY <1>2, <1>3

LEMMA RevisionCoverageReplyKeepsLoss ==
  PlacesInv /\ LossInv /\ RevisionCoverageReply => LossInv'
<1> SUFFICES ASSUME PlacesInv, LossInv, RevisionCoverageReply PROVE LossInv'
  OBVIOUS
<1>1. stage = "revision_coverage" /\ revision = 1 /\ ~late
  BY DEF RevisionCoverageReply, PlacesInv, PhaseInv
<1>2. CASE Refuse
  BY <1>1, <1>2, RefuseIsStill, StillKeepsLoss DEF PlacesInv
<1>3. CASE ~Refuse
  <2> DEFINE asked == obligations \ {f[1] : f \in Fixed}
             ids == {g.id : g \in UNION {Coverers(o, JudgedGoals, Judged, asked) : o \in asked}}
  <2>1. PICK cover \in CoverChoices(asked, ids) :
          /\ covered' = covered \union {<<o, cover[o]>> : o \in {p \in asked : cover[p] # {}}}
          /\ stage' = "carry"
          /\ UNCHANGED <<revision, late, plan, records, preserved, obligations, rejected, ledger, wanted>>
    <3>1. PICK cover \in CoverChoices(asked, ids) :
            IF ValidCoverage(cover, JudgedGoals, Judged, asked)
            THEN /\ covered' = covered \union {<<o, cover[o]>> : o \in {p \in asked : cover[p] # {}}}
                 /\ stage' = "carry" /\ attempt' = 0
                 /\ UNCHANGED <<revision, late, plan, records, uncovered, preserved, obligations,
                                rejected, corrected, ledger, wanted>>
            ELSE Refuse
      BY Zenon DEF RevisionCoverageReply
    <3> HIDE DEF asked, ids
    <3> QED BY <1>3, <3>1
  <2>2. \A o \in asked : \A id \in cover[o] : Eligible(Judged, id)
    <3>1. PICK goals, audit, open : goals = JudgedGoals /\ audit = Judged /\ open = asked
      OBVIOUS
    <3>2. cover \in CoverChoices(open,
             {g.id : g \in UNION {Coverers(o, goals, audit, open) : o \in open}})
      BY <3>1
    <3>3. \A o \in open : \A id \in cover[o] : Eligible(audit, id)
      <4> HIDE DEF asked, ids
      <4> QED BY <3>2, CoverersAreEligible
    <3> QED BY <3>1, <3>3
  <2> HIDE DEF asked, ids
  <2> DEFINE more == {<<o, cover[o]>> : o \in {p \in asked : cover[p] # {}}}
  <2>3. CoveredInv /\ SourcesInv
    BY DEF LossInv
  <2>4. \A id \in DOMAIN Judged : Eligible(Judged, id) => id \in Ids(ledger)
    BY <1>1, <2>3 DEF CoveredInv
  <2>5. \A c \in more : c[2] \subseteq Ids(ledger)
    BY <2>2, <2>4 DEF Eligible
  <2>6. covered' = covered \union more
    BY <2>1
  <2> HIDE DEF more
  <2>7. GroupsInv' /\ WantedInv' /\ LateInv'
    BY SomeStepsMove, MovesKeepGroups DEF PlacesInv
  <2>8. SourcesInv'
    BY <1>1, <2>1, <2>3 DEF SourcesInv
  <2>9. CoveredInv'
    <3>1. ASSUME NEW id, Placed(id) \/ id \in Ids(ledger) PROVE Placed(id)'
      BY <1>1, <2>1, <3>1 DEF Placed
    <3>2. \A c \in covered' : \A id \in c[2] : Placed(id)'
      BY <2>3, <2>5, <2>6, <3>1 DEF CoveredInv
    <3>3. \A c \in covered' : c[1] \in obligations' => c[2] \subseteq Ids(ledger')
      BY <2>1, <2>3, <2>5, <2>6 DEF CoveredInv
    <3> QED BY <2>1, <3>2, <3>3 DEF CoveredInv
  <2>10. SettledInv'
    BY <1>1, <2>1 DEF SettledInv
  <2> QED BY <2>7, <2>8, <2>9, <2>10 DEF LossInv
<1> QED BY <1>2, <1>3
-----------------------------------------------------------------------------
(* The steps that end an audit.                                             *)
\* What the first audit keeps is required or an obligation of the revision.
LEMMA InitialPlaces ==
  ASSUME PlacesInv, ReduceInitial, NEW r, r = Reduced({})
  PROVE  /\ \A id \in Ids(Others(r)) :
              \/ id \in Ids(preserved') \union Ids(ledger')
              \/ \E o \in obligations' : o.source = id
         /\ \A u \in uncovered : \E o \in obligations' : o.source = PartGoal(u).id
         /\ obligations' \intersect BatchObligations(Contents) = {}
         /\ stage' = "check" => obligations' = {}
<1>1. /\ stage = "reduce" /\ revision = 0
      /\ \/ /\ NeedsRevision(r, uncovered) /\ stage' = "plan_revision"
            /\ preserved' = Accepted(r) /\ obligations' = RevisionObligations(r)
         \/ /\ ~NeedsRevision(r, uncovered) /\ stage' = "check"
            /\ ledger' = Accepted(r) /\ obligations' = obligations
  BY DEF ReduceInitial, Reduced
<1>2. obligations = {}
  BY <1>1 DEF PlacesInv, PhaseInv, Auditing
<1>3. Ids(Accepted(r)) = Ids(r.ready \union r.blocked)
  BY AcceptedIds
<1>4. Ids(Others(r)) = Ids(r.ready \union r.blocked) \union Ids(r.decompose \union r.refine)
  BY DEF Ids, Others
<1>5. CASE /\ ~NeedsRevision(r, uncovered) /\ stage' = "check"
           /\ ledger' = Accepted(r) /\ obligations' = obligations
  <2>1. uncovered = {} /\ r.decompose \union r.refine = {}
    BY <1>5 DEF NeedsRevision
  <2>2. Ids(r.decompose \union r.refine) = {}
    BY <2>1 DEF Ids
  <2> QED BY <1>2, <1>3, <1>4, <1>5, <2>1, <2>2
<1>6. CASE /\ NeedsRevision(r, uncovered) /\ stage' = "plan_revision"
           /\ preserved' = Accepted(r) /\ obligations' = RevisionObligations(r)
  <2> DEFINE D == {Obligation("decompose", g.id, InitialGoal(g.id), g.origins) : g \in r.decompose}
             F == {Obligation("refine", g.id, g, g.origins) : g \in r.refine}
             P == PartObligations(uncovered)
  <2>1. obligations' = (D \union F) \union P
    BY <1>6 DEF RevisionObligations
  <2>2. \A g \in r.decompose : \E o \in D : o.source = g.id
    <3> SUFFICES ASSUME NEW g \in r.decompose PROVE \E o \in D : o.source = g.id
      OBVIOUS
    <3>1. Obligation("decompose", g.id, InitialGoal(g.id), g.origins).source = g.id
      BY DEF Obligation
    <3> QED BY <3>1
  <2>3. \A g \in r.refine : \E o \in F : o.source = g.id
    <3> SUFFICES ASSUME NEW g \in r.refine PROVE \E o \in F : o.source = g.id
      OBVIOUS
    <3>1. Obligation("refine", g.id, g, g.origins).source = g.id
      BY DEF Obligation
    <3> QED BY <3>1
  <2>4. \A u \in uncovered : \E o \in P : o.source = PartGoal(u).id
    <3> SUFFICES ASSUME NEW u \in uncovered PROVE \E o \in P : o.source = PartGoal(u).id
      OBVIOUS
    <3>1. Obligation("uncovered", PartGoal(u).id, u, u.origins).source = PartGoal(u).id
      BY DEF Obligation
    <3> QED BY <3>1 DEF PartObligations
  <2>5. (D \union F) \intersect BatchObligations(Contents) = {}
    <3>1. \A o \in D \union F : o.kind # "uncovered"
      BY DEF Obligation
    <3>2. \A o \in BatchObligations(Contents) : o.kind = "uncovered"
      BY DEF BatchObligations, BatchObligation, Obligation
    <3> HIDE DEF D, F
    <3> QED BY <3>1, <3>2
  <2>6. P \intersect BatchObligations(Contents) = {}
    <3>1. \A o \in P : o.source[1] = "part"
      BY DEF PartObligations, PartGoal, Obligation
    <3>2. \A o \in BatchObligations(Contents) : o.source[1] = "batch"
      BY DEF BatchObligations, BatchObligation, Obligation
    <3> HIDE DEF P
    <3> QED BY <3>1, <3>2
  <2> HIDE DEF D, F, P
  <2>7. \A id \in Ids(r.decompose \union r.refine) : \E o \in obligations' : o.source = id
    BY <2>1, <2>2, <2>3 DEF Ids
  <2> QED BY <1>3, <1>4, <1>6, <2>1, <2>4, <2>5, <2>6, <2>7
<1> QED BY <1>1, <1>5, <1>6

LEMMA ReduceInitialKeepsLoss == PlacesInv /\ LossInv /\ ReduceInitial => LossInv'
<1> SUFFICES ASSUME PlacesInv, LossInv, ReduceInitial PROVE LossInv'
  OBVIOUS
<1>1. PICK r : r = Reduced({})
  OBVIOUS
<1>2. /\ stage = "reduce" /\ revision = 0 /\ stage' \in {"plan_revision", "check"}
      /\ wanted' = (Roots(Judged) \ Ids(r.rejected)) \union {PartGoal(u).id : u \in uncovered}
      /\ UNCHANGED <<revision, late, covered>>
  BY <1>1 DEF ReduceInitial, Reduced
<1>3. ~late /\ ledger = {} /\ preserved = {}
  BY <1>2 DEF PlacesInv, PhaseInv, Auditing
<1>4. /\ \A id \in Ids(Others(r)) :
           \/ id \in Ids(preserved') \union Ids(ledger')
           \/ \E o \in obligations' : o.source = id
      /\ \A u \in uncovered : \E o \in obligations' : o.source = PartGoal(u).id
      /\ obligations' \intersect BatchObligations(Contents) = {}
      /\ stage' = "check" => obligations' = {}
  BY <1>1, InitialPlaces
<1>5. \A id \in Roots(Judged) : id \in Ids(Others(r)) \union Ids(r.rejected)
  BY <1>1, <1>2, ReductionOfPlan
<1>6. \A id : Eligible(Judged, id) => id \in Ids(Others(r))
  BY <1>1, <1>2, EligibleIsKept
<1>7. WantedInv'
  BY <1>2, <1>4, <1>5 DEF WantedInv
<1>8. SourcesInv'
  BY <1>2, <1>4 DEF LossInv, SourcesInv
<1>9. CoveredInv'
  <2>1. CoveredInv /\ SourcesInv
    BY DEF LossInv
  <2>2. Ids(preserved) \union Ids(ledger) = {}
    BY <1>3 DEF Ids
  <2>3. obligations = {}
    BY <1>2 DEF PlacesInv, PhaseInv, Auditing
  <2>4. ASSUME NEW id, Placed(id) PROVE Placed(id)'
    <3>1. Eligible(Judged, id)
      BY <2>2, <2>3, <2>4 DEF Placed
    <3> QED BY <1>4, <1>6, <3>1 DEF Placed
  <2>5. \A c \in covered : c[1] \notin obligations'
    BY <1>2, <1>4, <2>1 DEF SourcesInv
  <2> QED BY <1>2, <2>1, <2>4, <2>5 DEF CoveredInv
<1>10. SettledInv'
  BY <1>2, <1>3, <1>4 DEF SettledInv
<1>11. GroupsInv' /\ LateInv'
  BY <1>2 DEF GroupsInv, LateInv, Auditing
<1> QED BY <1>7, <1>8, <1>9, <1>10, <1>11 DEF LossInv

\* What the second and the late audit keep is required.
LEMMA ReductionKeepsLoss ==
  ASSUME PlacesInv, LossInv, ReduceRevision \/ ReduceLate
  PROVE  LossInv'
<1>1. PICK r : r = Reduced(Existing)
  OBVIOUS
<1>2. /\ stage = "reduce" /\ revision = 1
      /\ rejected' = rejected \union r.rejected
      /\ ledger' = preserved \union Added(r)
      /\ UNCHANGED <<revision, late, plan, records, uncovered, preserved, obligations, wanted>>
      /\ \/ ~late /\ stage' \in {"revision_coverage", "carry"}
         \/ late /\ stage' = "done" /\ covered' = covered
  <2>1. CASE ReduceRevision
    BY <1>1, <2>1 DEF ReduceRevision, Reduced, Added
  <2>2. CASE ReduceLate
    BY <1>1, <2>2 DEF ReduceLate, Reduced, Added, PlacesInv, PhaseInv
  <2> QED BY <2>1, <2>2
<1>3. \E more : /\ covered' = covered \union more
                /\ \A f \in more : \A id \in f[2] : Eligible(Judged, id)
  <2>1. CASE ReduceRevision
    <3> DEFINE more == {f \in Fixed : f[2] # {}}
    <3>1. covered' = covered \union more
      BY <2>1 DEF ReduceRevision
    <3>2. PICK goals, audit : goals = JudgedGoals /\ audit = Judged
      OBVIOUS
    <3>3. Fixed = Deterministic(goals, audit, obligations, corrected)
      BY <3>2 DEF Fixed
    <3>4. \A f \in Fixed : \A id \in f[2] : Eligible(audit, id)
      BY <3>3, FixedAreEligible
    <3> QED BY <3>1, <3>2, <3>4
  <2>2. CASE ReduceLate
    <3>1. PICK none : none = {}
      OBVIOUS
    <3>2. covered' = covered \union none
      BY <2>2, <3>1 DEF ReduceLate
    <3>3. \A f \in none : \A id \in f[2] : Eligible(Judged, id)
      BY <3>1
    <3> QED BY <3>2, <3>3
  <2> QED BY <2>1, <2>2
<1>4. PICK more : /\ covered' = covered \union more
                  /\ \A f \in more : \A id \in f[2] : Eligible(Judged, id)
  BY <1>3
<1>5. /\ Ids(Others(r)) \subseteq Ids(ledger') /\ Ids(preserved) \subseteq Ids(ledger')
      /\ preserved \subseteq ledger'
  <2>1. Ids(Others(r)) \subseteq Ids(Added(r))
    BY AddedIds
  <2> QED BY <1>2, <2>1 DEF Ids
<1>6. \A id : Eligible(Judged, id) => id \in Ids(ledger')
  BY <1>1, <1>2, <1>5, EligibleIsKept
<1>7. ledger \subseteq ledger'
  <2>1. ledger = {} \/ ledger = preserved
    BY <1>2 DEF PlacesInv, PhaseInv, Auditing
  <2> QED BY <1>5, <2>1
<1>8. Ids(ledger) \subseteq Ids(ledger')
  BY <1>7 DEF Ids
<1>9. Judged' = Judged
  BY <1>2 DEF Judged, Existing
<1>10. WantedInv'
  BY <1>2, <1>8 DEF LossInv, WantedInv
<1>11. SourcesInv'
  BY <1>2 DEF LossInv, SourcesInv
<1>12. CoveredInv'
  <2>1. CoveredInv
    BY DEF LossInv
  <2>2. ASSUME NEW id, Placed(id) \/ Eligible(Judged, id) PROVE Placed(id)'
    <3>1. id \in Ids(preserved) \union Ids(ledger) => Placed(id)'
      BY <1>5, <1>8 DEF Placed
    <3>2. (\E o \in obligations : o.source = id) => Placed(id)'
      BY <1>2 DEF Placed
    <3>3. Eligible(Judged, id) => Placed(id)'
      BY <1>6 DEF Placed
    <3> QED BY <2>2, <3>1, <3>2, <3>3 DEF Placed
  <2>3. \A c \in covered' : \A id \in c[2] : Placed(id)'
    BY <1>4, <2>1, <2>2 DEF CoveredInv
  <2>4. \A c \in covered' : c[1] \in obligations' => c[2] \subseteq Ids(ledger')
    BY <1>2, <1>4, <1>6, <1>8, <2>1 DEF CoveredInv
  <2> QED BY <1>6, <1>9, <2>3, <2>4 DEF CoveredInv
<1>13. SettledInv'
  <2>1. SettledInv
    BY DEF LossInv
  <2>2. covered \subseteq covered'
    BY <1>4
  <2> QED BY <1>2, <1>7, <2>1, <2>2, SettledStays DEF SettledInv
<1>14. GroupsInv'
  BY <1>2 DEF GroupsInv, Auditing
<1>15. LateInv'
  <2> SUFFICES ASSUME stage' = "done", NEW g \in ToSet(plan), g.id \notin External(records, preserved)
               PROVE  Root(Judged, g.id) \in Ids(ledger') \union Ids(rejected')
    BY <1>2, <1>9 DEF LateInv
  <2>1. DOMAIN records = Ids(ToSet(plan))
    BY <1>2, JudgedIsOfPlan
  <2>2. g.id \in DOMAIN Judged
    <3>1. PICK audit : audit = records
      OBVIOUS
    <3>2. DOMAIN Internal(audit, preserved) = DOMAIN audit \ External(audit, preserved)
      BY InternalIs
    <3>3. g.id \in DOMAIN records
      BY <2>1 DEF Ids
    <3> QED BY <3>1, <3>2, <3>3 DEF Judged, Existing
  <2>3. Root(Judged, g.id) \in Roots(Judged)
    BY <1>2, <2>2 DEF LossInv, GroupsInv, Auditing
  <2>4. Root(Judged, g.id) \in Ids(Others(r)) \union Ids(r.rejected)
    BY <1>1, <1>2, <2>3, ReductionOfPlan
  <2>5. Ids(r.rejected) \subseteq Ids(rejected')
    BY <1>2 DEF Ids
  <2> QED BY <1>5, <2>4, <2>5
<1> QED BY <1>10, <1>11, <1>12, <1>13, <1>14, <1>15 DEF LossInv

\* The obligations nothing covers are carried into the ledger.
LEMMA CarryForwardKeepsLoss == PlacesInv /\ LossInv /\ CarryForward => LossInv'
<1> SUFFICES ASSUME PlacesInv, LossInv, CarryForward PROVE LossInv'
  OBVIOUS
<1> DEFINE more == {Required(g, "planning_incomplete") : g \in ToSet(CarriedGoals)}
<1>1. /\ stage = "carry" /\ stage' = "check" /\ ledger' = ledger \union more
      /\ UNCHANGED <<revision, late, plan, records, preserved, obligations, rejected, wanted, covered>>
  BY DEF CarryForward
<1>2. ~late /\ revision = 1
  BY <1>1 DEF PlacesInv, PhaseInv
<1>3. Ids(ledger) \subseteq Ids(ledger')
  BY <1>1 DEF Ids
<1>4. WantedInv' /\ SourcesInv'
  BY <1>1, <1>3 DEF LossInv, WantedInv, SourcesInv
<1>5. CoveredInv'
  <2>1. CoveredInv
    BY DEF LossInv
  <2>2. ASSUME NEW id, Placed(id) PROVE Placed(id)'
    BY <1>1, <1>3, <2>2 DEF Placed
  <2> QED BY <1>1, <1>3, <2>1, <2>2 DEF CoveredInv
<1>6. ASSUME NEW o \in obligations PROVE Settled(o)'
  <2>1. CASE o \in Unresolved
    <3>1. PICK g \in ToSet(CarriedGoals) : g.core = o.core /\ o.origins \subseteq g.origins
      BY <2>1, CarriedGoalsCarry
    <3>2. Required(g, "planning_incomplete") \in ledger'
      BY <1>1
    <3>3. /\ Required(g, "planning_incomplete").status = "planning_incomplete"
          /\ Required(g, "planning_incomplete").core = g.core
          /\ Required(g, "planning_incomplete").origins = g.origins
      BY DEF Required
    <3> HIDE DEF more
    <3> QED BY <3>1, <3>2, <3>3 DEF Settled, Carried
  <2>2. CASE \E c \in covered : c[1] = o
    <3>1. PICK c \in covered : c[1] = o
      BY <2>2
    <3>2. c[2] \subseteq Ids(ledger)
      BY <3>1 DEF LossInv, CoveredInv
    <3>3. \A id \in c[2] : InLedger(id)'
      BY <1>3, <3>2 DEF InLedger, Ids
    <3> QED BY <1>1, <3>1, <3>3 DEF Settled
  <2>3. CASE \E g \in ledger : g.status = "planning_incomplete" /\ SameContent(g, o)
    BY <1>1, <2>3 DEF Settled, Carried, SameContent
  <2> QED BY <2>1, <2>2, <2>3 DEF Unresolved
<1>7. SettledInv'
  BY <1>1, <1>6 DEF SettledInv
<1>8. GroupsInv' /\ LateInv'
  BY <1>1 DEF GroupsInv, LateInv, Auditing
<1> QED BY <1>4, <1>5, <1>7, <1>8 DEF LossInv

LEMMA InitLoss == Init => LossInv
<1> SUFFICES ASSUME Init PROVE LossInv
  OBVIOUS
<1>1. /\ stage = "planner" /\ late = FALSE
      /\ obligations = {} /\ wanted = {} /\ covered = {}
  BY DEF Init
<1>2. GroupsInv /\ LateInv
  BY <1>1 DEF GroupsInv, LateInv, Auditing
<1>3. WantedInv /\ SourcesInv /\ CoveredInv /\ SettledInv
  BY <1>1 DEF WantedInv, SourcesInv, CoveredInv, SettledInv
<1> QED BY <1>2, <1>3 DEF LossInv

LEMMA NextLoss == PlacesInv /\ LossInv /\ [Next]_vars => LossInv'
<1> SUFFICES ASSUME PlacesInv, LossInv, [Next]_vars PROVE LossInv'
  OBVIOUS
<1>1. CASE Malformed \/ RequestFails \/ JoinBatches \/ Check \/ UNCHANGED vars
  BY <1>1, SomeStepsAreStill, StillKeepsLoss DEF PlacesInv
<1>2. CASE PlannerReply \/ RevisionReply \/ LateProposals
  BY <1>2, BeginningsKeepLoss
<1>3. CASE AuditReply \/ CoverageReply \/ RevisionCoverageReply
  BY <1>3, AuditReplyKeepsLoss, CoverageReplyKeepsLoss, RevisionCoverageReplyKeepsLoss
<1>4. CASE ReduceInitial \/ CarryForward
  BY <1>4, ReduceInitialKeepsLoss, CarryForwardKeepsLoss
<1>5. CASE ReduceRevision \/ ReduceLate
  BY <1>5, ReductionKeepsLoss
<1> QED BY <1>1, <1>2, <1>3, <1>4, <1>5 DEF Next

\* In a finished plan every goal and part that was asked for and not rejected
\* is required, is covered by required goals, or stays required as
\* planning_incomplete, through two plans, their batches and the
\* reconciliations (_createAuditedTaskPlan, runtime.mjs:10231).
THEOREM NothingRequestedIsLost == Spec => []NothingIsLost
<1>1. PlacesInv /\ LossInv => NothingIsLost
  <2> SUFFICES ASSUME PlacesInv, LossInv, stage = "done" PROVE NothingIsLost
    BY DEF NothingIsLost
  <2>1. preserved \subseteq ledger
    BY DEF PlacesInv, PhaseInv
  <2>2. \A id : id \in Ids(preserved) \union Ids(ledger) => InLedger(id)
    BY <2>1 DEF Ids, InLedger
  <2>3. \A id \in wanted : InLedger(id) \/ \E o \in obligations : o.source = id
    BY <2>2 DEF LossInv, WantedInv
  <2>4. \A o \in obligations : Settled(o)
    BY DEF LossInv, SettledInv
  <2>5. \A c \in covered : \A id \in c[2] :
          InLedger(id) \/ \E o \in obligations : o.source = id /\ Settled(o)
    <3> SUFFICES ASSUME NEW c \in covered, NEW id \in c[2]
                 PROVE InLedger(id) \/ \E o \in obligations : o.source = id /\ Settled(o)
      OBVIOUS
    <3>1. Placed(id)
      BY DEF LossInv, CoveredInv
    <3> QED BY <2>2, <2>4, <3>1 DEF Placed
  <2>6. late => \A g \in ToSet(plan) :
          \/ g.id \in External(records, preserved)
          \/ Root(Judged, g.id) \in Ids(ledger) \union Ids(rejected)
    BY DEF LossInv, LateInv
  <2> QED BY <2>1, <2>3, <2>4, <2>5, <2>6 DEF NothingIsLost
<1> QED
  BY <1>1, InitPlaces, InitLoss, NextPlaces, NextLoss, PTL DEF Spec
=============================================================================
