------------------------- MODULE LogicWorkerProofs -------------------------
(***************************************************************************)
(* Proofs about the worker of the battles and the IO threads that feed it. *)
(*                                                                         *)
(* WInv is the inductive invariant: the types, what each player's hit      *)
(* points account for, how often a sequence number was executed in terms   *)
(* of the last one that last_seq_ holds, and where the AddRoom of a room   *)
(* is that the worker does not have yet.  The first lemmas are about the   *)
(* sums that a battle's totals are; the next say that the methods of       *)
(* TickEngine keep a battle right; then come drainPendingOps and one lemma *)
(* for the steps of each thread.                                           *)
(***************************************************************************)
EXTENDS LogicWorker, FiniteSetTheorems, WellFoundedInduction, TLAPS

\* A player is alive with the hit points that the damage has left it, or dead.
PlayerOK(b) ==
  /\ b \in BattlePlayer
  /\ IF b.alive THEN b.hp > 0 /\ b.hp + b.taken = MaxHp ELSE b.hp = 0

BattleOK(ps) == IsMap(ps, Players, BattlePlayer) /\ \A p \in DOMAIN ps : PlayerOK(ps[p])

-----------------------------------------------------------------------------
(***************************************************************************)
(* Totals.  A fold picks one player after the other, in an order that the  *)
(* definition does not tell.  Its value is that of a recursive function    *)
(* over the sets of players, which exists and does not depend on the       *)
(* order, because these sets are finite.                                   *)
(***************************************************************************)

\* A set of naturals that is not empty has a least element.
LEMMA LeastNat ==
  ASSUME NEW T \in SUBSET Nat, T # {}
  PROVE  \E m \in T : \A k \in T : m <= k
<1> DEFINE R == OpToRel(<, Nat)
<1>1. IsWellFoundedOn(R, Nat)
  BY NatLessThanWellFounded, Zenon
<1>2. \A x, y \in Nat : <<y, x>> \in R <=> y < x
  BY DEF OpToRel
<1> HIDE DEF R
<1>3. PICK x \in T : \A y \in T : ~ (<<y, x>> \in R)
  BY <1>1, WFMin
<1>4. ASSUME NEW y \in T PROVE x <= y
  <2>1. x \in Nat /\ y \in Nat /\ ~ (y < x)
    BY <1>2, <1>3
  <2> QED BY <2>1
<1> QED BY <1>4

\* The subsets of a finite set, and what removing a player does to their size.
LEMMA SmallerSubset ==
  ASSUME NEW D, IsFiniteSet(D), NEW s \in SUBSET D
  PROVE  /\ Cardinality(s) \in Nat
         /\ Cardinality(s) = 0 => s = {}
         /\ \A x \in s : /\ s \ {x} \in SUBSET D
                         /\ Cardinality(s \ {x}) \in Nat
                         /\ Cardinality(s \ {x}) < Cardinality(s)
<1>1. IsFiniteSet(s)
  BY FS_Subset
<1>2. Cardinality(s) \in Nat /\ (Cardinality(s) = 0 => s = {})
  BY <1>1, FS_CardinalityType, FS_EmptySet
<1>3. ASSUME NEW x \in s
      PROVE  Cardinality(s \ {x}) \in Nat /\ Cardinality(s \ {x}) < Cardinality(s)
  <2>1. IsFiniteSet(s \ {x}) /\ Cardinality(s \ {x}) = Cardinality(s) - 1
    BY <1>1, FS_RemoveElement
  <2>2. Cardinality(s \ {x}) \in Nat
    BY <2>1, FS_CardinalityType
  <2> QED BY <1>2, <2>1, <2>2
<1> QED BY <1>2, <1>3

\* Induction over the subsets of a finite set, with a set T of sets in place of the operator.
LEMMA SubsetInduction ==
  ASSUME NEW D, IsFiniteSet(D), NEW T,
         \A s \in SUBSET D : (\A x \in s : s \ {x} \in T) => s \in T
  PROVE  SUBSET D \subseteq T
<1> DEFINE C == {s \in SUBSET D : s \notin T}
           N == {Cardinality(s) : s \in C}
<1> SUFFICES ASSUME C # {} PROVE FALSE
  OBVIOUS
<1>1. N \in SUBSET Nat /\ N # {}
  BY SmallerSubset
<1>2. PICK m \in N : \A k \in N : m <= k
  <2> HIDE DEF N
  <2> QED BY <1>1, LeastNat
<1>3. PICK s \in C : m = Cardinality(s)
  BY <1>2
<1>4. ASSUME NEW x \in s, s \ {x} \notin T PROVE FALSE
  <2>1. /\ s \ {x} \in SUBSET D
        /\ Cardinality(s) \in Nat
        /\ Cardinality(s \ {x}) \in Nat
        /\ Cardinality(s \ {x}) < Cardinality(s)
    BY <1>3, SmallerSubset
  <2>2. Cardinality(s \ {x}) \in N
    BY <1>4, <2>1
  <2>3. m <= Cardinality(s \ {x})
    BY <1>2, <2>2
  <2> QED BY <1>3, <2>1, <2>3
<1> QED BY <1>3, <1>4

\* The element that a fold takes first.
pick(s) == CHOOSE x \in s : TRUE

LEMMA PickIn == \A s : s # {} => pick(s) \in s
BY Zenon DEF pick

\* g[s] is the sum of f over s, for each s in U, taken in the order of the fold.
Sums(g, U, f) ==
  g = [s \in U |-> IF s = {} THEN 0 ELSE f[pick(s)] + g[s \ {pick(s)}]]

\* The sums over the subsets of a finite set exist: those over the sets with n elements
\* give those over the sets with one more.
LEMMA SumsExist ==
  ASSUME NEW D, IsFiniteSet(D), NEW f \in [D -> Nat]
  PROVE  \E g : Sums(g, SUBSET D, f)
<1> DEFINE U(n) == {s \in SUBSET D : Cardinality(s) <= n}
           P(n) == \E g : Sums(g, U(n), f)
           T == {n \in Nat : ~P(n)}
<1>1. T = {}
  <2> SUFFICES ASSUME T # {} PROVE FALSE
    OBVIOUS
  <2>1. PICK n \in T : \A k \in T : n <= k
    <3>1. T \in SUBSET Nat
      OBVIOUS
    <3> HIDE DEF T
    <3> QED BY <3>1, LeastNat
  <2>2. P(0)
    <3> DEFINE g == [s \in U(0) |-> 0]
    <3>1. \A s \in U(0) : s = {}
      BY SmallerSubset
    <3>2. Sums(g, U(0), f)
      BY <3>1 DEF Sums
    <3> QED BY <3>2
  <2>3. n \in Nat /\ n - 1 \in Nat /\ ~P(n) /\ P(n - 1)
    <3>1. n \in Nat /\ n # 0
      BY <2>1, <2>2
    <3>2. n - 1 \in Nat /\ ~ (n <= n - 1)
      BY <3>1
    <3> QED BY <2>1, <3>1, <3>2
  <2> HIDE DEF P
  <2>4. PICK g : Sums(g, U(n - 1), f)
    BY <2>3 DEF P
  <2> DEFINE h == [s \in U(n) |-> IF s = {} THEN 0 ELSE f[pick(s)] + g[s \ {pick(s)}]]
  <2>5. ASSUME NEW s \in U(n), s # {} PROVE h[s \ {pick(s)}] = g[s \ {pick(s)}]
    <3> DEFINE u == s \ {pick(s)}
    <3>1. /\ u \in SUBSET D /\ Cardinality(u) \in Nat
          /\ Cardinality(s) \in Nat /\ Cardinality(u) < Cardinality(s)
      BY <2>5, PickIn, SmallerSubset
    <3>2. Cardinality(u) <= n - 1 /\ Cardinality(u) <= n
      BY <2>3, <3>1
    <3>3. u \in U(n - 1) /\ u \in U(n)
      BY <3>1, <3>2
    <3>4. g[u] = IF u = {} THEN 0 ELSE f[pick(u)] + g[u \ {pick(u)}]
      BY <2>4, <3>3 DEF Sums
    <3> QED BY <3>3, <3>4
  <2>6. h = [s \in U(n) |-> IF s = {} THEN 0 ELSE f[pick(s)] + h[s \ {pick(s)}]]
    BY <2>5
  <2>7. P(n)
    BY <2>6 DEF P, Sums
  <2> QED BY <2>3, <2>7
<1>2. Cardinality(D) \in Nat
  BY FS_CardinalityType
<1>3. P(Cardinality(D))
  BY <1>1, <1>2
<1>4. U(Cardinality(D)) = SUBSET D
  BY FS_Subset
<1> QED BY <1>3, <1>4

\* total is the sum over the whole domain.
LEMMA TotalIs ==
  ASSUME NEW D, IsFiniteSet(D), NEW f \in [D -> Nat]
  PROVE  \E g : total(f) = g[D] /\ Sums(g, SUBSET D, f)
<1> DEFINE g == CHOOSE h : h = [s \in SUBSET D |-> IF s = {} THEN 0
                                 ELSE f[CHOOSE x \in s : TRUE] + h[s \ {CHOOSE x \in s : TRUE}]]
<1>1. total(f) = g[D]
  BY DEF total, FoldFunction, FoldFunctionOnSet, MapThenFoldSet
<1>2. \E h : h = [s \in SUBSET D |-> IF s = {} THEN 0
                                 ELSE f[CHOOSE x \in s : TRUE] + h[s \ {CHOOSE x \in s : TRUE}]]
  <2>1. PICK h : Sums(h, SUBSET D, f)
    BY SumsExist
  <2>2. h = [s \in SUBSET D |-> IF s = {} THEN 0
                                 ELSE f[CHOOSE x \in s : TRUE] + h[s \ {CHOOSE x \in s : TRUE}]]
    BY <2>1, Zenon DEF Sums, pick
  <2> QED BY <2>2, Zenon
<1>3. g = [s \in SUBSET D |-> IF s = {} THEN 0
                                 ELSE f[CHOOSE x \in s : TRUE] + g[s \ {CHOOSE x \in s : TRUE}]]
  BY <1>2, Zenon
<1> HIDE DEF g
<1>4. Sums(g, SUBSET D, f)
  BY <1>3, Zenon DEF Sums, pick
<1> QED BY <1>1, <1>4
\* A sum of naturals is a natural.
LEMMA SumsType ==
  ASSUME NEW D, IsFiniteSet(D), NEW f \in [D -> Nat], NEW g, Sums(g, SUBSET D, f)
  PROVE  \A s \in SUBSET D : g[s] \in Nat
<1> DEFINE T == {s \in SUBSET D : g[s] \in Nat}
<1>1. ASSUME NEW s \in SUBSET D, \A x \in s : s \ {x} \in T PROVE s \in T
  <2>1. g[s] = IF s = {} THEN 0 ELSE f[pick(s)] + g[s \ {pick(s)}]
    BY DEF Sums
  <2>2. ASSUME s # {} PROVE f[pick(s)] \in Nat /\ g[s \ {pick(s)}] \in Nat
    BY <1>1, <2>2, PickIn
  <2> QED BY <2>1, <2>2
<1>2. SUBSET D \subseteq T
  <2> HIDE DEF T
  <2> QED BY <1>1, SubsetInduction
<1> QED BY <1>2

\* Any element of a set may come first in its sum.
AnyOrder(g, D, f) == \A s \in SUBSET D : \A p \in s : g[s] = f[p] + g[s \ {p}]

\* The order in which a sum is taken does not matter.
LEMMA SumsAnyOrder ==
  ASSUME NEW D, IsFiniteSet(D), NEW f \in [D -> Nat], NEW g, Sums(g, SUBSET D, f)
  PROVE  AnyOrder(g, D, f)
<1> DEFINE T == {s \in SUBSET D : \A p \in s : g[s] = f[p] + g[s \ {p}]}
<1>1. ASSUME NEW s \in SUBSET D, \A x \in s : s \ {x} \in T PROVE s \in T
  <2> SUFFICES ASSUME NEW p \in s PROVE g[s] = f[p] + g[s \ {p}]
    OBVIOUS
  <2>1. PICK x \in s : x = pick(s)
    BY PickIn
  <2>2. g[s] = f[x] + g[s \ {x}]
    BY <2>1 DEF Sums
  <2>3. CASE p # x
    <3> DEFINE u == (s \ {x}) \ {p}
    <3>1. g[s \ {x}] = f[p] + g[u]
      BY <1>1, <2>3
    <3>2. (s \ {p}) \ {x} = u
      OBVIOUS
    <3>3. g[s \ {p}] = f[x] + g[u]
      BY <1>1, <2>3, <3>2
    <3>4. u \in SUBSET D /\ f[p] \in Nat /\ f[x] \in Nat
      OBVIOUS
    <3>5. g[u] \in Nat
      BY <3>4, SumsType
    <3> HIDE DEF u
    <3> QED BY <2>2, <3>1, <3>3, <3>4, <3>5
  <2> QED BY <2>2, <2>3
<1>2. SUBSET D \subseteq T
  <2> HIDE DEF T
  <2> QED BY <1>1, SubsetInduction
<1> QED BY <1>2 DEF AnyOrder

\* Functions that agree on a set have the same sum over it.
LEMMA SumsAgree ==
  ASSUME NEW D, IsFiniteSet(D), NEW f, NEW g, Sums(g, SUBSET D, f), NEW e, NEW h, Sums(h, SUBSET D, e),
         NEW v \in SUBSET D, \A q \in v : f[q] = e[q]
  PROVE  g[v] = h[v]
<1> DEFINE T == {s \in SUBSET D : s \subseteq v => g[s] = h[s]}
<1>1. ASSUME NEW s \in SUBSET D, \A x \in s : s \ {x} \in T PROVE s \in T
  <2>1. /\ g[s] = IF s = {} THEN 0 ELSE f[pick(s)] + g[s \ {pick(s)}]
        /\ h[s] = IF s = {} THEN 0 ELSE e[pick(s)] + h[s \ {pick(s)}]
    BY DEF Sums
  <2>2. ASSUME s # {}, s \subseteq v
        PROVE  f[pick(s)] = e[pick(s)] /\ g[s \ {pick(s)}] = h[s \ {pick(s)}]
    BY <1>1, <2>2, PickIn
  <2> QED BY <2>1, <2>2
<1>2. SUBSET D \subseteq T
  <2> HIDE DEF T
  <2> QED BY <1>1, SubsetInduction
<1> QED BY <1>2

\* The total of naturals is a natural; changing one entry changes it by as much.
LEMMA TotalChange ==
  ASSUME NEW D, IsFiniteSet(D), NEW f \in [D -> Nat], NEW e \in [D -> Nat],
         NEW p \in D, \A q \in D \ {p} : e[q] = f[q]
  PROVE  total(f) \in Nat /\ total(e) \in Nat /\ total(e) + f[p] = total(f) + e[p]
<1>1. PICK g : total(f) = g[D] /\ Sums(g, SUBSET D, f)
  BY TotalIs
<1>2. PICK h : total(e) = h[D] /\ Sums(h, SUBSET D, e)
  BY TotalIs
<1>3. g[D] \in Nat /\ h[D] \in Nat /\ g[D \ {p}] \in Nat
  BY <1>1, <1>2, SumsType
<1>4. g[D] = f[p] + g[D \ {p}] /\ h[D] = e[p] + h[D \ {p}]
  <2>1. AnyOrder(g, D, f) /\ AnyOrder(h, D, e)
    BY <1>1, <1>2, SumsAnyOrder
  <2> QED BY <2>1 DEF AnyOrder
<1>5. g[D \ {p}] = h[D \ {p}]
  <2>1. D \ {p} \in SUBSET D /\ \A q \in D \ {p} : f[q] = e[q]
    OBVIOUS
  <2> QED BY <1>1, <1>2, <2>1, SumsAgree
<1>6. f[p] \in Nat /\ e[p] \in Nat
  OBVIOUS
<1> QED BY <1>1, <1>2, <1>3, <1>4, <1>5, <1>6

-----------------------------------------------------------------------------
(***************************************************************************)
(* TickEngine.                                                             *)
(***************************************************************************)

\* A player starts a battle alive and unhurt.
LEMMA NewPlayerOK == PlayerOK(newBattlePlayer)
BY StatsAssumption DEF PlayerOK, BattlePlayer, newBattlePlayer

\* A hit costs at least one hit point, whatever the defence.
LEMMA CalcDamageType == calcDamage(Atk, Def) \in Nat \ {0}
BY StatsAssumption DEF calcDamage

\* The product of two natural numbers.
LEMMA ProductType ==
  ASSUME NEW x \in Nat, NEW y \in Nat
  PROVE  x * y \in Nat
OBVIOUS

\* A skill's damage may round down to nothing, but never heals.
LEMMA SkillDamageType ==
  ASSUME NEW id \in DOMAIN kSkills
  PROVE  skillDamage(id) \in Nat
<1>1. kSkills[id].ratio \in Nat
  BY SkillsAssumption
<1>2. calcDamage(Atk, Def) * kSkills[id].ratio \in Nat
  BY <1>1, CalcDamageType, ProductType
<1> QED BY <1>2 DEF skillDamage

\* The target's side of a hit: what is left is what the damage has left, and hit points
\* that reach zero end the player.
LEMMA WoundOK ==
  ASSUME NEW b, PlayerOK(b), NEW dmg \in Nat
  PROVE  PlayerOK(wound(b, dmg))
<1>1. /\ b.hp \in 0 .. MaxHp /\ b.alive \in BOOLEAN /\ b.cooldowns \in [DOMAIN kSkills -> Nat]
      /\ b.kills \in Nat /\ b.deaths \in Nat /\ b.dealt \in Nat /\ b.taken \in Nat
      /\ IF b.alive THEN b.hp > 0 /\ b.hp + b.taken = MaxHp ELSE b.hp = 0
  BY DEF PlayerOK, BattlePlayer
<1>2. CASE b.hp <= dmg
  <2>a. (b.hp > dmg /\ b.alive) = FALSE
    BY <1>1, <1>2, StatsAssumption
  <2>1. wound(b, dmg) = [hp |-> 0, alive |-> FALSE, cooldowns |-> b.cooldowns, kills |-> b.kills,
                         deaths |-> b.deaths + 1, dealt |-> b.dealt, taken |-> b.taken + dmg]
    BY <1>2, <2>a DEF wound
  <2> QED BY <1>1, <2>1, StatsAssumption DEF PlayerOK, BattlePlayer
<1>3. CASE ~(b.hp <= dmg)
  <2>1. b.alive = TRUE /\ b.hp - dmg \in 0 .. MaxHp /\ b.hp - dmg > 0
    BY <1>1, <1>3, StatsAssumption
  <2>a. (b.hp > dmg /\ b.alive) = TRUE
    BY <1>1, <1>3, <2>1, StatsAssumption
  <2>2. wound(b, dmg) = [hp |-> b.hp - dmg, alive |-> TRUE, cooldowns |-> b.cooldowns,
                         kills |-> b.kills, deaths |-> b.deaths, dealt |-> b.dealt,
                         taken |-> b.taken + dmg]
    BY <1>3, <2>a DEF wound
  <2> QED BY <1>1, <2>1, <2>2, StatsAssumption DEF PlayerOK, BattlePlayer
<1> QED BY <1>2, <1>3

\* The attacker's side of a hit leaves its hit points alone.
LEMMA CreditOK ==
  ASSUME NEW b, PlayerOK(b), NEW dmg \in Nat, NEW killed
  PROVE  PlayerOK(credit(b, dmg, killed))
BY StatsAssumption DEF PlayerOK, BattlePlayer, credit

\* Replacing a player of a battle.
LEMMA PutBattleOK ==
  ASSUME NEW ps, BattleOK(ps), NEW p \in Players, NEW b, PlayerOK(b)
  PROVE  BattleOK(Put(ps, p, b)) /\ DOMAIN Put(ps, p, b) = DOMAIN ps \cup {p}
BY DEF BattleOK, IsMap, Put, PlayerOK

\* A hit keeps the battle right, also when a player hits itself.
LEMMA HitOK ==
  ASSUME NEW ps, BattleOK(ps), NEW a \in DOMAIN ps, NEW t \in DOMAIN ps, NEW dmg \in Nat
  PROVE  BattleOK(hit(ps, a, t, dmg))
<1> DEFINE ws == Put(ps, t, wound(ps[t], dmg))
<1>1. a \in Players /\ t \in Players /\ PlayerOK(ps[t])
  BY DEF BattleOK, IsMap
<1>2. BattleOK(ws) /\ a \in DOMAIN ws
  <2>1. PlayerOK(wound(ps[t], dmg))
    BY <1>1, WoundOK
  <2>2. BattleOK(ws) /\ DOMAIN ws = DOMAIN ps \cup {t}
    BY <1>1, <2>1, PutBattleOK
  <2> QED BY <2>2
<1> HIDE DEF ws
<1>3. PlayerOK(credit(ws[a], dmg, ps[t].hp <= dmg))
  BY <1>2, CreditOK DEF BattleOK
<1>4. BattleOK(Put(ws, a, credit(ws[a], dmg, ps[t].hp <= dmg)))
  BY <1>1, <1>2, <1>3, PutBattleOK
<1> QED BY <1>4 DEF hit, ws

\* Setting the cooldown of a skill.
LEMMA SetCooldownOK ==
  ASSUME NEW b, PlayerOK(b), NEW id \in DOMAIN kSkills
  PROVE  PlayerOK(setCooldown(b, id))
<1>1. kSkills[id].cooldown \in Nat
  BY SkillsAssumption
<1>2. [b.cooldowns EXCEPT ![id] = kSkills[id].cooldown] \in [DOMAIN kSkills -> Nat]
  BY <1>1 DEF PlayerOK, BattlePlayer
<1> QED BY <1>2 DEF PlayerOK, BattlePlayer, setCooldown

\* A command of a player of the battle keeps the battle right.
LEMMA ExecuteOK ==
  ASSUME NEW ps, BattleOK(ps), NEW cmd \in Command, cmd.player \in DOMAIN ps, NEW near \in BOOLEAN
  PROVE  BattleOK(execute(ps, cmd, near))
<1> DEFINE a == cmd.player
           t == cmd.target
<1>1. cmd.type \in {"MOVE", "ATTACK", "SKILL"} /\ a \in Players /\ PlayerOK(ps[a])
  BY DEF Command, BattleOK
<1>2. CASE cmd.type = "MOVE"
  BY <1>2 DEF execute
<1>3. CASE cmd.type = "ATTACK"
  <2>1. t \in DOMAIN ps => BattleOK(processAttack(ps, a, t, near))
    BY HitOK, CalcDamageType DEF processAttack
  <2> QED BY <1>3, <2>1 DEF execute
<1>4. CASE cmd.type = "SKILL"
  <2> DEFINE id == cmd.skill
             qs == Put(ps, a, setCooldown(ps[a], id))
  <2>1. ASSUME id \in DOMAIN kSkills PROVE BattleOK(qs) /\ DOMAIN qs = DOMAIN ps
    <3>1. PlayerOK(setCooldown(ps[a], id))
      BY <1>1, <2>1, SetCooldownOK
    <3>2. BattleOK(qs) /\ DOMAIN qs = DOMAIN ps \cup {a}
      BY <1>1, <3>1, PutBattleOK
    <3> QED BY <3>2
  <2> HIDE DEF qs
  <2>2. ASSUME id \in DOMAIN kSkills, t \in DOMAIN ps PROVE BattleOK(hit(qs, a, t, skillDamage(id)))
    BY <2>1, <2>2, HitOK, SkillDamageType
  <2>3. BattleOK(processSkill(ps, a, t, id, near))
    BY <2>1, <2>2 DEF processSkill, qs
  <2> QED BY <1>4, <2>3 DEF execute
<1> QED BY <1>1, <1>2, <1>3, <1>4

\* The end of a tick moves the cooldowns only.
LEMMA CooldownsOK ==
  ASSUME NEW ps, BattleOK(ps)
  PROVE  BattleOK(updateCooldowns(ps))
<1>1. ASSUME NEW p \in DOMAIN ps PROVE PlayerOK(coolDown(ps[p]))
  <2> DEFINE b == ps[p]
             cs == [k \in DOMAIN kSkills |-> IF b.cooldowns[k] > 1 THEN b.cooldowns[k] - 1 ELSE 0]
  <2>1. PlayerOK(b)
    BY DEF BattleOK
  <2>2. cs \in [DOMAIN kSkills -> Nat]
    BY <2>1 DEF PlayerOK, BattlePlayer
  <2> HIDE DEF cs
  <2>3. PlayerOK([hp |-> b.hp, alive |-> b.alive, cooldowns |-> cs, kills |-> b.kills,
                  deaths |-> b.deaths, dealt |-> b.dealt, taken |-> b.taken])
    BY <2>1, <2>2 DEF PlayerOK, BattlePlayer
  <2> QED BY <2>3 DEF coolDown, cs
<1> QED BY <1>1 DEF BattleOK, IsMap, updateCooldowns, PlayerOK

-----------------------------------------------------------------------------
(***************************************************************************)
(* The two sides of the ledger.                                            *)
(***************************************************************************)

Dealt(ps)  == [p \in DOMAIN ps |-> ps[p].dealt]
Taken(ps)  == [p \in DOMAIN ps |-> ps[p].taken]
Kills(ps)  == [p \in DOMAIN ps |-> ps[p].kills]
Deaths(ps) == [p \in DOMAIN ps |-> ps[p].deaths]

\* What the players of a battle have dealt they have taken, and each kill is a death.
Balanced(ps) == total(Dealt(ps)) = total(Taken(ps)) /\ total(Kills(ps)) = total(Deaths(ps))

\* Whatever leaves the four columns alone leaves the balance.
LEMMA SameBalance ==
  ASSUME NEW ps, Balanced(ps), NEW qs, DOMAIN qs = DOMAIN ps,
         \A p \in DOMAIN ps : /\ qs[p].dealt = ps[p].dealt /\ qs[p].taken = ps[p].taken
                              /\ qs[p].kills = ps[p].kills /\ qs[p].deaths = ps[p].deaths
  PROVE  Balanced(qs)
<1>1. Dealt(qs) = Dealt(ps) /\ Taken(qs) = Taken(ps)
  BY DEF Dealt, Taken
<1>2. Kills(qs) = Kills(ps) /\ Deaths(qs) = Deaths(ps)
  BY DEF Kills, Deaths
<1> QED BY <1>1, <1>2 DEF Balanced

\* A new battle: all columns are the same.
LEMMA NewBattleBalanced ==
  ASSUME NEW P
  PROVE  Balanced([p \in P |-> newBattlePlayer])
<1> DEFINE ps == [p \in P |-> newBattlePlayer]
<1>1. Dealt(ps) = Taken(ps) /\ Kills(ps) = Deaths(ps)
  BY DEF Dealt, Taken, Kills, Deaths, newBattlePlayer
<1> QED BY <1>1 DEF Balanced

\* The columns of a battle are functions into the naturals, over a finite set.
LEMMA ColumnsType ==
  ASSUME NEW ps, BattleOK(ps)
  PROVE  /\ IsFiniteSet(DOMAIN ps)
         /\ Dealt(ps) \in [DOMAIN ps -> Nat] /\ Taken(ps) \in [DOMAIN ps -> Nat]
         /\ Kills(ps) \in [DOMAIN ps -> Nat] /\ Deaths(ps) \in [DOMAIN ps -> Nat]
<1>1. DOMAIN ps \in SUBSET Players /\ \A p \in DOMAIN ps : ps[p] \in BattlePlayer
  BY DEF BattleOK, IsMap, PlayerOK
<1>2. IsFiniteSet(DOMAIN ps)
  BY <1>1, PlayersAssumption, FS_Subset
<1>3. \A p \in DOMAIN ps : ps[p].dealt \in Nat /\ ps[p].taken \in Nat /\ ps[p].kills \in Nat /\ ps[p].deaths \in Nat
  BY <1>1 DEF BattlePlayer
<1> QED BY <1>2, <1>3 DEF Dealt, Taken, Kills, Deaths

\* Column e is column f with n more for player p.
Adds(e, f, D, p, n) ==
  /\ f \in [D -> Nat] /\ e \in [D -> Nat]
  /\ p \in D
  /\ e[p] = f[p] + n
  /\ \A q \in D \ {p} : e[q] = f[q]

\* Adding n to one entry of a column adds n to its total.
LEMMA TotalAdds ==
  ASSUME NEW D, IsFiniteSet(D), NEW f, NEW e, NEW p, NEW n \in Nat, Adds(e, f, D, p, n)
  PROVE  total(f) \in Nat /\ total(e) = total(f) + n
<1>1. total(f) \in Nat /\ total(e) \in Nat /\ total(e) + f[p] = total(f) + e[p] /\ e[p] = f[p] + n
  BY TotalChange DEF Adds
<1>2. f[p] \in Nat
  BY DEF Adds
<1> QED BY <1>1, <1>2

\* A hit writes the same number on both sides of the ledger, also when both are one player.
LEMMA HitBalanced ==
  ASSUME NEW ps, BattleOK(ps), Balanced(ps),
         NEW a \in DOMAIN ps, NEW t \in DOMAIN ps, NEW dmg \in Nat
  PROVE  Balanced(hit(ps, a, t, dmg))
<1> DEFINE D  == DOMAIN ps
           n  == IF ps[t].hp <= dmg THEN 1 ELSE 0
           ws == Put(ps, t, wound(ps[t], dmg))
           qs == Put(ws, a, credit(ws[a], dmg, ps[t].hp <= dmg))
<1>1. BattleOK(qs) /\ qs = hit(ps, a, t, dmg)
  BY HitOK DEF hit
<1>2. n \in Nat /\ ps[t].deaths \in Nat /\ \A p \in D : ps[p].kills \in Nat
  BY DEF BattleOK, PlayerOK, BattlePlayer
<1>3. DOMAIN ws = D /\ ws[t] = wound(ps[t], dmg) /\ \A p \in D \ {t} : ws[p] = ps[p]
  BY DEF Put
<1>4. /\ ws[t].dealt = ps[t].dealt /\ ws[t].taken = ps[t].taken + dmg
      /\ ws[t].kills = ps[t].kills /\ ws[t].deaths = ps[t].deaths + n
  BY <1>2, <1>3 DEF wound
<1> HIDE DEF ws
<1>5. /\ DOMAIN qs = D /\ qs[a] = credit(ws[a], dmg, ps[t].hp <= dmg)
      /\ \A p \in D \ {a} : qs[p] = ws[p]
  BY <1>3 DEF Put
<1>6. \A p \in D : ws[p].kills = ps[p].kills /\ ws[p].dealt = ps[p].dealt
  BY <1>3, <1>4
<1>7. /\ qs[a].dealt = ws[a].dealt + dmg /\ qs[a].taken = ws[a].taken
      /\ qs[a].kills = ws[a].kills + n /\ qs[a].deaths = ws[a].deaths
  BY <1>2, <1>5, <1>6 DEF credit
<1> HIDE DEF qs, n
<1>8. /\ \A p \in D : qs[p].taken = ws[p].taken /\ qs[p].deaths = ws[p].deaths
      /\ \A p \in D \ {a} : qs[p].dealt = ps[p].dealt /\ qs[p].kills = ps[p].kills
  BY <1>5, <1>6, <1>7
<1>9. /\ IsFiniteSet(D) /\ a \in D /\ t \in D
      /\ Dealt(ps) \in [D -> Nat] /\ Taken(ps) \in [D -> Nat] /\ Kills(ps) \in [D -> Nat] /\ Deaths(ps) \in [D -> Nat]
      /\ Dealt(qs) \in [D -> Nat] /\ Taken(qs) \in [D -> Nat] /\ Kills(qs) \in [D -> Nat] /\ Deaths(qs) \in [D -> Nat]
  BY <1>1, <1>5, ColumnsType
<1>10. total(Dealt(ps)) \in Nat /\ total(Dealt(qs)) = total(Dealt(ps)) + dmg
  <2>1. Adds(Dealt(qs), Dealt(ps), D, a, dmg)
    BY <1>5, <1>6, <1>7, <1>8, <1>9 DEF Dealt, Adds
  <2> QED BY <1>9, <2>1, TotalAdds
<1>11. total(Taken(ps)) \in Nat /\ total(Taken(qs)) = total(Taken(ps)) + dmg
  <2>1. Adds(Taken(qs), Taken(ps), D, t, dmg)
    BY <1>3, <1>4, <1>5, <1>8, <1>9 DEF Taken, Adds
  <2> QED BY <1>9, <2>1, TotalAdds
<1>12. total(Kills(ps)) \in Nat /\ total(Kills(qs)) = total(Kills(ps)) + n
  <2>1. Adds(Kills(qs), Kills(ps), D, a, n)
    BY <1>5, <1>6, <1>7, <1>8, <1>9 DEF Kills, Adds
  <2> QED BY <1>2, <1>9, <2>1, TotalAdds
<1>13. total(Deaths(ps)) \in Nat /\ total(Deaths(qs)) = total(Deaths(ps)) + n
  <2>1. Adds(Deaths(qs), Deaths(ps), D, t, n)
    BY <1>3, <1>4, <1>5, <1>8, <1>9 DEF Deaths, Adds
  <2> QED BY <1>2, <1>9, <2>1, TotalAdds
<1>14. Balanced(qs)
  BY <1>10, <1>11, <1>12, <1>13 DEF Balanced
<1> QED BY <1>1, <1>14

\* A command keeps the balance.
LEMMA ExecuteBalanced ==
  ASSUME NEW ps, BattleOK(ps), Balanced(ps),
         NEW cmd \in Command, cmd.player \in DOMAIN ps, NEW near \in BOOLEAN
  PROVE  Balanced(execute(ps, cmd, near))
<1> DEFINE a == cmd.player
           t == cmd.target
<1>1. cmd.type \in {"MOVE", "ATTACK", "SKILL"} /\ a \in Players /\ PlayerOK(ps[a])
  BY DEF Command, BattleOK
<1>2. CASE cmd.type = "MOVE"
  BY <1>2 DEF execute
<1>3. CASE cmd.type = "ATTACK"
  <2>1. t \in DOMAIN ps => Balanced(processAttack(ps, a, t, near))
    BY HitBalanced, CalcDamageType DEF processAttack
  <2> QED BY <1>3, <2>1 DEF execute
<1>4. CASE cmd.type = "SKILL"
  <2> DEFINE id == cmd.skill
             qs == Put(ps, a, setCooldown(ps[a], id))
  <2>1. ASSUME id \in DOMAIN kSkills PROVE BattleOK(qs) /\ DOMAIN qs = DOMAIN ps
    <3>1. PlayerOK(setCooldown(ps[a], id))
      BY <1>1, <2>1, SetCooldownOK
    <3>2. BattleOK(qs) /\ DOMAIN qs = DOMAIN ps \cup {a}
      BY <1>1, <3>1, PutBattleOK
    <3> QED BY <3>2
  <2>2. Balanced(qs)
    <3>1. DOMAIN qs = DOMAIN ps /\ qs[a] = setCooldown(ps[a], id) /\ \A p \in DOMAIN ps \ {a} : qs[p] = ps[p]
      BY DEF Put
    <3> HIDE DEF qs
    <3>2. /\ qs[a].dealt = ps[a].dealt /\ qs[a].taken = ps[a].taken
          /\ qs[a].kills = ps[a].kills /\ qs[a].deaths = ps[a].deaths
      BY <3>1 DEF setCooldown
    <3>3. \A p \in DOMAIN ps : /\ qs[p].dealt = ps[p].dealt /\ qs[p].taken = ps[p].taken
                               /\ qs[p].kills = ps[p].kills /\ qs[p].deaths = ps[p].deaths
      BY <3>1, <3>2
    <3> QED BY <3>1, <3>3, SameBalance
  <2> HIDE DEF qs
  <2>3. ASSUME id \in DOMAIN kSkills, t \in DOMAIN ps PROVE Balanced(hit(qs, a, t, skillDamage(id)))
    BY <2>1, <2>2, <2>3, HitBalanced, SkillDamageType
  <2>4. Balanced(processSkill(ps, a, t, id, near))
    BY <2>2, <2>3 DEF processSkill, qs
  <2> QED BY <1>4, <2>4 DEF execute
<1> QED BY <1>1, <1>2, <1>3, <1>4

\* So does the end of a tick.
LEMMA CooldownsBalanced ==
  ASSUME NEW ps, Balanced(ps)
  PROVE  Balanced(updateCooldowns(ps))
<1> DEFINE qs == updateCooldowns(ps)
<1>1. DOMAIN qs = DOMAIN ps /\ \A p \in DOMAIN ps : qs[p] = coolDown(ps[p])
  BY DEF updateCooldowns
<1> HIDE DEF qs
<1>2. \A p \in DOMAIN ps : /\ qs[p].dealt = ps[p].dealt /\ qs[p].taken = ps[p].taken
                           /\ qs[p].kills = ps[p].kills /\ qs[p].deaths = ps[p].deaths
  BY <1>1 DEF coolDown
<1>3. Balanced(qs)
  BY <1>1, <1>2, SameBalance
<1> QED BY <1>3 DEF qs

-----------------------------------------------------------------------------
(***************************************************************************)
(* The rooms of the worker.                                                *)
(***************************************************************************)

RoomOK(room) ==
  /\ room = [players |-> room.players, lost |-> room.lost]
  /\ BattleOK(room.players) /\ Balanced(room.players)
  /\ IsMap(room.lost, Players, Ages)

RoomsOK(rs) == DOMAIN rs \subseteq Rooms /\ \A r \in DOMAIN rs : RoomOK(rs[r])

\* Adding or replacing a room.
LEMMA PutRoomOK ==
  ASSUME NEW rs, RoomsOK(rs), NEW r \in Rooms, NEW room, RoomOK(room)
  PROVE  RoomsOK(Put(rs, r, room)) /\ DOMAIN Put(rs, r, room) = DOMAIN rs \cup {r}
BY DEF RoomsOK, Put

\* A room with new players, new marks, or both.
LEMMA MakeRoomOK ==
  ASSUME NEW ps, BattleOK(ps), Balanced(ps), NEW lost, IsMap(lost, Players, Ages)
  PROVE  RoomOK([players |-> ps, lost |-> lost])
BY DEF RoomOK

\* An operation keeps the rooms right and removes none; an AddRoom brings its room.
LEMMA ApplyOpOK ==
  ASSUME NEW rs, RoomsOK(rs), NEW op \in Op
  PROVE  /\ RoomsOK(applyOp(rs, op))
         /\ DOMAIN rs \subseteq DOMAIN applyOp(rs, op)
         /\ \A r : carries(op, r) => r \in DOMAIN applyOp(rs, op)
<1>1. op.type \in {"AddRoom", "MarkDisconnected"} /\ op.room \in Rooms /\ op.players \subseteq Players
  BY DEF Op
<1>2. CASE op.type = "AddRoom"
  <2> DEFINE ps   == [p \in op.players |-> newBattlePlayer]
             room == [players |-> ps, lost |-> EmptyMap]
  <2>1. BattleOK(ps) /\ Balanced(ps)
    BY <1>1, NewPlayerOK, NewBattleBalanced DEF BattleOK, IsMap, PlayerOK
  <2>2. IsMap(EmptyMap, Players, Ages)
    BY DEF IsMap, EmptyMap
  <2>3. RoomOK(room)
    BY <2>1, <2>2, MakeRoomOK
  <2>4. applyOp(rs, op) = Put(rs, op.room, room)
    BY <1>2 DEF applyOp
  <2> HIDE DEF room
  <2>5. RoomsOK(Put(rs, op.room, room)) /\ DOMAIN Put(rs, op.room, room) = DOMAIN rs \cup {op.room}
    BY <1>1, <2>3, PutRoomOK
  <2> QED BY <2>4, <2>5 DEF carries
<1>3. CASE op.type = "MarkDisconnected" /\ op.room \in DOMAIN rs
  <2> DEFINE old  == rs[op.room]
             lost == [p \in DOMAIN old.lost \cup op.players |-> IF p \in op.players THEN 0 ELSE old.lost[p]]
             room == [players |-> old.players, lost |-> lost]
  <2>1. BattleOK(old.players) /\ Balanced(old.players) /\ IsMap(old.lost, Players, Ages)
    BY <1>3 DEF RoomsOK, RoomOK
  <2>2. 0 \in Ages
    BY WorkerAssumption DEF Ages
  <2>3. IsMap(lost, Players, Ages)
    BY <1>1, <2>1, <2>2 DEF IsMap
  <2> HIDE DEF lost
  <2>4. RoomOK(room)
    BY <2>1, <2>3, MakeRoomOK
  <2>5. applyOp(rs, op) = Put(rs, op.room, room)
    BY <1>3 DEF applyOp, lost
  <2> HIDE DEF room
  <2>6. RoomsOK(Put(rs, op.room, room)) /\ DOMAIN Put(rs, op.room, room) = DOMAIN rs \cup {op.room}
    BY <1>1, <2>4, PutRoomOK
  <2> QED BY <1>3, <2>5, <2>6 DEF carries
<1>4. CASE op.type = "MarkDisconnected" /\ op.room \notin DOMAIN rs
  BY <1>4 DEF applyOp, carries
<1> QED BY <1>1, <1>2, <1>3, <1>4

\* Who has been away too long is out of the battle, and its hit points are gone.
LEMMA DropOverdueOK ==
  ASSUME NEW room, RoomOK(room)
  PROVE  RoomOK(dropOverdue(room))
<1> DEFINE ps   == [p \in DOMAIN room.players |->
                     IF p \in overdue(room) THEN forfeit(room.players[p]) ELSE room.players[p]]
           lost == Erase(room.lost, overdue(room))
<1>1. ASSUME NEW p \in DOMAIN room.players PROVE PlayerOK(forfeit(room.players[p]))
  <2>1. PlayerOK(room.players[p])
    BY DEF RoomOK, BattleOK
  <2> QED BY <2>1, StatsAssumption DEF PlayerOK, BattlePlayer, forfeit
<1>2. BattleOK(ps)
  BY <1>1 DEF RoomOK, BattleOK, IsMap, PlayerOK
<1>3. IsMap(lost, Players, Ages)
  BY DEF RoomOK, IsMap, Erase
<1>4. Balanced(ps)
  <2>1. DOMAIN ps = DOMAIN room.players /\ Balanced(room.players)
    BY DEF RoomOK
  <2>2. ASSUME NEW p \in DOMAIN room.players
        PROVE  LET b == room.players[p]
               IN  /\ ps[p].dealt = b.dealt /\ ps[p].taken = b.taken
                   /\ ps[p].kills = b.kills /\ ps[p].deaths = b.deaths
    BY DEF forfeit
  <2> HIDE DEF ps
  <2> QED BY <2>1, <2>2, SameBalance
<1> HIDE DEF ps, lost
<1>5. RoomOK([players |-> ps, lost |-> lost])
  BY <1>2, <1>3, <1>4, MakeRoomOK
<1> QED BY <1>5 DEF dropOverdue, ps, lost

\* A second more.
LEMMA OlderOK ==
  ASSUME NEW room, RoomOK(room)
  PROVE  RoomOK([players |-> room.players, lost |-> [p \in DOMAIN room.lost |-> older(room.lost[p])]])
<1>1. \A age \in Ages : older(age) \in Ages
  BY WorkerAssumption DEF Ages, older
<1>2. IsMap([p \in DOMAIN room.lost |-> older(room.lost[p])], Players, Ages)
  BY <1>1 DEF RoomOK, IsMap
<1> QED BY <1>2, MakeRoomOK DEF RoomOK

-----------------------------------------------------------------------------
(***************************************************************************)
(* The inductive invariant.                                                *)
(***************************************************************************)

IOState == [pc : {"idle", "count", "drain", "apply", "start"}, op : Op \cup {NoOp}]

WTypes ==
  /\ pending \in Seq(Op)
  /\ commands \in Seq(Command)
  /\ IsMap(seqs, Players, 1 .. MaxSeq)
  /\ IsMap(assigned, Rooms, SUBSET Players)
  /\ started \in BOOLEAN
  /\ IsWorker(worker)
  /\ io \in [IOThreads -> IOState]
  /\ \A t \in IOThreads : io[t].pc = "apply" => io[t].op \in Op
  /\ applied \in [Players -> [1 .. MaxSeq -> Nat]]

\* A sequence number that has been executed is not above the one last_seq_ holds, and was
\* executed once.
SeqsInv ==
  \A p \in Players, s \in 1 .. MaxSeq :
    applied[p][s] = 0 \/ (applied[p][s] = 1 /\ p \in DOMAIN seqs /\ s <= seqs[p])

\* The thread is started when it has a room, and rooms stay.
StartedHasRooms == started => DOMAIN rooms # {}

WInv == WTypes /\ RoomsOK(rooms) /\ SeqsInv /\ NoRoomLost /\ StartedHasRooms

\* The AddRoom of r is in the queue q.
Queued(q, r) == \E i \in 1 .. Len(q) : carries(q[i], r)

\* Pushing an operation loses none that is queued.
LEMMA QueuedAppend ==
  ASSUME NEW q \in Seq(Op), NEW op \in Op, NEW r
  PROVE  /\ Queued(q, r) => Queued(Append(q, op), r)
         /\ carries(op, r) => Queued(Append(q, op), r)
<1>1. /\ Len(Append(q, op)) = Len(q) + 1 /\ Len(q) \in Nat
      /\ \A i \in 1 .. Len(q) : Append(q, op)[i] = q[i]
      /\ Append(q, op)[Len(q) + 1] = op
  OBVIOUS
<1> QED BY <1>1 DEF Queued

\* Popping one leaves the others queued.
LEMMA QueuedTail ==
  ASSUME NEW q \in Seq(Op), q # <<>>, NEW r, Queued(q, r)
  PROVE  carries(Head(q), r) \/ Queued(Tail(q), r)
<1>1. /\ Len(Tail(q)) = Len(q) - 1 /\ Len(q) \in Nat \ {0} /\ Head(q) = q[1]
      /\ \A i \in 1 .. Len(q) - 1 : Tail(q)[i] = q[i + 1]
  OBVIOUS
<1>2. PICK i \in 1 .. Len(q) : carries(q[i], r)
  BY DEF Queued
<1>3. CASE i = 1
  BY <1>1, <1>2, <1>3
<1>4. CASE i # 1
  <2>1. i - 1 \in 1 .. Len(q) - 1 /\ (i - 1) + 1 = i
    BY <1>1, <1>4
  <2>2. carries(Tail(q)[i - 1], r)
    BY <1>1, <1>2, <2>1
  <2> QED BY <1>1, <2>1, <2>2 DEF Queued
<1> QED BY <1>3, <1>4

\* Where the AddRoom of a room is that the worker does not have.
Carried(r) ==
  \/ r \in DOMAIN rooms
  \/ Queued(pending, r)
  \/ worker.pc = "apply" /\ carries(worker.op, r)
  \/ \E t \in IOThreads : io[t].pc = "apply" /\ carries(io[t].op, r)

\* NoRoomLost in terms of Carried.
LEMMA NoRoomLostIs == NoRoomLost <=> \A r \in DOMAIN assigned : Carried(r)
BY DEF NoRoomLost, underway, Carried, Queued

-----------------------------------------------------------------------------
(***************************************************************************)
(* IO threads.                                                             *)
(***************************************************************************)

\* addRoom and room_to_worker_[rid] = worker.
LEMMA StartBattleInv ==
  ASSUME WInv, NEW t \in IOThreads, NEW r \in Rooms, NEW P \in SUBSET Players, StartBattle(t, r, P)
  PROVE  WInv'
<1>1. WTypes /\ RoomsOK(rooms) /\ SeqsInv /\ NoRoomLost /\ StartedHasRooms
  BY DEF WInv
<1>2. /\ io[t].pc = "idle"
      /\ pending' = Append(pending, AddRoom(r, P))
      /\ assigned' = Put(assigned, r, P)
      /\ io' = [io EXCEPT ![t] = [pc |-> "count", op |-> NoOp]]
      /\ UNCHANGED <<commands, rooms, seqs, started, worker, applied>>
  BY DEF StartBattle
<1>3. AddRoom(r, P) \in Op /\ carries(AddRoom(r, P), r)
  BY DEF AddRoom, Op, carries
<1>4. WTypes'
  <2>1. pending' \in Seq(Op)
    BY <1>1, <1>2, <1>3 DEF WTypes
  <2>2. IsMap(assigned', Rooms, SUBSET Players)
    BY <1>1, <1>2 DEF WTypes, IsMap, Put
  <2>3. io' \in [IOThreads -> IOState] /\ \A u \in IOThreads : io'[u].pc = "apply" => io'[u].op \in Op
    BY <1>1, <1>2 DEF WTypes, IOState
  <2>4. IsWorker(worker)'
    BY <1>1, <1>2 DEF WTypes, IsWorker
  <2> QED BY <1>1, <1>2, <2>1, <2>2, <2>3, <2>4 DEF WTypes
<1>5. ASSUME NEW x \in DOMAIN assigned' PROVE Carried(x)'
  <2>1. Queued(pending, x) => Queued(pending', x)
    BY <1>1, <1>2, <1>3, QueuedAppend DEF WTypes
  <2>2. CASE x = r
    BY <1>1, <1>2, <1>3, <2>2, QueuedAppend DEF WTypes, Carried
  <2>3. CASE x # r
    <3>1. Carried(x)
      BY <1>1, <1>2, <1>5, <2>3, NoRoomLostIs DEF Put
    <3>2. \A u \in IOThreads : io[u].pc = "apply" => io'[u] = io[u]
      BY <1>1, <1>2 DEF WTypes
    <3> QED BY <1>2, <2>1, <3>1, <3>2 DEF Carried
  <2> QED BY <2>2, <2>3
<1>6. NoRoomLost'
  BY <1>5, NoRoomLostIs DEF NoRoomLost, underway, Carried, Queued
<1>7. RoomsOK(rooms)' /\ SeqsInv' /\ StartedHasRooms'
  BY <1>1, <1>2 DEF RoomsOK, SeqsInv, StartedHasRooms
<1> QED BY <1>4, <1>6, <1>7 DEF WInv

\* The steps of startBattle that only move the IO thread.
LEMMA MovesInv ==
  ASSUME WInv, NEW t \in IOThreads, io[t].pc # "apply",
         NEW s \in IOState, s.pc # "apply", io' = [io EXCEPT ![t] = s],
         started' \in BOOLEAN, started' => DOMAIN rooms # {},
         UNCHANGED <<pending, commands, rooms, seqs, assigned, worker, applied>>
  PROVE  WInv'
<1>1. WTypes /\ RoomsOK(rooms) /\ SeqsInv /\ NoRoomLost /\ StartedHasRooms
  BY DEF WInv
<1>2. io' \in [IOThreads -> IOState] /\ \A u \in IOThreads : io'[u].pc = "apply" => io'[u] = io[u] /\ io'[u].op \in Op
  BY <1>1 DEF WTypes
<1>3. StartedHasRooms'
  BY DEF StartedHasRooms
<1>4. IsWorker(worker)'
  BY <1>1 DEF WTypes, IsWorker
<1>5. WTypes'
  BY <1>1, <1>2, <1>3, <1>4 DEF WTypes
<1>6. \A u \in IOThreads : io[u].pc = "apply" => io'[u] = io[u]
  BY <1>1 DEF WTypes
<1>7. NoRoomLost'
  BY <1>1, <1>6 DEF NoRoomLost, underway
<1>8. RoomsOK(rooms)' /\ SeqsInv'
  BY <1>1 DEF RoomsOK, SeqsInv
<1> QED BY <1>3, <1>5, <1>7, <1>8 DEF WInv

\* An assignment to the pc of an IO thread leaves its operation alone.
LEMMA AssignPc ==
  ASSUME NEW s, s = [pc |-> s.pc, op |-> s.op], NEW pc
  PROVE  [s EXCEPT !.pc = pc] = [pc |-> pc, op |-> s.op]
<1>1. PICK d : d = [s EXCEPT !.pc = pc]
  OBVIOUS
<1>2. d = [pc |-> pc, op |-> s.op]
  BY <1>1
<1> QED BY <1>1, <1>2

\* startBattle for another worker's room, the two roomCount() and the end of the drain.
LEMMA CallsInv ==
  ASSUME WInv, NEW t \in IOThreads,
         StartBattleElsewhere(t) \/ CountRooms(t) \/ StartThread(t) \/ (DrainPop(t) /\ pending = <<>>)
  PROVE  WInv'
<1>1. WTypes /\ StartedHasRooms /\ io[t] \in IOState
  BY DEF WInv, WTypes
<1>2. io[t] = [pc |-> io[t].pc, op |-> io[t].op] /\ io[t].op \in Op \cup {NoOp}
  BY <1>1 DEF IOState
<1>3. UNCHANGED <<pending, commands, rooms, seqs, assigned, worker, applied>> /\ io[t].pc # "apply"
  BY DEF StartBattleElsewhere, CountRooms, StartThread, DrainPop
<1>4. ASSUME NEW pc \in {"idle", "count", "drain", "start"}
      PROVE  [pc |-> pc, op |-> io[t].op] \in IOState /\ [pc |-> pc, op |-> NoOp] \in IOState
  BY <1>2 DEF IOState
<1>5. ASSUME NEW pc, io' = [io EXCEPT ![t].pc = pc]
      PROVE  io' = [io EXCEPT ![t] = [pc |-> pc, op |-> io[t].op]]
  <2>1. [io[t] EXCEPT !.pc = pc] = [pc |-> pc, op |-> io[t].op]
    BY <1>2, AssignPc
  <2>2. io' = [io EXCEPT ![t] = [io[t] EXCEPT !.pc = pc]]
    BY <1>5
  <2> QED BY <2>1, <2>2
<1>6. \E s \in IOState : s.pc # "apply" /\ io' = [io EXCEPT ![t] = s]
  <2>1. CASE StartBattleElsewhere(t)
    BY <1>4, <2>1 DEF StartBattleElsewhere
  <2>2. CASE CountRooms(t)
    <3>1. PICK pc \in {"drain", "start"} : io' = [io EXCEPT ![t].pc = pc]
      BY <2>2 DEF CountRooms
    <3> QED BY <1>4, <1>5, <3>1
  <2>3. CASE StartThread(t)
    <3>1. io' = [io EXCEPT ![t].pc = "idle"]
      BY <2>3 DEF StartThread
    <3> QED BY <1>4, <1>5, <3>1
  <2>4. CASE DrainPop(t) /\ pending = <<>>
    <3>1. io' = [io EXCEPT ![t].pc = "start"]
      BY <2>4 DEF DrainPop
    <3> QED BY <1>4, <1>5, <3>1
  <2> QED BY <2>1, <2>2, <2>3, <2>4
<1>7. started' \in BOOLEAN /\ (started' => DOMAIN rooms # {})
  <2>1. CASE started' = started
    BY <1>1, <2>1 DEF WTypes, StartedHasRooms
  <2>2. CASE started' = (started \/ DOMAIN rooms # {})
    BY <1>1, <2>2, Zenon DEF StartedHasRooms
  <2> QED BY <2>1, <2>2 DEF StartBattleElsewhere, CountRooms, StartThread, DrainPop
<1> QED BY <1>3, <1>6, <1>7, MovesInv

\* The IO thread takes the next operation: it is in its hands now.
LEMMA DrainPopInv ==
  ASSUME WInv, NEW t \in IOThreads, DrainPop(t), pending # <<>>
  PROVE  WInv'
<1>1. WTypes /\ RoomsOK(rooms) /\ SeqsInv /\ NoRoomLost /\ StartedHasRooms
  BY DEF WInv
<1>2. /\ io[t].pc = "drain"
      /\ io' = [io EXCEPT ![t] = [pc |-> "apply", op |-> Head(pending)]]
      /\ pending' = Tail(pending)
      /\ UNCHANGED <<commands, rooms, seqs, assigned, started, worker, applied>>
  BY DEF DrainPop
<1>3. Head(pending) \in Op /\ pending' \in Seq(Op)
  BY <1>1, <1>2 DEF WTypes
<1>4. WTypes'
  <2>1. io' \in [IOThreads -> IOState] /\ \A u \in IOThreads : io'[u].pc = "apply" => io'[u].op \in Op
    BY <1>1, <1>2, <1>3 DEF WTypes, IOState
  <2>2. IsWorker(worker)'
    BY <1>1, <1>2 DEF WTypes, IsWorker
  <2> QED BY <1>1, <1>2, <1>3, <2>1, <2>2 DEF WTypes
<1>5. ASSUME NEW x \in DOMAIN assigned' PROVE Carried(x)'
  <2>1. Carried(x)
    BY <1>1, <1>2, NoRoomLostIs
  <2>2. Queued(pending, x) => carries(Head(pending), x) \/ Queued(pending', x)
    BY <1>1, <1>2, QueuedTail DEF WTypes
  <2>3. /\ io'[t].pc = "apply" /\ io'[t].op = Head(pending)
        /\ \A u \in IOThreads : io[u].pc = "apply" => io'[u] = io[u]
    BY <1>1, <1>2 DEF WTypes
  <2> QED BY <1>2, <2>1, <2>2, <2>3 DEF Carried
<1>6. NoRoomLost'
  BY <1>5 DEF NoRoomLost, underway, Carried, Queued
<1>7. RoomsOK(rooms)' /\ SeqsInv' /\ StartedHasRooms'
  BY <1>1, <1>2 DEF RoomsOK, SeqsInv, StartedHasRooms
<1> QED BY <1>4, <1>6, <1>7 DEF WInv

\* The IO thread applies it.
LEMMA DrainApplyInv ==
  ASSUME WInv, NEW t \in IOThreads, DrainApply(t)
  PROVE  WInv'
<1>1. WTypes /\ RoomsOK(rooms) /\ SeqsInv /\ NoRoomLost /\ StartedHasRooms
  BY DEF WInv
<1>2. /\ io[t].pc = "apply"
      /\ rooms' = applyOp(rooms, io[t].op)
      /\ io' = [io EXCEPT ![t] = [pc |-> "drain", op |-> NoOp]]
      /\ UNCHANGED <<pending, commands, seqs, assigned, started, worker, applied>>
  BY DEF DrainApply
<1>3. /\ RoomsOK(rooms') /\ DOMAIN rooms \subseteq DOMAIN rooms'
      /\ \A r : carries(io[t].op, r) => r \in DOMAIN rooms'
  BY <1>1, <1>2, ApplyOpOK DEF WTypes
<1>4. WTypes'
  <2>1. io' \in [IOThreads -> IOState] /\ \A u \in IOThreads : io'[u].pc = "apply" => io'[u].op \in Op
    BY <1>1, <1>2 DEF WTypes, IOState
  <2>2. IsWorker(worker)'
    BY <1>1, <1>2, <1>3 DEF WTypes, IsWorker
  <2> QED BY <1>1, <1>2, <2>1, <2>2 DEF WTypes
<1>5. ASSUME NEW x \in DOMAIN assigned' PROVE Carried(x)'
  <2>1. Carried(x)
    BY <1>1, <1>2, NoRoomLostIs
  <2>2. \A u \in IOThreads \ {t} : io'[u] = io[u]
    BY <1>1, <1>2 DEF WTypes
  <2> QED BY <1>2, <1>3, <2>1, <2>2 DEF Carried
<1>6. NoRoomLost'
  BY <1>5 DEF NoRoomLost, underway, Carried, Queued
<1>7. RoomsOK(rooms)' /\ SeqsInv' /\ StartedHasRooms'
  BY <1>1, <1>2, <1>3 DEF SeqsInv, StartedHasRooms
<1> QED BY <1>4, <1>6, <1>7 DEF WInv

\* dispatchCommand queues a command; onPlayerDisconnect queues a mark.
LEMMA DispatchInv ==
  ASSUME WInv, NEW t \in IOThreads, NEW r \in Rooms,
         \/ \E cmd \in Command : DispatchCommand(t, r, cmd)
         \/ \E p \in Players : OnPlayerDisconnect(t, r, p)
  PROVE  WInv'
<1>1. WTypes /\ RoomsOK(rooms) /\ SeqsInv /\ NoRoomLost /\ StartedHasRooms
  BY DEF WInv
<1>2. UNCHANGED <<rooms, seqs, assigned, started, worker, io, applied>>
  BY DEF DispatchCommand, OnPlayerDisconnect
<1>3. /\ pending' \in Seq(Op) /\ commands' \in Seq(Command)
      /\ \A x : Queued(pending, x) => Queued(pending', x)
  <2>1. ASSUME NEW cmd \in Command, DispatchCommand(t, r, cmd)
        PROVE  pending' = pending /\ commands' \in Seq(Command)
    BY <1>1, <2>1 DEF DispatchCommand, WTypes
  <2>2. ASSUME NEW p \in Players, OnPlayerDisconnect(t, r, p)
        PROVE  /\ commands' = commands /\ pending' \in Seq(Op)
               /\ \A x : Queued(pending, x) => Queued(pending', x)
    <3>1. MarkDisconnected(r, p) \in Op
      BY DEF MarkDisconnected, Op
    <3>2. pending' = Append(pending, MarkDisconnected(r, p)) /\ commands' = commands
      BY <2>2 DEF OnPlayerDisconnect
    <3> QED BY <1>1, <3>1, <3>2, QueuedAppend DEF WTypes
  <2> QED BY <1>1, <2>1, <2>2 DEF WTypes
<1>4. WTypes'
  <2>1. IsWorker(worker)'
    BY <1>1, <1>2 DEF WTypes, IsWorker
  <2> QED BY <1>1, <1>2, <1>3, <2>1 DEF WTypes
<1>5. ASSUME NEW x \in DOMAIN assigned' PROVE Carried(x)'
  BY <1>1, <1>2, <1>3, NoRoomLostIs DEF Carried
<1>6. NoRoomLost'
  BY <1>5 DEF NoRoomLost, underway, Carried, Queued
<1>7. RoomsOK(rooms)' /\ SeqsInv' /\ StartedHasRooms'
  BY <1>1, <1>2 DEF RoomsOK, SeqsInv, StartedHasRooms
<1> QED BY <1>4, <1>6, <1>7 DEF WInv

-----------------------------------------------------------------------------
(***************************************************************************)
(* The worker thread and the clock.                                        *)
(***************************************************************************)

\* drainPendingOps takes an operation: it is in the worker's hands now.
LEMMA WorkerPopInv ==
  ASSUME WInv, WorkerPop
  PROVE  WInv'
<1>1. WTypes /\ RoomsOK(rooms) /\ SeqsInv /\ NoRoomLost /\ StartedHasRooms
  BY DEF WInv
<1>2. /\ worker.pc # "apply" /\ pending # <<>>
      /\ worker' = At("apply", Head(pending), <<>>, NoRoom, {}, 0)
      /\ pending' = Tail(pending)
      /\ UNCHANGED <<commands, rooms, seqs, assigned, started, io, applied>>
  BY DEF WorkerPop
<1>3. Head(pending) \in Op /\ pending' \in Seq(Op)
  BY <1>1, <1>2 DEF WTypes
<1>4. worker'.pc = "apply" /\ worker'.op = Head(pending)
  BY <1>2 DEF At
<1>5. WTypes'
  <2>1. IsWorker(worker)'
    BY <1>2, <1>3 DEF At, IsWorker
  <2> QED BY <1>1, <1>2, <1>3, <2>1 DEF WTypes
<1>6. ASSUME NEW x \in DOMAIN assigned' PROVE Carried(x)'
  <2>1. Carried(x)
    BY <1>1, <1>2, NoRoomLostIs
  <2>2. Queued(pending, x) => carries(Head(pending), x) \/ Queued(pending', x)
    BY <1>1, <1>2, QueuedTail DEF WTypes
  <2> QED BY <1>2, <1>4, <2>1, <2>2 DEF Carried
<1>7. NoRoomLost'
  BY <1>6 DEF NoRoomLost, underway, Carried, Queued
<1>8. RoomsOK(rooms)' /\ SeqsInv' /\ StartedHasRooms'
  BY <1>1, <1>2 DEF RoomsOK, SeqsInv, StartedHasRooms
<1> QED BY <1>5, <1>7, <1>8 DEF WInv

\* Draining is a place of the worker.
LEMMA DrainingType == worker' = Draining => IsWorker(worker)' /\ worker'.pc = "drain"
BY DEF Draining, At, IsWorker

\* The loop of tick over rooms that are there.
LEMMA VisitsType ==
  ASSUME IsWorker(worker), NEW R, R \subseteq DOMAIN rooms, DOMAIN rooms \subseteq DOMAIN rooms',
         worker' \in visits(R)
  PROVE  IsWorker(worker)' /\ worker'.pc # "apply"
<1>1. CASE R = {}
  BY <1>1, DrainingType DEF visits
<1>2. CASE R # {}
  <2>1. PICK r \in R : worker' = At("command", NoOp, worker.cmds, r, R \ {r}, 0)
    BY <1>2 DEF visits
  <2>2. worker.cmds \in Seq(Command) /\ 0 \in 0 .. Len(worker.cmds)
    BY DEF IsWorker
  <2>3. /\ worker'.pc = "command" /\ worker'.cmds = worker.cmds /\ worker'.room = r
        /\ worker'.todo = R \ {r} /\ worker'.done = 0
        /\ worker' = [pc |-> worker'.pc, op |-> worker'.op, cmds |-> worker'.cmds,
                      room |-> worker'.room, todo |-> worker'.todo, done |-> worker'.done]
    BY <2>1 DEF At
  <2> QED BY <2>2, <2>3 DEF IsWorker
<1> QED BY <1>1, <1>2

\* The steps of the worker that leave the queue of operations and the sequence numbers
\* alone, and of the clock.
LEMMA TicksInv ==
  ASSUME WInv, RoomsOK(rooms'), DOMAIN rooms \subseteq DOMAIN rooms', IsWorker(worker)',
         commands' \in Seq(Command),
         \A r : worker.pc = "apply" /\ carries(worker.op, r)
                  => r \in DOMAIN rooms' \/ (worker'.pc = "apply" /\ worker'.op = worker.op),
         UNCHANGED <<pending, seqs, assigned, started, io, applied>>
  PROVE  WInv'
<1>1. WTypes /\ SeqsInv /\ NoRoomLost /\ StartedHasRooms
  BY DEF WInv
<1>2. WTypes'
  BY <1>1 DEF WTypes
<1>3. ASSUME NEW x \in DOMAIN assigned' PROVE Carried(x)'
  BY <1>1, NoRoomLostIs DEF Carried
<1>4. NoRoomLost'
  BY <1>3 DEF NoRoomLost, underway, Carried, Queued
<1>5. SeqsInv' /\ StartedHasRooms'
  BY <1>1 DEF SeqsInv, StartedHasRooms
<1> QED BY <1>2, <1>4, <1>5 DEF WInv

\* The steps of the worker before and between the rooms of a tick.
LEMMA WorkerMovesInv ==
  ASSUME WInv, WorkerApply \/ WorkerDrained \/ TickStart \/ TickLock
  PROVE  WInv'
<1>1. WTypes /\ RoomsOK(rooms) /\ IsWorker(worker)
  BY DEF WInv, WTypes
<1>2. UNCHANGED <<pending, seqs, assigned, started, io, applied>>
  BY DEF WorkerApply, WorkerDrained, TickStart, TickLock
<1>3. CASE WorkerApply
  <2>1. worker.op \in Op /\ rooms' = applyOp(rooms, worker.op)
    BY <1>1, <1>3 DEF WorkerApply, IsWorker
  <2>2. /\ RoomsOK(rooms') /\ DOMAIN rooms \subseteq DOMAIN rooms'
        /\ \A r : carries(worker.op, r) => r \in DOMAIN rooms'
    BY <1>1, <2>1, ApplyOpOK
  <2>3. IsWorker(worker)' /\ commands' \in Seq(Command)
    BY <1>1, <1>3, DrainingType DEF WorkerApply, WTypes
  <2> QED BY <1>2, <2>2, <2>3, TicksInv
<1>4. CASE WorkerDrained
  <2>1. IsWorker(worker)'
    BY <1>1, <1>4 DEF WorkerDrained, At, IsWorker
  <2>2. rooms' = rooms /\ commands' = commands /\ worker.pc # "apply"
    BY <1>4 DEF WorkerDrained
  <2>3. RoomsOK(rooms') /\ DOMAIN rooms \subseteq DOMAIN rooms' /\ commands' \in Seq(Command)
    BY <1>1, <2>2 DEF WTypes
  <2> QED BY <1>2, <2>1, <2>2, <2>3, TicksInv
<1>5. CASE TickStart
  <2>1. worker' = At("lock", NoOp, commands, NoRoom, {}, 0) /\ commands \in Seq(Command)
    BY <1>1, <1>5 DEF TickStart, WTypes
  <2>2. 0 \in 0 .. Len(commands)
    BY <2>1
  <2>3. IsWorker(worker)'
    BY <2>1, <2>2 DEF At, IsWorker
  <2>4. rooms' = rooms /\ commands' = <<>> /\ worker.pc # "apply"
    BY <1>5 DEF TickStart
  <2>5. RoomsOK(rooms') /\ DOMAIN rooms \subseteq DOMAIN rooms' /\ commands' \in Seq(Command)
    BY <1>1, <2>4
  <2> QED BY <1>2, <2>3, <2>4, <2>5, TicksInv
<1>6. CASE TickLock
  <2>1. rooms' = rooms /\ commands' = commands /\ worker.pc # "apply" /\ worker' \in visits(DOMAIN rooms)
    BY <1>6 DEF TickLock
  <2>2. RoomsOK(rooms') /\ DOMAIN rooms \subseteq DOMAIN rooms' /\ commands' \in Seq(Command)
    BY <1>1, <2>1 DEF WTypes
  <2>3. IsWorker(worker)'
    BY <1>1, <2>1, <2>2, VisitsType
  <2> QED BY <1>2, <2>1, <2>2, <2>3, TicksInv
<1> QED BY <1>3, <1>4, <1>5, <1>6

\* processTick on one command: whoever accepts it records its number, so it is accepted
\* nowhere else.
LEMMA TickCommandInv ==
  ASSUME WInv, NEW near \in BOOLEAN, TickCommand(near)
  PROVE  WInv'
<1> DEFINE r   == worker.room
           cmd == worker.cmds[worker.done + 1]
           ps  == rooms[r].players
<1>1. WTypes /\ RoomsOK(rooms) /\ SeqsInv /\ NoRoomLost /\ StartedHasRooms /\ IsWorker(worker)
  BY DEF WInv, WTypes
<1>2. /\ worker.pc = "command" /\ worker.done < Len(worker.cmds)
      /\ worker' = At("command", NoOp, worker.cmds, r, worker.todo, worker.done + 1)
      /\ UNCHANGED <<pending, commands, assigned, started, io>>
  BY DEF TickCommand
<1>3. /\ r \in DOMAIN rooms /\ r \in Rooms /\ worker.todo \subseteq DOMAIN rooms
      /\ worker.cmds \in Seq(Command) /\ worker.done + 1 \in 1 .. Len(worker.cmds)
      /\ worker.done + 1 \in 0 .. Len(worker.cmds)
  BY <1>1, <1>2 DEF IsWorker, RoomsOK
<1>4. cmd \in Command
  BY <1>3
<1>5. BattleOK(ps) /\ Balanced(ps) /\ IsMap(rooms[r].lost, Players, Ages)
  BY <1>1, <1>3 DEF RoomsOK, RoomOK
<1>6. \/ UNCHANGED <<rooms, seqs, applied>>
      \/ /\ accepts(ps, seqs, cmd)
         /\ rooms' = Put(rooms, r, [players |-> execute(ps, cmd, near), lost |-> rooms[r].lost])
         /\ seqs' = Put(seqs, cmd.player, cmd.seq)
         /\ applied' = [applied EXCEPT ![cmd.player][cmd.seq] = @ + 1]
  BY DEF TickCommand
<1> HIDE DEF cmd, ps, r
<1>7. cmd.player \in Players /\ cmd.seq \in 1 .. MaxSeq
  BY <1>4 DEF Command
<1>8. RoomsOK(rooms') /\ DOMAIN rooms' = DOMAIN rooms
  <2>1. CASE rooms' = rooms
    BY <1>1, <2>1
  <2>2. CASE accepts(ps, seqs, cmd) /\ rooms' = Put(rooms, r, [players |-> execute(ps, cmd, near), lost |-> rooms[r].lost])
    <3>1. cmd.player \in DOMAIN ps
      BY <2>2 DEF accepts
    <3>2. BattleOK(execute(ps, cmd, near)) /\ Balanced(execute(ps, cmd, near))
      BY <1>4, <1>5, <3>1, ExecuteOK, ExecuteBalanced
    <3>3. RoomOK([players |-> execute(ps, cmd, near), lost |-> rooms[r].lost])
      BY <1>5, <3>2, MakeRoomOK
    <3>4. RoomsOK(rooms') /\ DOMAIN rooms' = DOMAIN rooms \cup {r}
      BY <1>1, <1>3, <2>2, <3>3, PutRoomOK
    <3> QED BY <1>3, <3>4
  <2> QED BY <1>6, <2>1, <2>2
<1>9. /\ IsMap(seqs', Players, 1 .. MaxSeq) /\ applied' \in [Players -> [1 .. MaxSeq -> Nat]]
      /\ SeqsInv'
  <2>1. CASE UNCHANGED <<rooms, seqs, applied>>
    BY <1>1, <2>1 DEF WTypes, SeqsInv
  <2>2. CASE /\ accepts(ps, seqs, cmd)
             /\ seqs' = Put(seqs, cmd.player, cmd.seq)
             /\ applied' = [applied EXCEPT ![cmd.player][cmd.seq] = @ + 1]
    <3> DEFINE q == cmd.player
               n == cmd.seq
    <3>1. q \in DOMAIN seqs => ~(n <= seqs[q])
      BY <2>2 DEF accepts, isDuplicate
    <3>2. IsMap(seqs, Players, 1 .. MaxSeq) /\ applied \in [Players -> [1 .. MaxSeq -> Nat]]
      BY <1>1 DEF WTypes
    <3>3. IsMap(seqs', Players, 1 .. MaxSeq)
      BY <1>7, <2>2, <3>2 DEF IsMap, Put
    <3>4. applied[q][n] = 0
      BY <1>1, <1>7, <3>1 DEF SeqsInv
    <3> HIDE DEF q, n
    <3>5. /\ applied' \in [Players -> [1 .. MaxSeq -> Nat]]
          /\ applied'[q][n] = 1
          /\ \A p \in Players, s \in 1 .. MaxSeq : p # q \/ s # n => applied'[p][s] = applied[p][s]
      <4>1. PICK g : g = applied[q]
        OBVIOUS
      <4>2. PICK f : f = [g EXCEPT ![n] = g[n] + 1]
        OBVIOUS
      <4>3. applied' = [applied EXCEPT ![q] = f]
        BY <2>2, <4>1, <4>2 DEF q, n
      <4>4. q \in Players /\ n \in 1 .. MaxSeq /\ g \in [1 .. MaxSeq -> Nat] /\ g[n] = 0
        BY <1>7, <3>2, <3>4, <4>1 DEF q, n
      <4>5. f \in [1 .. MaxSeq -> Nat] /\ f[n] = 1 /\ \A s \in 1 .. MaxSeq : s # n => f[s] = g[s]
        BY <4>2, <4>4
      <4> QED BY <3>2, <4>1, <4>3, <4>4, <4>5
    <3>6. /\ q \in DOMAIN seqs' /\ seqs'[q] = n
          /\ \A p \in DOMAIN seqs \ {q} : p \in DOMAIN seqs' /\ seqs'[p] = seqs[p]
      BY <2>2 DEF Put, q, n
    <3>7. n \in 1 .. MaxSeq /\ (q \in DOMAIN seqs => seqs[q] \in 1 .. MaxSeq /\ seqs[q] < n)
      BY <1>7, <3>1, <3>2 DEF IsMap, q, n
    <3>8. ASSUME NEW p \in Players, NEW s \in 1 .. MaxSeq
          PROVE  applied'[p][s] = 0 \/ (applied'[p][s] = 1 /\ p \in DOMAIN seqs' /\ s <= seqs'[p])
      <4>1. CASE p = q /\ s = n
        BY <3>5, <3>6, <3>7, <4>1
      <4>2. CASE p = q /\ s # n
        BY <1>1, <3>5, <3>6, <3>7, <4>2 DEF SeqsInv
      <4>3. CASE p # q
        BY <1>1, <3>5, <3>6, <4>3 DEF SeqsInv
      <4> QED BY <4>1, <4>2, <4>3
    <3> QED BY <3>3, <3>5, <3>8 DEF SeqsInv
  <2> QED BY <1>6, <2>1, <2>2
<1>10. IsWorker(worker)' /\ worker'.pc = "command"
  BY <1>2, <1>3, <1>8 DEF At, IsWorker
<1>11. WTypes'
  BY <1>1, <1>2, <1>9, <1>10 DEF WTypes
<1>12. NoRoomLost'
  BY <1>1, <1>2, <1>8 DEF NoRoomLost, underway
<1>13. StartedHasRooms'
  BY <1>1, <1>2, <1>8 DEF StartedHasRooms
<1> QED BY <1>8, <1>9, <1>11, <1>12, <1>13 DEF WInv

\* The end of processTick in a room, and the drop of who has been away too long.
LEMMA TickEndsInv ==
  ASSUME WInv, TickCooldowns \/ TickTimeouts
  PROVE  WInv'
<1> DEFINE r == worker.room
<1>1. WTypes /\ RoomsOK(rooms) /\ IsWorker(worker) /\ worker.pc # "apply"
  BY DEF WInv, WTypes, TickCooldowns, TickTimeouts
<1>2. r \in DOMAIN rooms /\ r \in Rooms /\ worker.todo \subseteq DOMAIN rooms /\ RoomOK(rooms[r])
  BY <1>1 DEF TickCooldowns, TickTimeouts, IsWorker, RoomsOK
<1>3. UNCHANGED <<pending, commands, seqs, assigned, started, io, applied>> /\ commands' \in Seq(Command)
  BY <1>1 DEF TickCooldowns, TickTimeouts, WTypes
<1>4. CASE TickCooldowns
  <2> DEFINE room == [players |-> updateCooldowns(rooms[r].players), lost |-> rooms[r].lost]
  <2>1. /\ worker' = At("broadcast", NoOp, worker.cmds, r, worker.todo, 0)
        /\ rooms' = Put(rooms, r, room)
    BY <1>4 DEF TickCooldowns
  <2>2. RoomOK(room)
    BY <1>2, CooldownsOK, CooldownsBalanced, MakeRoomOK DEF RoomOK
  <2> HIDE DEF room
  <2>3. RoomsOK(rooms') /\ DOMAIN rooms' = DOMAIN rooms \cup {r}
    BY <1>1, <1>2, <2>1, <2>2, PutRoomOK
  <2>4. worker.cmds \in Seq(Command) /\ 0 \in 0 .. Len(worker.cmds)
    BY <1>1 DEF IsWorker
  <2>5. IsWorker(worker)'
    BY <1>2, <2>1, <2>3, <2>4 DEF At, IsWorker
  <2> QED BY <1>1, <1>3, <2>3, <2>5, TicksInv
<1>5. CASE TickTimeouts
  <2>1. worker' \in visits(worker.todo) /\ rooms' = Put(rooms, r, dropOverdue(rooms[r]))
    BY <1>5 DEF TickTimeouts
  <2>2. RoomOK(dropOverdue(rooms[r]))
    BY <1>2, DropOverdueOK
  <2>3. RoomsOK(rooms') /\ DOMAIN rooms' = DOMAIN rooms \cup {r}
    BY <1>1, <1>2, <2>1, <2>2, PutRoomOK
  <2>4. IsWorker(worker)'
    BY <1>1, <1>2, <2>1, <2>3, VisitsType
  <2> QED BY <1>1, <1>3, <2>3, <2>4, TicksInv
<1> QED BY <1>4, <1>5

\* A second passes.
LEMMA TimePassesInv ==
  ASSUME WInv, TimePasses
  PROVE  WInv'
<1>1. WTypes /\ RoomsOK(rooms) /\ IsWorker(worker)
  BY DEF WInv, WTypes
<1>2. UNCHANGED <<pending, commands, seqs, assigned, started, worker, io, applied>> /\ commands' \in Seq(Command)
  BY <1>1 DEF TimePasses, WTypes
<1>3. DOMAIN rooms' = DOMAIN rooms
  BY DEF TimePasses
<1>4. ASSUME NEW r \in DOMAIN rooms PROVE RoomOK(rooms'[r])
  <2>1. rooms'[r] = [players |-> rooms[r].players,
                     lost |-> [p \in DOMAIN rooms[r].lost |-> older(rooms[r].lost[p])]]
    BY DEF TimePasses
  <2>2. RoomOK(rooms[r])
    BY <1>1 DEF RoomsOK
  <2> QED BY <2>1, <2>2, OlderOK
<1>5. RoomsOK(rooms')
  BY <1>1, <1>3, <1>4 DEF RoomsOK
<1>6. IsWorker(worker)'
  BY <1>1, <1>2, <1>3 DEF IsWorker
<1> QED BY <1>2, <1>3, <1>5, <1>6, TicksInv

-----------------------------------------------------------------------------
(***************************************************************************)
(* The theorems.                                                           *)
(***************************************************************************)

\* Every step of every thread preserves the invariant.
LEMMA NextInv == WInv /\ [Next]_vars => WInv'
<1> SUFFICES ASSUME WInv, [Next]_vars PROVE WInv'
  OBVIOUS
<1>1. CASE UNCHANGED vars
  <2>1. WTypes /\ RoomsOK(rooms)
    BY DEF WInv
  <2>2. IsWorker(worker)' /\ commands' \in Seq(Command) /\ RoomsOK(rooms')
    BY <1>1, <2>1 DEF vars, WTypes, IsWorker
  <2> QED BY <1>1, <2>2, TicksInv DEF vars
<1>2. CASE Next
  <2>1. ASSUME NEW t \in IOThreads, IOStep(t) PROVE WInv'
    BY <2>1, CallsInv, DrainPopInv, DrainApplyInv DEF IOStep
  <2>2. CASE WorkerStep
    BY <2>2, WorkerPopInv, WorkerMovesInv, TickCommandInv, TickEndsInv DEF WorkerStep
  <2> QED BY <1>2, <2>1, <2>2, StartBattleInv, CallsInv, DispatchInv, TimePassesInv DEF Next
<1> QED BY <1>1, <1>2

\* The inductive invariant holds in every reachable state.
THEOREM WorkerInvariance == Spec => []WInv
<1>1. Init => WInv
  <2> SUFFICES ASSUME Init PROVE WInv
    OBVIOUS
  <2>1. IsWorker(worker)
    BY DEF Init, Draining, At, IsWorker
  <2>2. DOMAIN rooms = {} /\ DOMAIN assigned = {} /\ DOMAIN seqs = {}
    BY DEF Init, EmptyMap
  <2>3. io \in [IOThreads -> IOState] /\ \A t \in IOThreads : io[t].pc # "apply"
    BY DEF Init, IOState
  <2>4. applied \in [Players -> [1 .. MaxSeq -> Nat]] /\ SeqsInv
    BY DEF Init, SeqsInv
  <2>5. IsMap(seqs, Players, 1 .. MaxSeq) /\ IsMap(assigned, Rooms, SUBSET Players)
    BY DEF Init, EmptyMap, IsMap
  <2>6. pending \in Seq(Op) /\ commands \in Seq(Command) /\ started = FALSE
    BY DEF Init
  <2>7. WTypes
    BY <2>1, <2>3, <2>4, <2>5, <2>6 DEF WTypes
  <2> QED BY <2>2, <2>4, <2>6, <2>7 DEF WInv, RoomsOK, NoRoomLost, StartedHasRooms
<1> QED BY <1>1, NextInv, PTL DEF Spec

\* Queues, rooms, battles and the places of all threads keep their types; the rooms that
\* the worker has still to visit in a tick are there, though it lets go of the lock.
THEOREM WorkerTypeCorrect == Spec => []TypeOK
<1>1. WInv => TypeOK
  <2> SUFFICES ASSUME WInv PROVE TypeOK
    OBVIOUS
  <2>1. WTypes /\ RoomsOK(rooms)
    BY DEF WInv
  <2>2. DOMAIN rooms \subseteq Rooms /\ \A r \in DOMAIN rooms : IsRoomState(rooms[r])
    BY <2>1 DEF RoomsOK, RoomOK, BattleOK, IsRoomState
  <2>3. \A t \in IOThreads : /\ io[t].pc \in {"idle", "count", "drain", "apply", "start"}
                             /\ io[t].pc = "apply" => io[t].op \in Op
    BY <2>1 DEF WTypes, IOState
  <2> QED BY <2>1, <2>2, <2>3 DEF WTypes, TypeOK
<1> QED BY <1>1, WorkerInvariance, PTL

\* A player's hit points account for the damage it has taken, whatever the stats, the
\* skills and the order of commands and timeouts.
THEOREM HitPointsAccount == Spec => []HpAccounts
<1>1. WInv => HpAccounts
  BY DEF WInv, RoomsOK, RoomOK, BattleOK, PlayerOK, HpAccounts
<1> QED BY <1>1, WorkerInvariance, PTL

\* The damage dealt in a battle is the damage taken and the kills are the deaths, for any
\* number of players, whoever hits whom, and when a player forfeits or a room is started anew.
THEOREM DamageIsAccounted == Spec => []TotalsAgree
<1>1. WInv => TotalsAgree
  BY DEF WInv, RoomsOK, RoomOK, Balanced, Dealt, Taken, Kills, Deaths, TotalsAgree
<1> QED BY <1>1, WorkerInvariance, PTL

\* A command is executed at most once, in however many rooms of the worker its player is
\* and however often it is sent.
THEOREM CommandsApplyOnce == Spec => []AppliedOnce
<1>1. WInv => AppliedOnce
  BY DEF WInv, SeqsInv, AppliedOnce
<1> QED BY <1>1, WorkerInvariance, PTL

\* No room is lost between the threads, for any number of IO threads that drain the
\* operations at the same time as the worker.
THEOREM RoomsAreNotLost == Spec => []NoRoomLost
<1>1. WInv => NoRoomLost
  BY DEF WInv
<1> QED BY <1>1, WorkerInvariance, PTL

-----------------------------------------------------------------------------
(***************************************************************************)
(* Whose the rooms are.                                                    *)
(***************************************************************************)

\* startBattle drains only while it reads that there is no room, and a worker that has
\* been started has one.
LEMMA NobodyDrainsNext == WInv /\ started /\ nobodyDrains /\ [Next]_vars => nobodyDrains'
<1> SUFFICES ASSUME WInv, started, nobodyDrains, [Next]_vars PROVE nobodyDrains'
  OBVIOUS
<1>1. io \in [IOThreads -> IOState] /\ DOMAIN rooms # {}
  BY DEF WInv, WTypes, StartedHasRooms
<1>2. CASE io' = io
  BY <1>2 DEF nobodyDrains
<1>3. ASSUME NEW t \in IOThreads, NEW r \in Rooms, NEW P, StartBattle(t, r, P) PROVE nobodyDrains'
  BY <1>1, <1>3 DEF StartBattle, nobodyDrains
<1>4. ASSUME NEW t \in IOThreads, StartBattleElsewhere(t) PROVE nobodyDrains'
  BY <1>1, <1>4 DEF StartBattleElsewhere, nobodyDrains
<1>5. ASSUME NEW t \in IOThreads, CountRooms(t) PROVE nobodyDrains'
  <2>1. io' = [io EXCEPT ![t].pc = "start"]
    BY <1>1, <1>5 DEF CountRooms
  <2> QED BY <1>1, <2>1 DEF nobodyDrains, IOState
<1>6. ASSUME NEW t \in IOThreads PROVE ~DrainPop(t) /\ ~DrainApply(t)
  BY DEF DrainPop, DrainApply, nobodyDrains
<1>7. ASSUME NEW t \in IOThreads, StartThread(t) PROVE nobodyDrains'
  <2>1. io' = [io EXCEPT ![t].pc = "idle"]
    BY <1>7 DEF StartThread
  <2> QED BY <1>1, <2>1 DEF nobodyDrains, IOState
<1>8. ASSUME UNCHANGED vars \/ WorkerStep \/ TimePasses PROVE io' = io
  BY <1>8, Zenon DEF vars, WorkerStep, TimePasses, WorkerPop, WorkerApply, WorkerDrained, TickStart,
     TickLock, TickCommand, TickCooldowns, TickTimeouts
<1>9. ASSUME NEW t \in IOThreads, NEW r \in Rooms,
             \/ \E cmd \in Command : DispatchCommand(t, r, cmd)
             \/ \E p \in Players : OnPlayerDisconnect(t, r, p)
      PROVE  io' = io
  BY <1>9 DEF DispatchCommand, OnPlayerDisconnect
<1> QED BY <1>2, <1>3, <1>4, <1>5, <1>6, <1>7, <1>8, <1>9 DEF Next, IOStep

\* Any number of IO threads may start battles at a time: once the worker runs and none of
\* them is inside drainPendingOps, none comes back to it, and the worker's thread alone
\* changes the rooms.
THEOREM OwnershipOfRooms == Spec => OwnershipIsFinal
<1>1. ASSUME WInv, [Next]_vars
      PROVE  [started /\ nobodyDrains => nobodyDrains' /\ (rooms' # rooms => io' = io)]_vars
  <2> SUFFICES ASSUME Next, started, nobodyDrains
               PROVE  nobodyDrains' /\ (rooms' # rooms => io' = io)
    BY <1>1
  <2>1. nobodyDrains'
    BY <1>1, NobodyDrainsNext
  <2>2. ASSUME rooms' # rooms PROVE io' = io
    <3>1. ASSUME NEW t \in IOThreads PROVE ~DrainApply(t)
      BY DEF DrainApply, nobodyDrains
    <3> QED BY <2>2, <3>1, Zenon DEF Next, IOStep, WorkerStep, StartBattle, StartBattleElsewhere,
         CountRooms, DrainPop, StartThread, DispatchCommand, OnPlayerDisconnect, WorkerPop,
         WorkerApply, WorkerDrained, TickStart, TickLock, TickCommand, TickCooldowns, TickTimeouts,
         TimePasses
  <2> QED BY <2>1, <2>2
<1> QED BY <1>1, WorkerInvariance, PTL DEF Spec, OwnershipIsFinal

-----------------------------------------------------------------------------
(***************************************************************************)
(* A fallen player's result is final.                                      *)
(***************************************************************************)

\* From b to c, a player that has fallen stays down and its figures stand.
Final(b, c) ==
  b.alive \/ /\ ~c.alive /\ c.hp = b.hp
             /\ c.kills = b.kills /\ c.deaths = b.deaths
             /\ c.dealt = b.dealt /\ c.taken = b.taken

FinalIn(ps, qs) == \A p \in DOMAIN ps : p \in DOMAIN qs /\ Final(ps[p], qs[p])

\* This step applies an AddRoom of r, on whichever thread.
Restarted(r) ==
  \/ worker.pc = "apply" /\ worker' # worker /\ carries(worker.op, r)
  \/ \E t \in IOThreads : io[t].pc = "apply" /\ io'[t] # io[t] /\ carries(io[t].op, r)

FinalRooms ==
  \A r \in DOMAIN rooms :
    Restarted(r) \/ (r \in DOMAIN rooms' /\ FinalIn(rooms[r].players, rooms'[r].players))

\* Two changes in a row.
LEMMA FinalTwice ==
  ASSUME NEW ps, NEW qs, NEW rs, FinalIn(ps, qs), FinalIn(qs, rs)
  PROVE  FinalIn(ps, rs)
BY DEF FinalIn, Final

\* Changing a player that is alive touches no fallen one.
LEMMA PutFinal ==
  ASSUME NEW ps, NEW a \in DOMAIN ps, ps[a].alive, NEW b
  PROVE  FinalIn(ps, Put(ps, a, b))
BY DEF FinalIn, Final, Put

\* A hit of one living player on another.
LEMMA HitFinal ==
  ASSUME NEW ps, NEW a \in DOMAIN ps, NEW t \in DOMAIN ps, ps[a].alive, ps[t].alive, NEW dmg
  PROVE  FinalIn(ps, hit(ps, a, t, dmg))
<1> DEFINE w == wound(ps[t], dmg)
           c == credit(Put(ps, t, w)[a], dmg, ps[t].hp <= dmg)
<1>1. hit(ps, a, t, dmg) = Put(Put(ps, t, w), a, c)
  BY DEF hit
<1> HIDE DEF w, c
<1>2. FinalIn(ps, Put(Put(ps, t, w), a, c))
  BY DEF FinalIn, Final, Put
<1> QED BY <1>1, <1>2

\* A command that processTick accepts: the fallen neither act nor are hit.
LEMMA ExecuteFinal ==
  ASSUME NEW ps, NEW cmd \in Command, cmd.player \in DOMAIN ps, ps[cmd.player].alive, NEW near \in BOOLEAN
  PROVE  FinalIn(ps, execute(ps, cmd, near))
<1> DEFINE a == cmd.player
           t == cmd.target
<1>1. cmd.type \in {"MOVE", "ATTACK", "SKILL"} /\ FinalIn(ps, ps)
  BY DEF Command, FinalIn, Final
<1>2. CASE cmd.type = "MOVE"
  BY <1>1, <1>2 DEF execute
<1>3. CASE cmd.type = "ATTACK"
  <2>1. t \in DOMAIN ps => FinalIn(ps, processAttack(ps, a, t, near))
    BY <1>1, HitFinal DEF processAttack
  <2> QED BY <1>1, <1>3, <2>1 DEF execute
<1>4. CASE cmd.type = "SKILL"
  <2> DEFINE id == cmd.skill
             b  == setCooldown(ps[a], id)
             qs == Put(ps, a, b)
  <2>1. b.alive = ps[a].alive
    BY DEF setCooldown
  <2> HIDE DEF b
  <2>2. FinalIn(ps, qs)
    BY PutFinal
  <2>a. DOMAIN qs = DOMAIN ps /\ qs[a].alive /\ \A p \in DOMAIN ps : ps[p].alive => qs[p].alive
    BY <2>1 DEF Put
  <2> HIDE DEF qs
  <2>3. ASSUME t \in DOMAIN ps, ps[t].alive PROVE FinalIn(ps, hit(qs, a, t, skillDamage(id)))
    <3>1. FinalIn(qs, hit(qs, a, t, skillDamage(id)))
      BY <2>a, <2>3, HitFinal
    <3> QED BY <2>2, <3>1, FinalTwice
  <2>4. FinalIn(ps, processSkill(ps, a, t, id, near))
    BY <1>1, <2>2, <2>3 DEF processSkill, qs, b
  <2> QED BY <1>4, <2>4 DEF execute
<1> QED BY <1>1, <1>2, <1>3, <1>4

\* The end of a tick.
LEMMA CooldownsFinal ==
  ASSUME NEW ps
  PROVE  FinalIn(ps, updateCooldowns(ps))
BY DEF FinalIn, Final, updateCooldowns, coolDown

\* A player that is dropped after it has fallen had no hit points to lose.
LEMMA DropOverdueFinal ==
  ASSUME NEW room, RoomOK(room)
  PROVE  FinalIn(room.players, dropOverdue(room).players)
<1>1. ASSUME NEW p \in DOMAIN room.players, ~room.players[p].alive PROVE room.players[p].hp = 0
  BY <1>1 DEF RoomOK, BattleOK, PlayerOK
<1> QED BY <1>1 DEF FinalIn, Final, dropOverdue, forfeit

\* An operation that is not an AddRoom of r leaves the players of r alone.
LEMMA ApplyOpFinal ==
  ASSUME NEW rs, NEW op \in Op, NEW r \in DOMAIN rs, ~carries(op, r)
  PROVE  r \in DOMAIN applyOp(rs, op) /\ applyOp(rs, op)[r].players = rs[r].players
<1>1. op.type \in {"AddRoom", "MarkDisconnected"}
  BY DEF Op
<1>2. CASE op.type = "AddRoom"
  BY <1>2 DEF applyOp, carries, Put
<1>3. CASE op.type = "MarkDisconnected"
  BY <1>3 DEF applyOp, Put
<1> QED BY <1>1, <1>2, <1>3

\* Putting a room back with players that are final.
LEMMA PutRoomFinal ==
  ASSUME NEW r \in DOMAIN rooms, NEW room, FinalIn(rooms[r].players, room.players),
         rooms' = Put(rooms, r, room)
  PROVE  FinalRooms
<1>1. \A q \in DOMAIN rooms : FinalIn(rooms[q].players, rooms[q].players)
  BY DEF FinalIn, Final
<1> QED BY <1>1 DEF FinalRooms, Put

\* No step of any thread changes the result of a fallen player, except the start of a new
\* battle in its room.
LEMMA NextFinal ==
  ASSUME WInv, Next
  PROVE  FinalRooms
<1>1. RoomsOK(rooms) /\ IsWorker(worker) /\ io \in [IOThreads -> IOState]
      /\ \A t \in IOThreads : io[t].pc = "apply" => io[t].op \in Op
  BY DEF WInv, WTypes
<1>2. \A q \in DOMAIN rooms : FinalIn(rooms[q].players, rooms[q].players)
  BY DEF FinalIn, Final
<1>3. CASE rooms' = rooms
  BY <1>2, <1>3 DEF FinalRooms
<1>4. ASSUME NEW t \in IOThreads, DrainApply(t) PROVE FinalRooms
  <2>1. io[t].pc = "apply" /\ io[t].op \in Op /\ rooms' = applyOp(rooms, io[t].op)
    BY <1>1, <1>4 DEF DrainApply
  <2>2. io'[t] # io[t]
    BY <1>1, <1>4 DEF DrainApply, IOState
  <2>3. ASSUME NEW r \in DOMAIN rooms, ~carries(io[t].op, r)
        PROVE  r \in DOMAIN rooms' /\ rooms'[r].players = rooms[r].players
    BY <2>1, <2>3, ApplyOpFinal
  <2> QED BY <1>2, <2>1, <2>2, <2>3 DEF FinalRooms, Restarted
<1>5. CASE WorkerApply
  <2>1. worker.pc = "apply" /\ worker.op \in Op /\ rooms' = applyOp(rooms, worker.op)
    BY <1>1, <1>5 DEF WorkerApply, IsWorker
  <2>2. worker' # worker
    BY <2>1, <1>5 DEF WorkerApply, Draining, At
  <2>3. ASSUME NEW r \in DOMAIN rooms, ~carries(worker.op, r)
        PROVE  r \in DOMAIN rooms' /\ rooms'[r].players = rooms[r].players
    BY <2>1, <2>3, ApplyOpFinal
  <2> QED BY <1>2, <2>1, <2>2, <2>3 DEF FinalRooms, Restarted
<1>6. ASSUME NEW near \in BOOLEAN, TickCommand(near), rooms' # rooms PROVE FinalRooms
  <2> DEFINE r   == worker.room
             cmd == worker.cmds[worker.done + 1]
             ps  == rooms[r].players
             qs  == execute(ps, cmd, near)
  <2>1. /\ worker.pc = "command" /\ worker.done < Len(worker.cmds) /\ accepts(ps, seqs, cmd)
        /\ rooms' = Put(rooms, r, [players |-> qs, lost |-> rooms[r].lost])
    BY <1>6 DEF TickCommand
  <2>2. r \in DOMAIN rooms /\ cmd \in Command
    BY <1>1, <2>1 DEF IsWorker
  <2>3. FinalIn(ps, qs)
    BY <2>1, <2>2, ExecuteFinal DEF accepts
  <2> HIDE DEF qs, cmd, r
  <2> QED BY <2>1, <2>2, <2>3, PutRoomFinal
<1>7. CASE TickCooldowns
  <2> DEFINE r  == worker.room
             qs == updateCooldowns(rooms[r].players)
  <2>1. r \in DOMAIN rooms /\ rooms' = Put(rooms, r, [players |-> qs, lost |-> rooms[r].lost])
    BY <1>1, <1>7 DEF TickCooldowns, IsWorker
  <2>2. FinalIn(rooms[r].players, qs)
    BY CooldownsFinal
  <2> HIDE DEF qs, r
  <2> QED BY <2>1, <2>2, PutRoomFinal
<1>8. CASE TickTimeouts
  <2> DEFINE r    == worker.room
             room == dropOverdue(rooms[r])
  <2>1. r \in DOMAIN rooms /\ rooms' = Put(rooms, r, room)
    BY <1>1, <1>8 DEF TickTimeouts, IsWorker
  <2>2. FinalIn(rooms[r].players, room.players)
    BY <1>1, <2>1, DropOverdueFinal DEF RoomsOK
  <2> HIDE DEF room, r
  <2> QED BY <2>1, <2>2, PutRoomFinal
<1>9. CASE TimePasses
  <2>1. DOMAIN rooms' = DOMAIN rooms /\ \A r \in DOMAIN rooms : rooms'[r].players = rooms[r].players
    BY <1>9 DEF TimePasses
  <2> QED BY <1>2, <2>1 DEF FinalRooms
<1> QED BY <1>3, <1>4, <1>5, <1>6, <1>7, <1>8, <1>9, Zenon
        DEF Next, IOStep, WorkerStep, StartBattle, StartBattleElsewhere, CountRooms, DrainPop, StartThread,
            DispatchCommand, OnPlayerDisconnect, WorkerPop, WorkerDrained, TickStart, TickLock

\* Once a player has fallen in a battle, nothing that comes late (a command that was queued
\* before, a hit, the timeout of its connection, an operation of another thread) revives
\* it or changes its kills, deaths and damage, until its room starts a new battle.
THEOREM FallenAreFinal == Spec => [][FinalRooms]_vars
<1>1. WInv /\ [Next]_vars => [FinalRooms]_vars
  BY NextFinal
<1> QED BY <1>1, WorkerInvariance, PTL DEF Spec

=============================================================================
