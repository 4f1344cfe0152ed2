----------------------------- MODULE TickEngine -----------------------------
(***************************************************************************)
(* TickEngine (src/game/tick_engine.{h,cpp}, battle_player.h, command.h):  *)
(* what one command, and one tick, do to the players of a battle.          *)
(*                                                                         *)
(* A battle is a map ps from player ids to BattlePlayers.  Positions and   *)
(* directions are left out: all that a command asks of them is whether its *)
(* target is in range, which comes with the command as near.  So MOVE,     *)
(* which changes nothing else, does nothing but use up its sequence        *)
(* number.  STOP_MOVE and LEAVE are never sent.  Cooldowns are counted in  *)
(* ticks of 50 ms; a skill that is not in the map has cooldown 0.          *)
(***************************************************************************)
EXTENDS Integers, Maps

CONSTANTS
  Players,
  MaxHp, Atk, Def,   \* 1000, 100 and 50 in BattlePlayer
  kSkills            \* skill id -> [cooldown, ratio, aoe], ratio in tenths

ASSUME StatsAssumption ==
  /\ MaxHp \in Nat \ {0}
  /\ Atk \in Nat
  /\ Def \in Nat

ASSUME SkillsAssumption ==
  kSkills \in [DOMAIN kSkills -> [cooldown : Nat, ratio : Nat, aoe : BOOLEAN]]

BattlePlayer ==
  [hp : 0 .. MaxHp, alive : BOOLEAN, cooldowns : [DOMAIN kSkills -> Nat],
   kills : Nat, deaths : Nat, dealt : Nat, taken : Nat]

newBattlePlayer ==
  [hp |-> MaxHp, alive |-> TRUE, cooldowns |-> [k \in DOMAIN kSkills |-> 0],
   kills |-> 0, deaths |-> 0, dealt |-> 0, taken |-> 0]

calcDamage(atk, def) == IF atk - def \div 2 > 1 THEN atk - def \div 2 ELSE 1

\* static_cast<int32_t>(calcDamage(..) * skill.damage_ratio)
skillDamage(id) == (calcDamage(Atk, Def) * kSkills[id].ratio) \div 10

-----------------------------------------------------------------------------
(***************************************************************************)
(* A hit of a on t, who may be the same player: the references attacker    *)
(* and target then name one object, which gets both sides of the entry.    *)
(***************************************************************************)

\* Mutant: hit points are not kept from falling below zero.
woundUnclamped(b, dmg) ==
  [hp |-> b.hp - dmg, alive |-> b.hp > dmg /\ b.alive, cooldowns |-> b.cooldowns,
   kills |-> b.kills, deaths |-> IF b.hp <= dmg THEN b.deaths + 1 ELSE b.deaths,
   dealt |-> b.dealt, taken |-> b.taken + dmg]

\* Mutant: hp < 0 where the code has hp <= 0.
woundSurvivesZero(b, dmg) ==
  [hp |-> IF b.hp < dmg THEN 0 ELSE b.hp - dmg,
   alive |-> b.hp >= dmg /\ b.alive, cooldowns |-> b.cooldowns,
   kills |-> b.kills, deaths |-> IF b.hp < dmg THEN b.deaths + 1 ELSE b.deaths,
   dealt |-> b.dealt, taken |-> b.taken + dmg]

wound(b, dmg) ==
  [hp |-> IF b.hp <= dmg THEN 0 ELSE b.hp - dmg,
   alive |-> b.hp > dmg /\ b.alive, cooldowns |-> b.cooldowns,
   kills |-> b.kills, deaths |-> IF b.hp <= dmg THEN b.deaths + 1 ELSE b.deaths,
   dealt |-> b.dealt, taken |-> b.taken + dmg]

credit(b, dmg, killed) ==
  [hp |-> b.hp, alive |-> b.alive, cooldowns |-> b.cooldowns,
   kills |-> IF killed THEN b.kills + 1 ELSE b.kills, deaths |-> b.deaths,
   dealt |-> b.dealt + dmg, taken |-> b.taken]

\* Mutant: the attacker is a copy, not a reference.
hitByCopy(ps, a, t, dmg) ==
  Put(Put(ps, t, wound(ps[t], dmg)), a, credit(ps[a], dmg, ps[t].hp <= dmg))

hit(ps, a, t, dmg) ==
  LET ws == Put(ps, t, wound(ps[t], dmg))
  IN  Put(ws, a, credit(ws[a], dmg, ps[t].hp <= dmg))

processAttack(ps, a, t, near) ==
  IF ps[a].alive /\ ps[t].alive /\ near THEN hit(ps, a, t, calcDamage(Atk, Def)) ELSE ps

setCooldown(b, id) ==
  [hp |-> b.hp, alive |-> b.alive,
   cooldowns |-> [b.cooldowns EXCEPT ![id] = kSkills[id].cooldown],
   kills |-> b.kills, deaths |-> b.deaths, dealt |-> b.dealt, taken |-> b.taken]

\* The cooldown is set whether or not anybody is hit.  An AOE skill hits its
\* primary target only, at any distance.
processSkill(ps, a, t, id, near) ==
  IF ~ps[a].alive \/ id \notin DOMAIN kSkills THEN ps
  ELSE IF ps[a].cooldowns[id] > 0 THEN ps
  ELSE LET qs == Put(ps, a, setCooldown(ps[a], id))
       IN  IF t \in DOMAIN ps /\ ps[t].alive /\ (kSkills[id].aoe \/ near)
           THEN hit(qs, a, t, skillDamage(id))
           ELSE qs

\* The effect of a command that is neither a duplicate nor of a dead player.
execute(ps, cmd, near) ==
  CASE cmd.type = "MOVE"   -> ps
    [] cmd.type = "ATTACK" -> IF cmd.target \in DOMAIN ps
                              THEN processAttack(ps, cmd.player, cmd.target, near)
                              ELSE ps
    [] cmd.type = "SKILL"  -> processSkill(ps, cmd.player, cmd.target, cmd.skill, near)

coolDown(b) ==
  [hp |-> b.hp, alive |-> b.alive,
   cooldowns |-> [k \in DOMAIN kSkills |-> IF b.cooldowns[k] > 1 THEN b.cooldowns[k] - 1 ELSE 0],
   kills |-> b.kills, deaths |-> b.deaths, dealt |-> b.dealt, taken |-> b.taken]

updateCooldowns(ps) == [p \in DOMAIN ps |-> coolDown(ps[p])]

-----------------------------------------------------------------------------
(***************************************************************************)
(* Sequence numbers: last_seq_, one per player for all rooms of the worker.*)
(***************************************************************************)

\* Mutant: the last sequence number itself is let through.
isDuplicateStrict(seqs, cmd) == cmd.player \in DOMAIN seqs /\ cmd.seq < seqs[cmd.player]

isDuplicate(seqs, cmd) == cmd.player \in DOMAIN seqs /\ cmd.seq <= seqs[cmd.player]

\* Whether processTick gets past its two continues.
accepts(ps, seqs, cmd) ==
  /\ cmd.player \in DOMAIN ps
  /\ ps[cmd.player].alive
  /\ ~isDuplicate(seqs, cmd)

=============================================================================
