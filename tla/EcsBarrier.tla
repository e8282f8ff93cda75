----------------------------- MODULE EcsBarrier -----------------------------
(***************************************************************************)
(* The staged structural command barrier of gummy_ecs.  Commands pile up   *)
(* in the World's CommandBuffer while direct calls go on changing the      *)
(* world; apply_staged first validates the whole buffer against an overlay *)
(* of component sets, then drains it and applies one command after another.*)
(* The apply loop is one step per command here, and nothing else runs      *)
(* while it does (apply_staged borrows the world mutably): a command that  *)
(* failed in the middle would be seen as outcome "failed".                 *)
(***************************************************************************)
EXTENDS EcsWorld

CONSTANTS
  Unregistered,  \* component names no schema is registered for
  MaxStaged      \* bound: commands in the buffer

ASSUME BarrierAssumption ==
  /\ Unregistered \cap Components = {}
  /\ MaxStaged \in Nat

VARIABLES
  staged,     \* the CommandBuffer
  pending,    \* drained commands the running apply_staged has still to apply
  before,     \* ghost: every entity's component set when that apply_staged began
  batch,      \* ghost: the commands it drained
  outcome     \* of the last apply_staged: "none", "ok", "rejected" or "failed"

barrierVars == <<staged, pending, before, batch, outcome>>
allBarrierVars == <<worldVars, barrierVars>>

Names == Components \union Unregistered

\* A caller may name any handle it was ever given, live or stale.
Command ==
  [op : {"spawn"}, components : SUBSET Names, tags : SUBSET Tags]
    \union [op : {"despawn"}, entity : Issued]
    \union [op : {"add", "remove"}, entity : Issued, component : Names]

-----------------------------------------------------------------------------
(* validate_staged_barrier: each command is checked against an overlay of  *)
(* component sets that the ones before it have left.                       *)

Gone == [live |-> FALSE, key |-> {}]

Having(key) == [live |-> TRUE, key |-> key]

\* staged_component_state: what earlier commands of the buffer left of e, or
\* else what the world holds.
OverlayEntry(overlay, e) ==
  IF e \in DOMAIN overlay THEN overlay[e]
  ELSE IF Located(e) THEN Having(arch[loc[e.index].arch].key)
  ELSE Gone

Overlay(overlay, e, state) ==
  [x \in DOMAIN overlay \union {e} |-> IF x = e THEN state ELSE overlay[x]]

Changed(key, command) ==
  IF command.op = "add" THEN key \union {command.component}
                        ELSE key \ {command.component}

\* What validation asks of the next command.
Allowed(overlay, command) ==
  \/ command.op = "spawn" /\ command.components \subseteq Components
  \/ command.op = "despawn" /\ OverlayEntry(overlay, command.entity).live
  \/ LET entry == OverlayEntry(overlay, command.entity) IN
     /\ command.op \in {"add", "remove"}
     /\ command.component \in Components
     /\ entry.live
     /\ Changed(entry.key, command) # entry.key

\* Mutant: a despawn is checked and then forgotten.
OverlaidKeeping(overlay, command) ==
  IF command.op \in {"spawn", "despawn"} THEN overlay
  ELSE Overlay(overlay, command.entity,
               Having(Changed(OverlayEntry(overlay, command.entity).key, command)))

\* The component sets after it, if it is allowed.
Overlaid(overlay, command) ==
  IF command.op = "spawn" THEN overlay
  ELSE Overlay(overlay, command.entity,
               IF command.op = "despawn" THEN Gone
               ELSE Having(Changed(OverlayEntry(overlay, command.entity).key, command)))

Overlays(commands) ==
  LET overlay[i \in 0 .. Len(commands)] ==
        IF i = 0 THEN [x \in {} |-> Gone] ELSE Overlaid(overlay[i - 1], commands[i])
  IN overlay

BarrierValid(commands) ==
  LET overlay == Overlays(commands)
  IN \A i \in 1 .. Len(commands) : Allowed(overlay[i - 1], commands[i])

-----------------------------------------------------------------------------
BarrierInit ==
  /\ WorldInit
  /\ staged = <<>>
  /\ pending = <<>>
  /\ before = [e \in {} |-> {}]
  /\ batch = <<>>
  /\ outcome = "none"

Idle == pending = <<>>

KeyOf(e) == arch[loc[e.index].arch].key

Keys == [e \in order |-> KeyOf(e)]

ClearOutcome ==
  /\ outcome' = "none"
  /\ before' = [e \in {} |-> {}]
  /\ batch' = <<>>

\* A direct call between staging and the barrier.
Direct ==
  /\ Idle
  /\ WorldNext
  /\ ClearOutcome
  /\ UNCHANGED <<staged, pending>>

\* stage_spawn, stage_despawn, stage_add_component, stage_remove_component:
\* no check is made until the barrier.
Stage(command) ==
  /\ Idle
  /\ Len(staged) < MaxStaged
  /\ staged' = Append(staged, command)
  /\ ClearOutcome
  /\ UNCHANGED <<worldVars, pending>>

\* Mutant: the buffer is copied into the loop, not drained.
EnterBarrierCopying ==
  /\ Idle
  /\ staged # <<>>
  /\ before' = Keys
  /\ batch' = staged
  /\ IF BarrierValid(staged)
       THEN pending' = staged /\ outcome' = "none"
       ELSE outcome' = "rejected" /\ UNCHANGED pending
  /\ UNCHANGED <<staged, worldVars>>

\* apply_staged up to its loop: a buffer that does not validate is kept and
\* Err returned; a valid one is drained.
EnterBarrier ==
  /\ Idle
  /\ staged # <<>>
  /\ before' = Keys
  /\ batch' = staged
  /\ IF BarrierValid(staged)
       THEN pending' = staged /\ staged' = <<>> /\ outcome' = "none"
       ELSE outcome' = "rejected" /\ UNCHANGED <<staged, pending>>
  /\ UNCHANGED worldVars

\* The method a command is dispatched to.
Perform(command) ==
  \/ /\ command.op = "spawn"
     /\ Spawn([c \in command.components |-> Default], command.tags)
  \/ command.op = "despawn" /\ Despawn(command.entity)
  \/ command.op = "add" /\ AddComponent(command.entity, command.component)
  \/ command.op = "remove" /\ RemoveComponent(command.entity, command.component)

\* Whether that method returns Ok in the world as it is now.
Succeeds(command) ==
  \/ command.op = "spawn" /\ command.components \subseteq Components
  \/ command.op = "despawn" /\ Located(command.entity)
  \/ /\ command.op \in {"add", "remove"}
     /\ command.component \in Components
     /\ Located(command.entity)
     /\ command.op = "add" <=> command.component \notin KeyOf(command.entity)

\* One turn of apply_staged's loop.  On Err the `?` leaves it with the earlier
\* commands applied and the later ones dropped.
ApplyCommand ==
  /\ ~Idle
  /\ IF Succeeds(Head(pending))
       THEN /\ Perform(Head(pending))
            /\ pending' = Tail(pending)
            /\ outcome' = IF Len(pending) = 1 THEN "ok" ELSE "none"
       ELSE /\ pending' = <<>>
            /\ outcome' = "failed"
            /\ UNCHANGED worldVars
  /\ UNCHANGED <<staged, before, batch>>

BarrierNext ==
  \/ Direct
  \/ \E command \in Command : Stage(command)
  \/ EnterBarrier
  \/ ApplyCommand

BarrierSpec == BarrierInit /\ [][BarrierNext]_allBarrierVars

-----------------------------------------------------------------------------
(* Properties.                                                             *)

\* The buffer is always a sequence of commands within its bound, and only a
\* running barrier has commands pending.
BarrierTypeOK ==
  /\ TypeOK
  /\ staged \in Seq(Command) /\ Len(staged) <= MaxStaged
  /\ pending = SubSeq(batch, Len(batch) - Len(pending) + 1, Len(batch))
  /\ ~Idle => staged = <<>> /\ outcome = "none"
  /\ outcome \in {"none", "ok", "rejected", "failed"}

\* What a command means for the component sets of the entities that existed
\* before the barrier: a spawn does nothing to them.
Meaning(keys, command) ==
  CASE command.op = "spawn" -> keys
    [] command.op = "despawn" ->
         [e \in DOMAIN keys \ {command.entity} |-> keys[e]]
    [] command.op = "add" ->
         [keys EXCEPT ![command.entity] = @ \union {command.component}]
    [] command.op = "remove" ->
         [keys EXCEPT ![command.entity] = @ \ {command.component}]

\* The component sets after each command.
Meant(keys, commands) ==
  LET after[i \in 0 .. Len(commands)] ==
        IF i = 0 THEN keys ELSE Meaning(after[i - 1], commands[i])
  IN after

\* A barrier is all or nothing (World::apply_staged).  When it returns Ok,
\* every command of the batch has had its effect, in order, on the entities
\* there were, and each spawn made one new entity with its components; when it
\* refuses, no entity has changed and the whole buffer is still staged; it
\* never stops half way.
AllOrNothing ==
  /\ outcome # "failed"
  /\ outcome = "ok" =>
       LET expected == Meant(before, batch)[Len(batch)]
           spawned  == order \ DOMAIN before
       IN /\ order \cap DOMAIN before = DOMAIN expected
          /\ \A e \in DOMAIN expected : KeyOf(e) = expected[e]
          /\ \A K \in SUBSET Components :
               Cardinality({e \in spawned : KeyOf(e) = K}) =
               Cardinality({i \in 1 .. Len(batch) :
                              /\ batch[i].op = "spawn"
                              /\ batch[i].components = K})
  /\ outcome = "rejected" => Keys = before /\ staged = batch
=============================================================================
