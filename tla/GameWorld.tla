----------------------------- MODULE GameWorld -----------------------------
(***************************************************************************)
(* The player's side of the world: app/services/tool_executor.py with      *)
(* app/game/items.py, npcs.py, world.py, traversal.py, the effects of the   *)
(* generated abilities (abilities.py), derive_story_signal and the loading *)
(* of a campaign state.  A world is a record of the namespaces of the      *)
(* campaign state; each tool takes a loaded world and returns what it did: *)
(* the world and the story signal that follows.                            *)
(* What a player calls something is a name; how names are normalised is    *)
(* part of RoomNames, ItemNames, NpcNames and the names of a route.         *)
(***************************************************************************)
EXTENDS Naturals, Sequences, FiniteSets

CONSTANTS Room, Npc, Item,
          Exits,        \* [Room -> Seq(<<direction, room>>)], in order
          Routes,       \* traversal_routes: records, see Compatible
          RoomNames,    \* [Room -> set of names]: id and name
          ItemNames,    \* [Item -> set of names]: id, name, aliases, tags
          NpcNames,     \* [Npc -> set of names]
          Portable, Openable, Lightable, Ignition, Locked, \* subsets of Item
          StartRoom,
          DefaultPlace, \* [the items of DEFAULT_ITEMS -> Room]
          Gear,         \* STARTING_INVENTORY_POOL
          GearCount,    \* STARTING_INVENTORY_SIZE
          StartNpc,     \* [Npc -> Room]
          Absent,       \* the place of an item the campaign does not have
          NoSignal

Inventory == "player:current"
Place == Room \cup {Inventory, Absent}
NpcStatus == {"active", "absent"}

\* The inventory list is of item ids, or of names in an old save.
WorldState == [room : Room, place : [Item -> Place], inventory : SUBSET STRING,
               open : SUBSET Openable, lit : SUBSET Lightable,
               npc : [Npc -> [at : Room, status : NpcStatus]],
               tick : Nat, facts : SUBSET STRING, clues : SUBSET STRING]

ASSUME WorldAssumption ==
  /\ Exits \in [Room -> Seq(STRING \X Room)]
  /\ \A route \in Routes : route.to \in Room
  /\ Item \subseteq STRING /\ \A i \in Item : i \in ItemNames[i]
  /\ DOMAIN DefaultPlace \cup Gear \subseteq Item
  /\ \A i \in DOMAIN DefaultPlace : DefaultPlace[i] \in Room
  /\ StartRoom \in Room /\ StartNpc \in [Npc -> Room]
  /\ Inventory \notin Room /\ Absent \notin Room \cup {Inventory}

\* TraversalRoute refuses a route that ends where it starts; that no exit
\* does is a fact of the authored map.
ASSUME WaysLeadElsewhere ==
  /\ \A room \in Room : \A k \in DOMAIN Exits[room] : Exits[room][k][2] # room
  /\ \A route \in Routes : route.from # route.to

\* build_fresh_campaign_state: every default item and some of the gear.
FreshWorlds ==
  {[room |-> StartRoom,
    place |-> [i \in Item |-> IF i \in DOMAIN DefaultPlace THEN DefaultPlace[i]
                              ELSE IF i \in gear THEN Inventory ELSE Absent],
    inventory |-> gear,
    open |-> {}, lit |-> {},
    npc |-> [n \in Npc |-> [at |-> StartNpc[n], status |-> "active"]],
    tick |-> 0, facts |-> {}, clues |-> {}] :
   gear \in {g \in SUBSET Gear : Cardinality(g) = GearCount}}
-----------------------------------------------------------------------------
(* Names and loading.                                                       *)

ItemsNamed(name, items) == {i \in items : name \in ItemNames[i]}
Known(w) == {i \in Item : w.place[i] # Absent}
Here(w) == {i \in Item : w.place[i] = w.room}
Carried(w) == {i \in Item : w.place[i] = Inventory}
The(set) == CHOOSE x \in set : TRUE

\* sync_inventory_projection.
Synced(w) == [w EXCEPT !.inventory = Carried(w)]

\* ensure_items_state: a default item that is missing is where it starts.
Defaulted(w) == [w EXCEPT !.place = [i \in Item |->
                   IF w.place[i] = Absent /\ i \in DOMAIN DefaultPlace
                   THEN DefaultPlace[i] ELSE w.place[i]]]

\* _migrate_legacy_inventory: what a name of the inventory list says for
\* certain is carried, wherever it was stored to be.
Migrated(w) ==
  LET carried == {i \in Item : \E name \in w.inventory : ItemsNamed(name, Known(w)) = {i}}
  IN [w EXCEPT !.place = [i \in Item |-> IF i \in carried THEN Inventory ELSE w.place[i]]]

\* load_authoritative_campaign_state.
Load(w) == Synced(Migrated(Defaulted(w)))
-----------------------------------------------------------------------------
(* What a tool did, and the story signal derived from it: a refusal changes *)
(* nothing and tells the story nothing.                                     *)

Done(guard, w, next, signal) ==
  [world |-> IF guard THEN next ELSE w, signal |-> IF guard THEN signal ELSE NoSignal]
Refused(w) == [world |-> w, signal |-> NoSignal]

\* move_player and World.resolve_exit: the first exit the name fits.
ExitsNamed(room, name) ==
  {k \in DOMAIN Exits[room] : \/ name = Exits[room][k][1]
                              \/ name \in RoomNames[Exits[room][k][2]]}
MovePlayer(w, name) ==
  LET first == {k \in ExitsNamed(w.room, name) :
                  \A j \in ExitsNamed(w.room, name) : k <= j}
      to == Exits[w.room][The(first)][2]
  IN IF first = {} THEN Refused(w)
     ELSE Done(TRUE, w, [w EXCEPT !.room = to], <<"room_entered", to>>)

\* talk_to_npc: a name that fits exactly one of those who are here.
BugPresent(w) == {n \in Npc : w.npc[n].at = w.room}
Present(w) == {n \in Npc : w.npc[n].at = w.room /\ w.npc[n].status # "absent"}
TalkToNpc(w, name) ==
  LET fits == {n \in Present(w) : name \in NpcNames[n]}
  IN IF Cardinality(fits) = 1
     THEN Done(TRUE, w, w, <<"npc_spoken_to", The(fits)>>)
     ELSE Refused(w)

\* _resolve_item_in_scope: a name that fits nothing in scope is looked for
\* everywhere, for the sake of the error; two fits are a refusal.
ItemInScope(w, name, scope) ==
  IF ItemsNamed(name, scope) # {} THEN ItemsNamed(name, scope)
  ELSE ItemsNamed(name, Known(w))

\* move_room_item_to_inventory.
Take(w, i) == Synced([w EXCEPT !.place[i] = Inventory])

BugTakeItem(w, name) ==
  LET fits == ItemInScope(w, name, Here(w))
      i == The(fits)
  IN IF Cardinality(fits) # 1 THEN Refused(w)
     ELSE Done(i \notin Carried(w) /\ i \in Portable, w, Take(w, i), <<"item_acquired", i>>)
TakeItem(w, name) ==
  LET fits == ItemInScope(w, name, Here(w))
      i == The(fits)
  IN IF Cardinality(fits) # 1 THEN Refused(w)
     ELSE Done(i \in Here(w) /\ i \in Portable, w, Take(w, i), <<"item_acquired", i>>)

BugDropped(w, i) == [w EXCEPT !.place[i] = w.room]
Dropped(w, i) == Synced([w EXCEPT !.place[i] = w.room])
DropItem(w, name) ==
  LET fits == ItemInScope(w, name, Carried(w))
      i == The(fits)
  IN IF Cardinality(fits) # 1 THEN Refused(w)
     ELSE Done(i \in Carried(w), w, Dropped(w, i), NoSignal)
-----------------------------------------------------------------------------
(* interact_with_item, alone or with a carried item.                        *)

SetOpen(w, i, guard, open) ==
  Done(i \in Openable /\ guard, w,
       [w EXCEPT !.open = IF open THEN @ \cup {i} ELSE @ \ {i}], NoSignal)
SetLit(w, i, guard, lit) ==
  Done(i \in Lightable /\ guard, w,
       [w EXCEPT !.lit = IF lit THEN @ \cup {i} ELSE @ \ {i}], NoSignal)

\* used is the set of the carried item that is used on i, or empty.
Toggled(w, i, mode, used) ==
  CASE mode = "open" -> SetOpen(w, i, i \notin w.open, TRUE)
    [] mode = "close" -> SetOpen(w, i, i \in w.open, FALSE)
    [] mode = "light" -> SetLit(w, i, i \notin w.lit /\ used \cap Ignition # {}, TRUE)
    [] mode = "extinguish" -> SetLit(w, i, i \in w.lit, FALSE)
    [] OTHER -> Refused(w)

AtHand(w) == Here(w) \cup Carried(w)

Interact(w, name, mode) ==
  LET fits == ItemsNamed(name, AtHand(w))
  IN IF Cardinality(fits) = 1 THEN Toggled(w, The(fits), mode, {}) ELSE Refused(w)

\* Using one item with another needs no mode where lighting is possible.
Use(w, name, mode, with) ==
  LET fits == ItemsNamed(name, AtHand(w))
      used == ItemsNamed(with, Carried(w))
  IN IF Cardinality(fits) = 1 /\ Cardinality(used) = 1
     THEN Toggled(w, The(fits),
                  IF mode = "none" /\ The(fits) \in Lightable THEN "light" ELSE mode, used)
     ELSE Refused(w)

\* The wait action: at least one tick, whatever the amount.
Wait(w, amount) ==
  Done(TRUE, w, [w EXCEPT !.tick = @ + (IF amount = 0 THEN 1 ELSE amount)], NoSignal)

\* ToolRegistry.execute, for the one tool a remote server may have: its answer
\* replaces the state, if there is a state in it (external: the one the tool
\* makes of it); a failure or a timeout leaves it to the local tool.
Executed(w, local) == {local, [world |-> w, signal |-> NoSignal]}
-----------------------------------------------------------------------------
(* Generated abilities that change the world.  A power is the pair of an    *)
(* effect and its detail.  They reach for what is in the room only.         *)

Retrieve(w, name) ==
  LET fits == ItemsNamed(name, Here(w))
  IN IF Cardinality(fits) # 1 THEN Refused(w)
     ELSE Done(The(fits) \in Portable, w, Take(w, The(fits)), <<"item_acquired", The(fits)>>)

ToggleByAbility(w, detail, name) ==
  LET fits == ItemsNamed(name, Here(w))
      i == The(fits)
  IN IF Cardinality(fits) # 1 THEN Refused(w)
     ELSE IF detail = "open" THEN SetOpen(w, i, i \notin Locked, i \notin w.open)
     ELSE SetLit(w, i, TRUE, i \notin w.lit)

\* validate_route_capability.
Compatible(route, method) ==
  /\ route.stable
  /\ \/ method = "levitation" /\ route.kind = "vertical" /\ route.clear
     \/ method = "spider_climb" /\ route.kind \in {"vertical", "surface"} /\ route.support
     \/ /\ method = "supernatural_jump"
        /\ route.kind = "gap" \/ (route.kind = "vertical" /\ route.clear)
        /\ route.metres <= 3
     \/ method = "water_walking" /\ route.kind = "water" /\ route.water

\* resolve_local_route: a name that fits exactly one crossing from here.
Traverse(w, method, name) ==
  LET fits == {route \in Routes : route.from = w.room /\ name \in route.names}
      to == The(fits).to
  IN IF Cardinality(fits) # 1 THEN Refused(w)
     ELSE Done(Compatible(The(fits), method), w,
               [w EXCEPT !.room = to], <<"room_entered", to>>)

UseAbility(w, power, name) ==
  CASE power[1] = "move" -> Retrieve(w, name)
    [] power[1] = "toggle" -> ToggleByAbility(w, power[2], name)
    [] power[1] = "traverse" -> Traverse(w, power[2], name)
    [] OTHER -> Refused(w)
=============================================================================
