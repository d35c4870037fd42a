--------------------------- MODULE GameTurnProofs ---------------------------
(***************************************************************************)
(* Theorems about GameTurn, for any rooms, items, characters, names,        *)
(* abilities, quests and Directors' proposals.  The argument goes tool by   *)
(* tool: each turns a loaded world into one that is as good as loaded       *)
(* (Tidy), moves at most one item between the room and the player's hands,  *)
(* leaves facts and clues alone and signals what StoryProgression expects   *)
(* and what came about (Deed).  What a signal does to the story is proved of *)
(* StoryProgression.                                                        *)
(***************************************************************************)
EXTENDS GameTurn, Induction

Told == INSTANCE StoryProgressionProofs

\* What loading brings about, and no tool or Director undoes: the inventory
\* list is the items carried, by id, and no default item is missing.
Tidy(w) == /\ w.inventory = Carried(w)
           /\ \A i \in DOMAIN DefaultPlace : w.place[i] # Absent

\* The places of next are those of w, but for one item that went from the
\* room to the player's hands or back.
Handled(w, next) ==
  \/ next.place = w.place
  \/ \E i \in Item : /\ next.place = [w.place EXCEPT ![i] = Inventory]
                     /\ w.place[i] = w.room
  \/ \E i \in Item : /\ next.place = [w.place EXCEPT ![i] = w.room]
                     /\ w.place[i] = Inventory

\* What a tool signals has come about between w and the world it leaves.
Brings(w, done) ==
  \/ done.signal = NoSignal
  \/ \E room \in Room \ {w.room} : /\ done.signal = <<"room_entered", room>>
                                  /\ done.world.room = room
  \/ \E n \in Npc : /\ done.signal = <<"npc_spoken_to", n>>
                    /\ w.npc[n] = [at |-> w.room, status |-> "active"]
  \/ \E i \in Item : /\ done.signal = <<"item_acquired", i>>
                     /\ w.place[i] = w.room
                     /\ done.world.place[i] = Inventory

\* What every tool's result is to the world w it ran on.
Deed(w, done) == /\ done.world \in WorldState
                 /\ Tidy(done.world)
                 /\ done.world.facts = w.facts
                 /\ done.world.clues = w.clues
                 /\ Handled(w, done.world)
                 /\ done.signal \in Signal \cup {NoSignal}
                 /\ Brings(w, done)
-----------------------------------------------------------------------------
(* Names and loading.                                                       *)

\* The picks a member of a set that is not empty.
LEMMA TheMember == ASSUME NEW S, S # {} PROVE The(S) \in S
  BY DEF The

\* A set of one element is not empty.
LEMMA OneIsSome == ASSUME NEW S, Cardinality(S) = 1 PROVE S # {}
  BY FS_EmptySet

\* Loading gives a well-typed, tidy world, and leaves clues, facts, the
\* clock and the player's room alone.
LEMMA LoadTidies ==
  ASSUME NEW w \in WorldState
  PROVE  /\ Load(w) \in WorldState /\ Tidy(Load(w))
         /\ Load(w).facts = w.facts /\ Load(w).clues = w.clues /\ Load(w).tick = w.tick
         /\ Load(w).room = w.room
<1> DEFINE d == Defaulted(w)
           m == Migrated(d)
<1>1. d \in WorldState /\ \A i \in DOMAIN DefaultPlace : d.place[i] # Absent
  BY WorldAssumption DEF WorldState, Defaulted, Place
<1>2. d.facts = w.facts /\ d.clues = w.clues /\ d.tick = w.tick /\ d.room = w.room
  BY DEF WorldState, Defaulted
<1> HIDE DEF d
<1>3. m \in WorldState /\ \A i \in DOMAIN DefaultPlace : m.place[i] # Absent
  BY <1>1, WorldAssumption DEF WorldState, Migrated, Place
<1>4. m.facts = d.facts /\ m.clues = d.clues /\ m.tick = d.tick /\ m.room = d.room
  BY <1>1 DEF WorldState, Migrated
<1> HIDE DEF m
<1>5. Synced(m) \in WorldState /\ Tidy(Synced(m))
  BY <1>3, WorldAssumption DEF WorldState, Synced, Tidy, Carried
<1>6. Synced(m).facts = m.facts /\ Synced(m).clues = m.clues /\ Synced(m).tick = m.tick
      /\ Synced(m).room = m.room
  BY <1>3 DEF WorldState, Synced
<1> QED
  BY <1>2, <1>4, <1>5, <1>6 DEF Load, m, d

\* Loading a tidy world changes nothing.
LEMMA TidyIsLoaded ==
  ASSUME NEW w \in WorldState, Tidy(w)
  PROVE  Load(w) = w
<1>1. Defaulted(w) = w
  <2>1. [i \in Item |-> IF w.place[i] = Absent /\ i \in DOMAIN DefaultPlace
                        THEN DefaultPlace[i] ELSE w.place[i]] = w.place
    BY DEF Tidy, WorldState
  <2> QED
    BY <2>1 DEF Defaulted, WorldState
<1>2. Migrated(w) = w
  <2> DEFINE carried == {i \in Item : \E name \in w.inventory :
                                        ItemsNamed(name, Known(w)) = {i}}
  <2>1. ASSUME NEW i \in carried PROVE w.place[i] = Inventory
    <3>1. PICK name \in w.inventory : ItemsNamed(name, Known(w)) = {i}
      OBVIOUS
    <3>2. name \in Item /\ w.place[name] = Inventory
      BY DEF Tidy, Carried
    <3>3. name \in ItemsNamed(name, Known(w))
      BY <3>2, WorldAssumption DEF ItemsNamed, Known
    <3> QED
      BY <3>1, <3>2, <3>3
  <2>2. [i \in Item |-> IF i \in carried THEN Inventory ELSE w.place[i]] = w.place
    BY <2>1 DEF WorldState
  <2> QED
    BY <2>2 DEF Migrated, WorldState
<1>3. Synced(w) = w
  BY DEF Synced, Tidy, WorldState
<1> QED
  BY <1>1, <1>2, <1>3 DEF Load
-----------------------------------------------------------------------------
(* Each tool's result is a Deed.                                            *)

\* Doing nothing is a deed, and so is doing something only if it is one.
LEMMA RefusedIsDeed ==
  ASSUME NEW w \in WorldState, Tidy(w)
  PROVE  Deed(w, Refused(w))
  BY DEF Deed, Refused, Handled, Brings

LEMMA DoneIsDeed ==
  ASSUME NEW w \in WorldState, Tidy(w), NEW guard, NEW next, NEW signal,
         guard => Deed(w, [world |-> next, signal |-> signal])
  PROVE  Deed(w, Done(guard, w, next, signal))
<1>1. CASE guard
  BY <1>1 DEF Done
<1>2. CASE ~guard
  <2>1. Done(guard, w, next, signal) = Refused(w)
    BY <1>2 DEF Done, Refused
  <2> QED
    BY <2>1, RefusedIsDeed
<1> QED
  BY <1>1, <1>2

\* Going elsewhere, and what happens to an item that is not moved.
LEMMA Goes ==
  ASSUME NEW w \in WorldState, Tidy(w), NEW room \in Room, room # w.room
  PROVE  Deed(w, [world |-> [w EXCEPT !.room = room], signal |-> <<"room_entered", room>>])
<1> DEFINE next == [w EXCEPT !.room = room]
<1>1. next \in WorldState /\ next.place = w.place /\ next.inventory = w.inventory
      /\ next.facts = w.facts /\ next.clues = w.clues /\ next.room = room
  BY DEF WorldState
<1> HIDE DEF next
<1>2. Tidy(next) /\ Handled(w, next)
  BY <1>1 DEF Tidy, Carried, Handled
<1>3. <<"room_entered", room>> \in Signal \cup {NoSignal}
  BY TurnAssumption
<1> QED
  BY <1>1, <1>2, <1>3 DEF Deed, Brings, next

LEMMA OpensOrLights ==
  ASSUME NEW w \in WorldState, Tidy(w), NEW i \in Item, NEW guard,
         NEW on
  PROVE  Deed(w, SetOpen(w, i, guard, on)) /\ Deed(w, SetLit(w, i, guard, on))
<1> DEFINE opened == [w EXCEPT !.open = IF on THEN @ \cup {i} ELSE @ \ {i}]
           lit == [w EXCEPT !.lit = IF on THEN @ \cup {i} ELSE @ \ {i}]
<1>1. ASSUME i \in Openable
      PROVE  Deed(w, [world |-> opened, signal |-> NoSignal])
  <2>1. opened \in WorldState /\ opened.place = w.place /\ opened.inventory = w.inventory
        /\ opened.facts = w.facts /\ opened.clues = w.clues
    BY <1>1 DEF WorldState
  <2> HIDE DEF opened
  <2> QED
    BY <2>1 DEF Deed, Tidy, Carried, Handled, Brings
<1>2. ASSUME i \in Lightable
      PROVE  Deed(w, [world |-> lit, signal |-> NoSignal])
  <2>1. lit \in WorldState /\ lit.place = w.place /\ lit.inventory = w.inventory
        /\ lit.facts = w.facts /\ lit.clues = w.clues
    BY <1>2 DEF WorldState
  <2> HIDE DEF lit
  <2> QED
    BY <2>1 DEF Deed, Tidy, Carried, Handled, Brings
<1> HIDE DEF opened, lit
<1>3. Deed(w, Done(i \in Openable /\ guard, w, opened, NoSignal))
  BY <1>1, DoneIsDeed
<1>4. Deed(w, Done(i \in Lightable /\ guard, w, lit, NoSignal))
  BY <1>2, DoneIsDeed
<1> QED
  BY <1>3, <1>4 DEF SetOpen, SetLit, opened, lit

\* Taking what is in the room, and dropping what is carried.
LEMMA TakesOrDrops ==
  ASSUME NEW w \in WorldState, Tidy(w), NEW i \in Item
  PROVE  /\ i \in Here(w) =>
              Deed(w, [world |-> Take(w, i), signal |-> <<"item_acquired", i>>])
         /\ i \in Carried(w) => Deed(w, [world |-> Dropped(w, i), signal |-> NoSignal])
<1>1. ASSUME NEW p \in Place, p # Absent,
             \/ p = Inventory /\ w.place[i] = w.room
             \/ p = w.room /\ w.place[i] = Inventory,
             NEW signal \in Signal \cup {NoSignal},
             \/ signal = NoSignal
             \/ p = Inventory /\ w.place[i] = w.room /\ signal = <<"item_acquired", i>>
      PROVE  Deed(w, [world |-> Synced([w EXCEPT !.place[i] = p]), signal |-> signal])
  <2> DEFINE m == [w EXCEPT !.place[i] = p]
  <2>1. m \in WorldState /\ m.place = [w.place EXCEPT ![i] = p]
        /\ m.facts = w.facts /\ m.clues = w.clues
    BY DEF WorldState
  <2>2. \A j \in DOMAIN DefaultPlace : m.place[j] # Absent
    BY <2>1, <1>1, WorldAssumption DEF Tidy, WorldState
  <2>3. Handled(w, m)
    BY <2>1, <1>1 DEF Handled
  <2> HIDE DEF m
  <2>4. Synced(m) \in WorldState /\ Synced(m).place = m.place
        /\ Synced(m).inventory = Carried(m)
        /\ Synced(m).facts = m.facts /\ Synced(m).clues = m.clues
    BY <2>1, WorldAssumption DEF Synced, WorldState, Carried
  <2>5. Tidy(Synced(m)) /\ Handled(w, Synced(m))
    BY <2>2, <2>3, <2>4 DEF Tidy, Carried, Handled
  <2>6. Brings(w, [world |-> Synced(m), signal |-> signal])
    BY <1>1, <2>1, <2>4 DEF Brings, WorldState
  <2> QED
    BY <2>1, <2>4, <2>5, <2>6 DEF Deed, m
<1>2. i \in Here(w) =>
        Deed(w, [world |-> Take(w, i), signal |-> <<"item_acquired", i>>])
  <2>1. <<"item_acquired", i>> \in Signal \cup {NoSignal}
    BY TurnAssumption
  <2>2. Inventory \in Place /\ Inventory # Absent
    BY WorldAssumption DEF Place
  <2> QED
    BY <1>1, <2>1, <2>2 DEF Take, Here
<1>3. i \in Carried(w) => Deed(w, [world |-> Dropped(w, i), signal |-> NoSignal])
  <2>1. w.room \in Place /\ w.room # Absent
    BY WorldAssumption DEF Place, WorldState
  <2> QED
    BY <1>1, <2>1 DEF Dropped, Carried
<1> QED
  BY <1>2, <1>3
-----------------------------------------------------------------------------
(* The tools.                                                               *)

LEMMA MoveIsDeed ==
  ASSUME NEW w \in WorldState, Tidy(w), NEW name
  PROVE  Deed(w, MovePlayer(w, name))
<1> DEFINE first == {k \in ExitsNamed(w.room, name) :
                       \A j \in ExitsNamed(w.room, name) : k <= j}
           to == Exits[w.room][The(first)][2]
<1>1. CASE first = {}
  BY <1>1, RefusedIsDeed DEF MovePlayer
<1>2. CASE first # {}
  <2>1. The(first) \in DOMAIN Exits[w.room]
    BY <1>2, TheMember DEF ExitsNamed
  <2>2. to \in Room /\ to # w.room
    BY <2>1, WorldAssumption, WaysLeadElsewhere DEF WorldState
  <2> QED
    BY <1>2, <2>2, Goes, DoneIsDeed DEF MovePlayer
<1> QED
  BY <1>1, <1>2

LEMMA TalkIsDeed ==
  ASSUME NEW w \in WorldState, Tidy(w), NEW name
  PROVE  Deed(w, TalkToNpc(w, name))
<1> DEFINE fits == {n \in Present(w) : name \in NpcNames[n]}
<1>1. CASE Cardinality(fits) = 1
  <2>1. The(fits) \in Npc /\ w.npc[The(fits)] = [at |-> w.room, status |-> "active"]
    BY <1>1, OneIsSome, TheMember DEF Present, WorldState, NpcStatus
  <2>2. <<"npc_spoken_to", The(fits)>> \in Signal \cup {NoSignal}
    BY <2>1, TurnAssumption
  <2>3. Deed(w, [world |-> w, signal |-> <<"npc_spoken_to", The(fits)>>])
    BY <2>1, <2>2 DEF Deed, Handled, Brings
  <2> QED
    BY <1>1, <2>3, DoneIsDeed DEF TalkToNpc
<1>2. CASE Cardinality(fits) # 1
  BY <1>2, RefusedIsDeed DEF TalkToNpc
<1> QED
  BY <1>1, <1>2

\* A name that fits one item in a scope names an item.
LEMMA ScopeIsOfItems ==
  ASSUME NEW w, NEW name, NEW scope \in SUBSET Item
  PROVE  /\ ItemInScope(w, name, scope) \subseteq Item
         /\ ItemsNamed(name, scope) \subseteq scope
  BY DEF ItemInScope, ItemsNamed, Known

LEMMA TakeIsDeed ==
  ASSUME NEW w \in WorldState, Tidy(w), NEW name
  PROVE  Deed(w, TakeItem(w, name))
<1> DEFINE fits == ItemInScope(w, name, Here(w))
           i == The(fits)
<1>1. CASE Cardinality(fits) = 1
  <2>1. i \in Item
    BY <1>1, OneIsSome, TheMember, ScopeIsOfItems DEF Here
  <2>2. i \in Here(w) =>
          Deed(w, [world |-> Take(w, i), signal |-> <<"item_acquired", i>>])
    BY <2>1, TakesOrDrops
  <2>3. Deed(w, Done(i \in Here(w) /\ i \in Portable, w, Take(w, i), <<"item_acquired", i>>))
    BY <2>2, DoneIsDeed
  <2> QED
    BY <1>1, <2>3 DEF TakeItem
<1>2. CASE Cardinality(fits) # 1
  BY <1>2, RefusedIsDeed DEF TakeItem
<1> QED
  BY <1>1, <1>2

LEMMA DropIsDeed ==
  ASSUME NEW w \in WorldState, Tidy(w), NEW name
  PROVE  Deed(w, DropItem(w, name))
<1> DEFINE fits == ItemInScope(w, name, Carried(w))
           i == The(fits)
<1>1. CASE Cardinality(fits) = 1
  <2>1. i \in Item
    BY <1>1, OneIsSome, TheMember, ScopeIsOfItems DEF Carried
  <2>2. i \in Carried(w) => Deed(w, [world |-> Dropped(w, i), signal |-> NoSignal])
    BY <2>1, TakesOrDrops
  <2>3. Deed(w, Done(i \in Carried(w), w, Dropped(w, i), NoSignal))
    BY <2>2, DoneIsDeed
  <2> QED
    BY <1>1, <2>3 DEF DropItem
<1>2. CASE Cardinality(fits) # 1
  BY <1>2, RefusedIsDeed DEF DropItem
<1> QED
  BY <1>1, <1>2

LEMMA ToggledIsDeed ==
  ASSUME NEW w \in WorldState, Tidy(w), NEW i \in Item, NEW mode, NEW used
  PROVE  Deed(w, Toggled(w, i, mode, used))
<1>1. Deed(w, SetOpen(w, i, i \notin w.open, TRUE))
  BY OpensOrLights
<1>2. Deed(w, SetOpen(w, i, i \in w.open, FALSE))
  BY OpensOrLights
<1>3. Deed(w, SetLit(w, i, i \notin w.lit /\ used \cap Ignition # {}, TRUE))
  BY OpensOrLights
<1>4. Deed(w, SetLit(w, i, i \in w.lit, FALSE))
  BY OpensOrLights
<1> QED
  BY <1>1, <1>2, <1>3, <1>4, RefusedIsDeed DEF Toggled

LEMMA HandleIsDeed ==
  ASSUME NEW w \in WorldState, Tidy(w), NEW name, NEW mode, NEW with
  PROVE  Deed(w, Interact(w, name, mode)) /\ Deed(w, Use(w, name, mode, with))
<1> DEFINE fits == ItemsNamed(name, AtHand(w))
           used == ItemsNamed(with, Carried(w))
<1>1. CASE Cardinality(fits) = 1
  <2>1. The(fits) \in Item
    BY <1>1, OneIsSome, TheMember DEF ItemsNamed, AtHand, Here, Carried
  <2>2. \A m, u : Deed(w, Toggled(w, The(fits), m, u))
    BY <2>1, ToggledIsDeed
  <2> QED
    BY <1>1, <2>2, RefusedIsDeed DEF Interact, Use
<1>2. CASE Cardinality(fits) # 1
  BY <1>2, RefusedIsDeed DEF Interact, Use
<1> QED
  BY <1>1, <1>2

LEMMA WaitIsDeed ==
  ASSUME NEW w \in WorldState, Tidy(w), NEW amount \in Nat
  PROVE  Deed(w, Wait(w, amount))
<1> DEFINE next == [w EXCEPT !.tick = @ + (IF amount = 0 THEN 1 ELSE amount)]
<1>1. next \in WorldState /\ next.place = w.place /\ next.inventory = w.inventory
      /\ next.facts = w.facts /\ next.clues = w.clues
  BY DEF WorldState
<1> HIDE DEF next
<1>2. Deed(w, [world |-> next, signal |-> NoSignal])
  BY <1>1 DEF Deed, Tidy, Carried, Handled, Brings
<1> QED
  BY <1>2, DoneIsDeed DEF Wait, next

LEMMA InvokeIsDeed ==
  ASSUME NEW w \in WorldState, Tidy(w), NEW power, NEW name
  PROVE  Deed(w, UseAbility(w, power, name))
<1> DEFINE fits == ItemsNamed(name, Here(w))
           i == The(fits)
<1>1. Cardinality(fits) = 1 => i \in Here(w) /\ i \in Item
  BY OneIsSome, TheMember DEF ItemsNamed, Here
<1>2. Deed(w, Retrieve(w, name))
  <2>1. Cardinality(fits) = 1 =>
          Deed(w, [world |-> Take(w, i), signal |-> <<"item_acquired", i>>])
    BY <1>1, TakesOrDrops
  <2>2. Cardinality(fits) = 1 =>
          Deed(w, Done(i \in Portable, w, Take(w, i), <<"item_acquired", i>>))
    BY <2>1, DoneIsDeed
  <2> QED
    BY <2>2, RefusedIsDeed DEF Retrieve
<1>3. Deed(w, ToggleByAbility(w, power[2], name))
  <2>1. Cardinality(fits) = 1 =>
          /\ Deed(w, SetOpen(w, i, i \notin Locked, i \notin w.open))
          /\ Deed(w, SetLit(w, i, TRUE, i \notin w.lit))
    BY <1>1, OpensOrLights
  <2> QED
    BY <2>1, RefusedIsDeed DEF ToggleByAbility
<1>4. Deed(w, Traverse(w, power[2], name))
  <2> DEFINE routes == {route \in Routes : route.from = w.room /\ name \in route.names}
             to == The(routes).to
             able == Compatible(The(routes), power[2])
  <2>1. CASE Cardinality(routes) = 1
    <3>1. to \in Room /\ to # w.room
      BY <2>1, OneIsSome, TheMember, WorldAssumption, WaysLeadElsewhere
    <3>2. Deed(w, [world |-> [w EXCEPT !.room = to], signal |-> <<"room_entered", to>>])
      BY <3>1, Goes
    <3> HIDE DEF able
    <3>3. Deed(w, Done(able, w, [w EXCEPT !.room = to], <<"room_entered", to>>))
      BY <3>2, DoneIsDeed
    <3> QED
      BY <2>1, <3>3 DEF Traverse, able
  <2>2. CASE Cardinality(routes) # 1
    BY <2>2, RefusedIsDeed DEF Traverse
  <2> QED
    BY <2>1, <2>2
<1> QED
  BY <1>2, <1>3, <1>4, RefusedIsDeed DEF UseAbility
-----------------------------------------------------------------------------
(* The Director.                                                            *)

\* The facts and clues a stored world may hold.
Bounded(w) == /\ w.clues \subseteq Clue
              /\ IsFiniteSet(w.facts) /\ Cardinality(w.facts) <= MaxFacts

\* A world action keeps what is bounded, moves neither the player nor an
\* item, and brings out only clues that are due.
LEMMA ActionKeeps ==
  ASSUME NEW w \in WorldState, Tidy(w), Bounded(w), NEW proposal \in Proposal, NEW quests
  PROVE  LET acted == WorldAction(w, proposal, quests)
         IN /\ acted \in WorldState /\ Tidy(acted) /\ Bounded(acted)
            /\ acted.place = w.place /\ acted.room = w.room
            /\ acted.clues \subseteq w.clues \cup ListRevealableClues(w, quests)
<1> DEFINE Kept(a) == /\ a \in WorldState /\ Bounded(a)
                      /\ a.place = w.place /\ a.inventory = w.inventory
                      /\ a.room = w.room
                      /\ a.clues \subseteq w.clues \cup ListRevealableClues(w, quests)
<1>1. Kept(w)
  OBVIOUS
<1>2. ASSUME NEW n, NEW to
      PROVE  Kept(MoveNpc(w, n, to))
  <2>1. CASE n \in Npc /\ to \in Room
    BY <2>1, <1>1 DEF MoveNpc, WorldState, Bounded
  <2> QED
    BY <2>1, <1>1 DEF MoveNpc, OneHop
<1>3. ASSUME NEW n, NEW status
      PROVE  Kept(SetNpcStatus(w, n, status))
  <2>1. CASE n \in Npc /\ status \in NpcStatus
    BY <2>1, <1>1 DEF SetNpcStatus, WorldState, Bounded
  <2> QED
    BY <2>1, <1>1 DEF SetNpcStatus
<1>4. ASSUME NEW ticks
      PROVE  Kept(AdvanceClock(w, ticks))
  BY <1>1 DEF AdvanceClock, WorldState, Bounded
<1>5. ASSUME NEW fact \in STRING
      PROVE  Kept(RecordFact(w, fact))
  <2>1. CASE Cardinality(w.facts) < MaxFacts
    <3> DEFINE facts == w.facts \cup {fact}
    <3>1. IsFiniteSet(facts) /\ Cardinality(facts) <= MaxFacts
      <4>1. IsFiniteSet(w.facts)
        BY DEF Bounded
      <4>2. /\ IsFiniteSet(facts)
            /\ Cardinality(facts) = IF fact \in w.facts THEN Cardinality(w.facts)
                                    ELSE Cardinality(w.facts) + 1
        BY <4>1, FS_AddElement
      <4>3. Cardinality(w.facts) \in Nat
        BY <4>1, FS_CardinalityType
      <4> QED
        BY <2>1, <4>2, <4>3, TurnAssumption
    <3> HIDE DEF facts
    <3>2. facts \in SUBSET STRING
      BY DEF facts, WorldState
    <3>3. Kept([w EXCEPT !.facts = facts])
      BY <3>1, <3>2, <1>1 DEF WorldState, Bounded
    <3> QED
      BY <2>1, <3>3 DEF RecordFact, facts, WorldState
  <2> QED
    BY <2>1, <1>1 DEF RecordFact
<1>6. ASSUME NEW c
      PROVE  Kept(RevealClue(w, c, quests))
  <2>1. CASE c \in ListRevealableClues(w, quests)
    <3> DEFINE clues == w.clues \cup {c}
    <3>1. /\ clues \in SUBSET STRING /\ clues \subseteq Clue
          /\ clues \subseteq w.clues \cup ListRevealableClues(w, quests)
      BY <2>1, TurnAssumption DEF WorldState, ListRevealableClues, Bounded
    <3> HIDE DEF clues
    <3>2. Kept([w EXCEPT !.clues = clues])
      BY <3>1, <1>1 DEF WorldState, Bounded
    <3> QED
      BY <2>1, <3>2 DEF RevealClue, clues, WorldState
  <2> QED
    BY <2>1, <1>1 DEF RevealClue
<1> HIDE DEF Kept
<1>7. Kept(WorldAction(w, proposal, quests))
  BY <1>1, <1>2, <1>3, <1>4, <1>5, <1>6, TurnAssumption DEF WorldAction
<1> QED
  BY <1>7 DEF Kept, Tidy, Carried

\* What is stored after the Director's step, and how it loads.
LEMMA DirectedKeeps ==
  ASSUME NEW stored \in WorldState, Bounded(stored), NEW proposal \in Proposal, NEW quests
  PROVE  LET after == Directed(stored, proposal, quests)
         IN /\ after \in WorldState /\ Bounded(after)
            /\ Load(after).place = Load(stored).place /\ Load(after).room = stored.room
            /\ after.clues \subseteq stored.clues \cup ListRevealableClues(Load(stored), quests)
<1> DEFINE seen == Load(stored)
           acted == WorldAction(seen, proposal, quests)
<1>1. seen \in WorldState /\ Tidy(seen) /\ Bounded(seen) /\ seen.clues = stored.clues
      /\ seen.room = stored.room
  BY LoadTidies DEF Bounded
<1> HIDE DEF seen
<1>2. /\ acted \in WorldState /\ Tidy(acted) /\ Bounded(acted)
      /\ acted.place = seen.place /\ acted.room = seen.room
      /\ acted.clues \subseteq seen.clues \cup ListRevealableClues(seen, quests)
  BY <1>1, ActionKeeps
<1>3. Load(acted) = acted
  BY <1>2, TidyIsLoaded
<1> HIDE DEF acted
<1>4. Directed(stored, proposal, quests) = IF acted = seen THEN stored ELSE acted
  BY DEF Directed, acted, seen
<1> QED
  BY <1>1, <1>2, <1>3, <1>4 DEF seen
-----------------------------------------------------------------------------
(* The turns.                                                               *)

\* Every turn is that of a deed.
LEMMA TurnsAreDeeds ==
  ASSUME TypeOK, Next
  PROVE  \E done : Deed(Load(saved), done) /\ PlayTurn(done)
<1> DEFINE w == Load(saved)
<1>1. w \in WorldState /\ Tidy(w)
  BY LoadTidies DEF TypeOK
<1>2. /\ \A done \in Moves(w) : Deed(w, done)
      /\ \A done \in Talks(w) : Deed(w, done)
      /\ \A done \in Takes(w) : Deed(w, done)
      /\ \A done \in Drops(w) : Deed(w, done)
      /\ \A done \in Interactions(w) : Deed(w, done)
      /\ \A done \in Invocations(w) : Deed(w, done)
      /\ Deed(w, Refused(w))
  BY <1>1, MoveIsDeed, TalkIsDeed, TakeIsDeed, DropIsDeed, HandleIsDeed, InvokeIsDeed,
     RefusedIsDeed
     DEF Moves, Talks, Takes, Drops, Interactions, Invocations
<1>3. \A done \in Waits(w) : Deed(w, done)
  BY <1>1, WaitIsDeed, RefusedIsDeed DEF Waits, Executed, Refused
<1> QED
  BY <1>2, <1>3 DEF Next, Move, Talk, TakeAnItem, DropAnItem, HandleItem, Pass, Invoke, Other

\* A signal that changes nothing leaves the story as it is stored, and pays
\* nothing.
LEMMA UnchangedStory ==
  ASSUME NEW sig, ~Story!ApplyStorySignal(story, sig).changed
  PROVE  Story!ApplyStorySignal(story, sig).story = story
  BY DEF Story!ApplyStorySignal, Story!Unapplied

LEMMA UnchangedIsUnpaid ==
  ASSUME NEW result, ~result.changed
  PROVE  /\ Story!ApplyQuestCompletionRewards(player, result).player = player
         /\ ~Story!Refuses(Story!ApplyQuestCompletionRewards(player, result))
  BY DEF Story!ApplyQuestCompletionRewards, Story!Refuses

\* What one turn does to the stored world, and to the world as it loads.
LEMMA TurnKeeps ==
  ASSUME TypeOK, NEW done, Deed(Load(saved), done), PlayTurn(done)
  PROVE  /\ TypeOK'
         /\ Load(saved').place = Load(saved).place \/ Handled(Load(saved), Load(saved'))
         /\ \A c \in saved'.clues \ saved.clues :
               Story!EnsureStoryState(story')[ClueQuest[c]].objectives[CluePlace[c]] = "active"
<1> DEFINE w == Load(saved)
<1>1. saved \in WorldState /\ Bounded(saved)
  BY DEF TypeOK, Bounded
<1>2. w.facts = saved.facts /\ w.clues = saved.clues
  BY <1>1, LoadTidies
<1>3. /\ done.world \in WorldState /\ Bounded(done.world)
      /\ Load(done.world) = done.world
      /\ done.world.clues = saved.clues
      /\ Handled(w, done.world)
  BY <1>1, <1>2, TidyIsLoaded DEF Deed, Bounded
<1>4. saved'.tick <= MaxTick
  BY DEF PlayTurn
<1>5. PICK proposal \in Proposal :
        \/ saved' = saved
        \/ \E stored \in {saved, done.world} :
              saved' = Directed(stored, proposal, Story!EnsureStoryState(story'))
  BY DEF PlayTurn
<1>6. CASE saved' = saved
  BY <1>1, <1>4, <1>6 DEF TypeOK, Bounded
<1>7. ASSUME NEW stored \in {saved, done.world},
             saved' = Directed(stored, proposal, Story!EnsureStoryState(story'))
      PROVE  /\ TypeOK'
             /\ Load(saved').place = Load(saved).place \/ Handled(Load(saved), Load(saved'))
             /\ \A c \in saved'.clues \ saved.clues :
                   Story!EnsureStoryState(story')[ClueQuest[c]].objectives[CluePlace[c]]
                     = "active"
  <2>1. stored \in WorldState /\ Bounded(stored) /\ stored.clues = saved.clues
    BY <1>1, <1>3, <1>7
  <2>2. /\ saved' \in WorldState /\ Bounded(saved')
        /\ Load(saved').place = Load(stored).place
        /\ saved'.clues \subseteq
             stored.clues \cup ListRevealableClues(Load(stored), Story!EnsureStoryState(story'))
    BY <2>1, <1>7, DirectedKeeps
  <2>3. TypeOK'
    BY <2>2, <1>4 DEF TypeOK, Bounded
  <2>4. Load(saved').place = Load(saved).place \/ Handled(Load(saved), Load(saved'))
    BY <2>2, <1>3, <1>7 DEF Handled
  <2>5. \A c \in saved'.clues \ saved.clues :
          Story!EnsureStoryState(story')[ClueQuest[c]].objectives[CluePlace[c]] = "active"
    BY <2>1, <2>2 DEF ListRevealableClues
  <2> QED
    BY <2>3, <2>4, <2>5
<1> QED
  BY <1>5, <1>6, <1>7

\* What one turn does to the story: a turn of StoryProgression, or nothing.
LEMMA TurnTellsStory ==
  ASSUME NEW done, done.signal \in Signal \cup {NoSignal}, PlayTurn(done)
  PROVE  [Story!Next]_(Story!vars)
<1>1. CASE done.signal = NoSignal
  <2> DEFINE result == [changed |-> FALSE, story |-> story]
             reward == Story!ApplyQuestCompletionRewards(player, result)
  <2>1. reward.player = player
    BY UnchangedIsUnpaid
  <2>2. UNCHANGED <<story, player, reported>>
    BY <1>1, <2>1 DEF PlayTurn
  <2> QED
    BY <2>2 DEF Story!vars
<1>2. CASE done.signal # NoSignal
  <2> DEFINE sig == done.signal
             result == Story!ApplyStorySignal(story, sig)
             reward == Story!ApplyQuestCompletionRewards(player, result)
  <2>1. ~result.changed => result.story = story /\ reward.player = player
    BY UnchangedStory, UnchangedIsUnpaid
  <2>2. /\ reported' = sig
        /\ IF Story!Refuses(reward) THEN UNCHANGED <<story, player>>
           ELSE story' = result.story /\ player' = reward.player
    BY <1>2, <2>1 DEF PlayTurn, StateChanged
  <2>3. Story!Turn(sig)
    BY <2>2 DEF Story!Turn
  <2> QED
    BY <1>2, <2>3 DEF Story!Next
<1> QED
  BY <1>1, <1>2
-----------------------------------------------------------------------------
(* What a signal does to the story.                                         *)

\* StoryProgression is validated as its theorems assume.
LEMMA ToldAssumptions == Told!DefinitionsFit /\ Told!RewardsFit
BY StoryAssumption
   DEF Told!DefinitionsFit, Told!RewardsFit, Told!ValidateStoryDefinitions,
       Told!ValidateProgressionRewardDefinitions, Told!AllObjectives, Told!Places,
       Told!ObjectiveStatus, Told!QuestStatus, Told!ReachedProgress,
       Story!DefinitionsFit, Story!RewardsFit, Story!ValidateStoryDefinitions,
       Story!ValidateProgressionRewardDefinitions, Story!AllObjectives, Story!Places,
       Story!ObjectiveStatus, Story!QuestStatus, Story!ReachedProgress

\* The two instances of StoryProgression are one.
LEMMA ReadsAlike ==
  /\ \A raw : Told!EnsureStoryState(raw) = Story!EnsureStoryState(raw)
  /\ \A q, k : Told!ReachedProgress(q, k) = Story!ReachedProgress(q, k)
BY DEF Told!EnsureStoryState, Told!NormalizeQuestProgress, Told!DeriveQuestStatus,
       Told!ScanAccepts, Told!FreshQuestProgress, Told!Places, Told!ObjectiveStatus,
       Told!QuestStatus, Told!ReachedProgress,
       Story!EnsureStoryState, Story!NormalizeQuestProgress, Story!DeriveQuestStatus,
       Story!ScanAccepts, Story!FreshQuestProgress, Story!Places, Story!ObjectiveStatus,
       Story!QuestStatus, Story!ReachedProgress

LEMMA ToldAlike ==
  /\ \A raw, sig : Told!ApplyStorySignal(raw, sig) = Story!ApplyStorySignal(raw, sig)
  /\ \A pl, result : Told!ApplyQuestCompletionRewards(pl, result)
                      = Story!ApplyQuestCompletionRewards(pl, result)
  /\ \A reward : Told!Refuses(reward) = Story!Refuses(reward)
<1>1. \A raw, sig : Told!ApplyStorySignal(raw, sig) = Story!ApplyStorySignal(raw, sig)
  <2>1. \A sig : Told!ObjectivesMatching(sig) = Story!ObjectivesMatching(sig)
    BY DEF Told!ObjectivesMatching, Told!AllObjectives, Told!Places,
           Story!ObjectivesMatching, Story!AllObjectives, Story!Places
  <2>2. \A q, i : Told!HasNext(q, i) = Story!HasNext(q, i)
    BY DEF Told!HasNext, Told!Places, Story!HasNext, Story!Places
  <2>3. \A q, i, p : Told!Advance(q, i, p) = Story!Advance(q, i, p)
    BY DEF Told!Advance, Told!HasNext, Told!Places,
           Story!Advance, Story!HasNext, Story!Places
  <2>4. ASSUME NEW raw, NEW sig
        PROVE  Told!ApplyStorySignal(raw, sig) = Story!ApplyStorySignal(raw, sig)
    <3>1. Told!EnsureStoryState(raw) = Story!EnsureStoryState(raw)
      BY ReadsAlike
    <3>2. \A st : {m \in Told!ObjectivesMatching(sig) :
                    Told!EnsureStoryState(raw)[m[1]].objectives[m[2]] = st}
               = {m \in Story!ObjectivesMatching(sig) :
                    Story!EnsureStoryState(raw)[m[1]].objectives[m[2]] = st}
      BY <2>1, <3>1
    <3> QED
      BY <2>2, <2>3, <3>1, <3>2
         DEF Told!ApplyStorySignal, Told!Unapplied, Story!ApplyStorySignal, Story!Unapplied
  <2> QED
    BY <2>4
<1>2. \A pl, result : Told!ApplyQuestCompletionRewards(pl, result)
                      = Story!ApplyQuestCompletionRewards(pl, result)
  <2>1. \A q : /\ Told!RewardsOf(q) = Story!RewardsOf(q)
               /\ Told!RewardFor(q) = Story!RewardFor(q)
    BY DEF Told!RewardsOf, Told!RewardFor, Story!RewardsOf, Story!RewardFor
  <2>2. \A result : Told!ProvesCompletion(result) = Story!ProvesCompletion(result)
    BY ReadsAlike DEF Told!ProvesCompletion, Story!ProvesCompletion
  <2>3. \A pl, id : Told!Claimable(pl, id) = Story!Claimable(pl, id)
    BY DEF Told!Claimable, Story!Claimable
  <2>4. \A pl, reward : Told!Rewarded(pl, reward) = Story!Rewarded(pl, reward)
    BY DEF Told!Rewarded, Told!GrantProgress, Told!Lesser,
           Story!Rewarded, Story!GrantProgress, Story!Lesser
  <2>5. ASSUME NEW pl, NEW result
        PROVE  Told!ApplyQuestCompletionRewards(pl, result)
                 = Story!ApplyQuestCompletionRewards(pl, result)
    <3>1. /\ Told!RewardsOf(result.quest) = Story!RewardsOf(result.quest)
          /\ Told!RewardFor(result.quest) = Story!RewardFor(result.quest)
          /\ Told!ProvesCompletion(result) <=> Story!ProvesCompletion(result)
      BY <2>1, <2>2
    <3>2. LET reward == Story!RewardFor(result.quest)
          IN /\ Told!Claimable(pl, reward.id) <=> Story!Claimable(pl, reward.id)
             /\ Told!Rewarded(pl, reward) = Story!Rewarded(pl, reward)
      BY <2>3, <2>4
    <3> QED
      BY <3>1, <3>2
         DEF Told!ApplyQuestCompletionRewards, Story!ApplyQuestCompletionRewards
  <2> QED
    BY <2>5
<1> QED
  BY <1>1, <1>2 DEF Told!Refuses, Story!Refuses

\* How far a quest has got can be read off its record.
LEMMA PassedBy ==
  ASSUME NEW q \in Quest, NEW k \in 0 .. Len(Objective[q])
  PROVE  (CHOOSE n \in 0 .. Len(Objective[q]) :
            Story!ReachedProgress(q, k) = Story!ReachedProgress(q, n)) = k
<1>1. \A n \in 0 .. Len(Objective[q]) :
        Story!ReachedProgress(q, k) = Story!ReachedProgress(q, n) => n = k
  BY Told!ReachedIsInjective, ReadsAlike, ToldAssumptions
<1> QED
  BY <1>1

\* A quest gets on only in a turn that changes the story, and past the
\* objective that the turn's signal is for.
LEMMA SignalPasses ==
  ASSUME NEW q \in Quest, NEW done, done.signal \in Signal \cup {NoSignal},
         PlayTurn(done), Story!Passed(q)' # Story!Passed(q)
  PROVE  /\ story' # story
         /\ done.signal # NoSignal
         /\ Objective[q][Story!Passed(q)'] = done.signal
<1> DEFINE sig == done.signal
<1>1. story' # story
  BY DEF Story!Passed, Story!Readable
<1>2. sig # NoSignal
  BY <1>1 DEF PlayTurn
<1>3. Told!Turn(sig)
  <2> DEFINE result == Story!ApplyStorySignal(story, sig)
             reward == Story!ApplyQuestCompletionRewards(player, result)
  <2>1. ~result.changed => result.story = story /\ reward.player = player
    BY UnchangedStory, UnchangedIsUnpaid
  <2>2. /\ reported' = sig
        /\ IF Story!Refuses(reward) THEN UNCHANGED <<story, player>>
           ELSE story' = result.story /\ player' = reward.player
    BY <1>2, <2>1 DEF PlayTurn, StateChanged
  <2> QED
    BY <2>2, ToldAlike DEF Told!Turn
<1>4. PICK p \in Quest : \E k \in 0 .. Len(Objective[p]) - 1 : Told!Progresses(sig, p, k)
  BY <1>1, <1>2, <1>3, Told!TurnProgresses, ToldAssumptions DEF Told!Ignores
<1>5. PICK k \in 0 .. Len(Objective[p]) - 1 : Told!Progresses(sig, p, k)
  BY <1>4
<1>6. Told!Readable' = [Told!Readable EXCEPT ![p] = Told!ReachedProgress(p, k + 1)]
  BY <1>5, Told!ReadsAfterTurn, ToldAssumptions
<1>7. Story!Readable' = [Story!Readable EXCEPT ![p] = Story!ReachedProgress(p, k + 1)]
  BY <1>6, ReadsAlike DEF Told!Readable, Story!Readable
<1>8. p = q
  BY <1>7 DEF Story!Passed
<1>9. Story!Readable'[q] = Story!ReachedProgress(q, k + 1)
  BY <1>7, <1>8 DEF Story!Readable, Story!EnsureStoryState
<1>10. k + 1 \in 0 .. Len(Objective[q])
  BY <1>8, ToldAssumptions
     DEF Told!DefinitionsFit, Told!ValidateStoryDefinitions
<1>11. Story!Passed(q)' = k + 1
  BY <1>9, <1>10, PassedBy DEF Story!Passed
<1> QED
  BY <1>1, <1>2, <1>5, <1>8, <1>11 DEF Told!Progresses
-----------------------------------------------------------------------------
(* The theorems.                                                            *)

\* A new campaign, and one of an earlier release, starts with its type.
LEMMA StartsTyped ==
  ASSUME Init
  PROVE  TypeOK
<1>1. CASE saved \in LegacyWorlds
  BY <1>1, TurnAssumption DEF TypeOK
<1>2. CASE saved \in FreshWorlds
  <2>1. saved \in WorldState
    <3>1. PICK gear \in SUBSET Gear :
            saved = [room |-> StartRoom,
                     place |-> [i \in Item |->
                                 IF i \in DOMAIN DefaultPlace THEN DefaultPlace[i]
                                 ELSE IF i \in gear THEN Inventory ELSE Absent],
                     inventory |-> gear, open |-> {}, lit |-> {},
                     npc |-> [n \in Npc |-> [at |-> StartNpc[n], status |-> "active"]],
                     tick |-> 0, facts |-> {}, clues |-> {}]
      BY <1>2 DEF FreshWorlds
    <3>2. saved.place \in [Item -> Place]
      BY <3>1, WorldAssumption DEF Place
    <3>3. saved.npc \in [Npc -> [at : Room, status : NpcStatus]]
      BY <3>1, WorldAssumption DEF NpcStatus
    <3>4. gear \in SUBSET STRING /\ StartRoom \in Room
      BY WorldAssumption
    <3> QED
      BY <3>1, <3>2, <3>3, <3>4 DEF WorldState
  <2>2. saved.tick = 0 /\ saved.facts = {} /\ saved.clues = {}
    BY <1>2 DEF FreshWorlds
  <2> QED
    BY <2>1, <2>2, FS_EmptySet, TurnAssumption DEF TypeOK
<1> QED
  BY <1>1, <1>2 DEF Init

\* Whatever players and Directors do, the stored world has its type, and the
\* facts stay within their limit.
THEOREM TypeCorrect == Spec => []TypeOK
<1>1. Init => TypeOK
  BY StartsTyped
<1>2. TypeOK /\ [Next]_vars => TypeOK'
  <2>1. ASSUME TypeOK, Next PROVE TypeOK'
    BY <2>1, TurnsAreDeeds, TurnKeeps
  <2>2. ASSUME TypeOK, UNCHANGED vars PROVE TypeOK'
    BY <2>2 DEF TypeOK, vars
  <2> QED
    BY <2>1, <2>2
<1> QED
  BY <1>1, <1>2, PTL DEF Spec

\* No turn moves more than one item, nor one that is not at hand: neither
\* the reading of an old inventory list nor the Director's write does.
THEOREM ItemsStayPut == Spec => ThingsStayPut
<1> DEFINE moved == {i \in Item : World.place[i] # World'.place[i]}
           Put == /\ Cardinality(moved) <= 1
                  /\ \A i \in moved :
                       {World.place[i], World'.place[i]} = {World.room, Inventory}
<1>1. ASSUME TypeOK, Next PROVE Put
  <2>1. /\ World \in WorldState
        /\ World'.place = World.place \/ Handled(World, World')
    BY <1>1, TurnsAreDeeds, TurnKeeps, LoadTidies DEF World, TypeOK
  <2>2. CASE World'.place = World.place
    <3>1. moved = {}
      BY <2>2
    <3> QED
      BY <3>1, FS_EmptySet
  <2>3. ASSUME NEW i \in Item, NEW p,
               World'.place = [World.place EXCEPT ![i] = p],
               {World.place[i], p} = {World.room, Inventory}
        PROVE  Put
    <3>1. World'.place[i] = p /\ \A j \in Item : j # i => World'.place[j] = World.place[j]
      BY <2>1, <2>3 DEF WorldState
    <3>2. moved \subseteq {i}
      BY <3>1
    <3>3. Cardinality(moved) <= 1
      <4>1. IsFiniteSet({i}) /\ Cardinality({i}) = 1
        BY FS_Singleton
      <4>2. Cardinality(moved) <= Cardinality({i})
        BY <3>2, <4>1, FS_Subset
      <4> QED
        BY <4>1, <4>2
    <3> QED
      BY <2>3, <3>1, <3>2, <3>3
  <2> HIDE DEF Put
  <2>4. CASE \E i \in Item : /\ World'.place = [World.place EXCEPT ![i] = Inventory]
                             /\ World.place[i] = World.room
    <3>1. PICK i \in Item : /\ World'.place = [World.place EXCEPT ![i] = Inventory]
                            /\ World.place[i] = World.room
      BY <2>4
    <3>2. {World.place[i], Inventory} = {World.room, Inventory}
      BY <3>1
    <3> QED
      BY <3>1, <3>2, <2>3
  <2>5. CASE \E i \in Item : /\ World'.place = [World.place EXCEPT ![i] = World.room]
                             /\ World.place[i] = Inventory
    <3>1. PICK i \in Item : /\ World'.place = [World.place EXCEPT ![i] = World.room]
                            /\ World.place[i] = Inventory
      BY <2>5
    <3>2. {World.place[i], World.room} = {World.room, Inventory}
      BY <3>1
    <3> QED
      BY <3>1, <3>2, <2>3
  <2> QED
    BY <2>1, <2>2, <2>4, <2>5 DEF Handled
<1>2. TypeOK /\ [Next]_vars => [Put]_vars
  BY <1>1
<1> QED
  BY <1>2, TypeCorrect, PTL DEF Spec, ThingsStayPut

\* The Director brings out a clue only while its objective is active.
THEOREM CluesComeDue == Spec => CluesAreDue
<1> DEFINE Due == \A c \in saved'.clues \ saved.clues :
                    Story!Readable'[ClueQuest[c]].objectives[CluePlace[c]] = "active"
<1>1. ASSUME TypeOK, Next PROVE Due
  BY <1>1, TurnsAreDeeds, TurnKeeps DEF Story!Readable
<1>2. TypeOK /\ [Next]_vars => [Due]_vars
  BY <1>1
<1> QED
  BY <1>2, TypeCorrect, PTL DEF Spec, CluesAreDue

\* Whatever the tools, the storing and the Director add, the story is told
\* as StoryProgression says: every theorem about it holds of whole turns.
THEOREM TellsTheStory == Spec => ImplementsStory
<1>1. Init => Story!Init
  BY DEF Init
<1>2. TypeOK /\ [Next]_vars => [Story!Next]_(Story!vars)
  <2>1. ASSUME TypeOK, Next PROVE [Story!Next]_(Story!vars)
    BY <2>1, TurnsAreDeeds, TurnTellsStory DEF Deed
  <2>2. ASSUME UNCHANGED vars PROVE UNCHANGED Story!vars
    BY <2>2 DEF vars, Story!vars
  <2> QED
    BY <2>1, <2>2
<1> QED
  BY <1>1, <1>2, TypeCorrect, PTL DEF Spec, ImplementsStory, Story!Spec

\* A turn that changes the story stores the world its tool left, and what
\* the Director adds leaves the player and the items where they are.
LEMMA ToldTurnIsStored ==
  ASSUME TypeOK, NEW done, Deed(World, done), PlayTurn(done), story' # story
  PROVE  World'.room = done.world.room /\ World'.place = done.world.place
<1>1. done.world \in WorldState /\ Bounded(done.world) /\ Load(done.world) = done.world
  <2>1. World.facts = saved.facts /\ World.clues = saved.clues
    BY LoadTidies DEF World, TypeOK
  <2> QED
    BY <2>1, TidyIsLoaded DEF Deed, Bounded, TypeOK
<1>2. PICK proposal \in Proposal :
        saved' = Directed(done.world, proposal, Story!EnsureStoryState(story'))
  BY DEF PlayTurn
<1>3. /\ Load(saved').place = Load(done.world).place
      /\ Load(saved').room = done.world.room
  BY <1>1, <1>2, DirectedKeeps
<1> QED
  BY <1>1, <1>3 DEF World

\* No objective passes on a word: the turn that passes it is the one in
\* which the player came into the room, spoke to the character who was
\* there, or took the item that was there, and that is what is stored.
THEOREM StoryTellsTheWorld == Spec => StoryFollowsWorld
<1> DEFINE Follows(q) ==
             Story!Passed(q) # Story!Passed(q)' =>
               CameAbout(Objective[q][Story!Passed(q)'], World')
<1>1. ASSUME TypeOK, Next, NEW q \in Quest, Story!Passed(q) # Story!Passed(q)'
      PROVE  CameAbout(Objective[q][Story!Passed(q)'], World')
  <2>1. PICK done : Deed(World, done) /\ PlayTurn(done)
    BY <1>1, TurnsAreDeeds DEF World
  <2>2. /\ story' # story
        /\ done.signal # NoSignal
        /\ Objective[q][Story!Passed(q)'] = done.signal
    BY <1>1, <2>1, SignalPasses DEF Deed
  <2>3. World'.room = done.world.room /\ World'.place = done.world.place
    BY <1>1, <2>1, <2>2, ToldTurnIsStored
  <2>4. Brings(World, done)
    BY <2>1 DEF Deed
  <2>5. CameAbout(done.signal, World')
    <3>1. ASSUME NEW room \in Room \ {World.room}, done.signal = <<"room_entered", room>>,
                 done.world.room = room
          PROVE  CameAbout(done.signal, World')
      <4>1. done.signal[1] = "room_entered" /\ done.signal[2] = room
        BY <3>1
      <4> QED
        BY <2>3, <3>1, <4>1 DEF CameAbout
    <3>2. ASSUME NEW n \in Npc, done.signal = <<"npc_spoken_to", n>>,
                 World.npc[n] = [at |-> World.room, status |-> "active"]
          PROVE  CameAbout(done.signal, World')
      <4>1. done.signal[1] = "npc_spoken_to" /\ done.signal[2] = n
        BY <3>2
      <4> QED
        BY <3>2, <4>1 DEF CameAbout
    <3>3. ASSUME NEW i \in Item, done.signal = <<"item_acquired", i>>,
                 World.place[i] = World.room, done.world.place[i] = Inventory
          PROVE  CameAbout(done.signal, World')
      <4>1. done.signal[1] = "item_acquired" /\ done.signal[2] = i
        BY <3>3
      <4> QED
        BY <2>3, <3>3, <4>1 DEF CameAbout
    <3> QED
      BY <2>2, <2>4, <3>1, <3>2, <3>3 DEF Brings
  <2> QED
    BY <2>2, <2>5
<1>2. TypeOK /\ [Next]_vars => [\A q \in Quest : Follows(q)]_vars
  BY <1>1
<1> QED
  BY <1>2, TypeCorrect, PTL DEF Spec, StoryFollowsWorld

\* Every turn is one of the story as the theorems about it are stated.
LEMMA TellsTold == Spec => Told!Spec
<1>1. Init => Told!Init
  BY DEF Init, Story!Init, Story!NewPlayer, Told!Init, Told!NewPlayer
<1>2. TypeOK /\ [Next]_vars => [Told!Next]_(Told!vars)
  <2>1. ASSUME NEW sig \in Signal, Story!Turn(sig) PROVE Told!Turn(sig)
    BY <2>1, ToldAlike DEF Story!Turn, Told!Turn
  <2>2. ASSUME NEW q \in Quest, Story!Outdate(q) PROVE Told!Outdate(q)
    BY <2>2 DEF Story!Outdate, Told!Outdate
  <2>3. ASSUME TypeOK, Next PROVE [Told!Next]_(Told!vars)
    <3>1. [Story!Next]_(Story!vars)
      BY <2>3, TurnsAreDeeds, TurnTellsStory DEF Deed
    <3> QED
      BY <2>1, <2>2, <3>1 DEF Story!Next, Story!vars, Told!Next, Told!vars
  <2>4. ASSUME UNCHANGED vars PROVE UNCHANGED Told!vars
    BY <2>4 DEF vars, Told!vars
  <2> QED
    BY <2>3, <2>4
<1> QED
  BY <1>1, <1>2, TypeCorrect, PTL DEF Spec, Told!Spec

\* In whole turns, whatever tools, stores and Directors do between them, a
\* quest that reads as completed has had its reward, and the player's points
\* and abilities are those of the claimed rewards.
THEOREM QuestsArePaid == Spec => [](Story!CompletedIsRewarded /\ Story!PointsAreEarned)
<1>1. Told!Spec => []Told!CompletedIsRewarded
  BY Told!CompletedQuestsAreRewarded, ToldAssumptions
<1>2. Told!Spec => []Told!PointsAreEarned
  BY Told!PointsComeFromRewards, ToldAssumptions
<1>3. Told!CompletedIsRewarded => Story!CompletedIsRewarded
  BY ReadsAlike
     DEF Told!CompletedIsRewarded, Told!Readable, Told!RewardsOf, Told!RewardFor,
         Told!ClaimedIds,
         Story!CompletedIsRewarded, Story!Readable, Story!RewardsOf, Story!RewardFor,
         Story!ClaimedIds
<1>4. Told!PointsAreEarned => Story!PointsAreEarned
  BY DEF Told!PointsAreEarned, Told!GrantedBy, Told!ClaimedIds, Told!Lesser,
         Story!PointsAreEarned, Story!GrantedBy, Story!ClaimedIds, Story!Lesser
<1> QED
  BY <1>1, <1>2, <1>3, <1>4, TellsTold, PTL

\* Whole turns keep the promise of QuestLine: an objective at a time, each by
\* its own signal, and the reward with the last.
THEOREM TurnsKeepTheQuestLine == Spec => Story!ImplementsQuestLine
<1> DEFINE doneT == [q \in Quest |-> Told!Passed(q)]
           doneS == [q \in Quest |-> Story!Passed(q)]
           paidT == {q \in Quest : Told!RewardsOf(q) # {}
                                   /\ Told!RewardFor(q).id \in Told!ClaimedIds}
           paidS == {q \in Quest : Story!RewardsOf(q) # {}
                                   /\ Story!RewardFor(q).id \in Story!ClaimedIds}
           owedT == {q \in Quest : Told!RewardsOf(q) # {}}
           owedS == {q \in Quest : Story!RewardsOf(q) # {}}
<1>1. Told!Spec => Told!ImplementsQuestLine
  BY Told!ImplementsTheQuestLine, ToldAssumptions
<1>2. owedT = owedS /\ \A q : Told!RewardFor(q) = Story!RewardFor(q)
  <2>1. \A q : Told!RewardsOf(q) = Story!RewardsOf(q)
    BY DEF Told!RewardsOf, Story!RewardsOf
  <2> QED
    BY <2>1 DEF Told!RewardFor, Story!RewardFor
<1>3. doneT = doneS /\ paidT = paidS
  <2>1. \A q : Told!Passed(q) = Story!Passed(q)
    BY ReadsAlike DEF Told!Passed, Told!Readable, Story!Passed, Story!Readable
  <2>2. Told!ClaimedIds = Story!ClaimedIds
    BY DEF Told!ClaimedIds, Story!ClaimedIds
  <2> QED
    BY <1>2, <2>1, <2>2
<1>4. doneT' = doneS' /\ paidT' = paidS'
  <2>1. \A q : Told!Passed(q)' = Story!Passed(q)'
    BY ReadsAlike DEF Told!Passed, Told!Readable, Story!Passed, Story!Readable
  <2>2. Told!ClaimedIds' = Story!ClaimedIds'
    BY DEF Told!ClaimedIds, Story!ClaimedIds
  <2> QED
    BY <1>2, <2>1, <2>2
<1>5. Told!Line!Init => Story!Line!Init
  BY <1>3 DEF Told!Line!Init, Story!Line!Init
<1>6. [Told!Line!Next]_<<doneT, paidT, reported>>
        => [Story!Line!Next]_<<doneS, paidS, reported>>
  <2>1. \A q : Told!Line!AwaitsLast(q) = Story!Line!AwaitsLast(q)
    BY <1>3 DEF Told!Line!AwaitsLast, Story!Line!AwaitsLast
  <2>2. \A q, sig : Told!Line!Awaits(q, sig) = Story!Line!Awaits(q, sig)
    BY <1>3 DEF Told!Line!Awaits, Story!Line!Awaits
  <2>3. ASSUME NEW sig, Told!Line!Ignore(sig) PROVE Story!Line!Ignore(sig)
    BY <1>2, <1>3, <1>4, <2>1, <2>2, <2>3 DEF Told!Line!Ignore, Story!Line!Ignore
  <2>4. ASSUME NEW q, NEW sig, Told!Line!Pass(q, sig) PROVE Story!Line!Pass(q, sig)
    BY <1>2, <1>3, <1>4, <2>1, <2>2, <2>4 DEF Told!Line!Pass, Story!Line!Pass
  <2>5. ASSUME NEW q, Told!Line!StartOver(q) PROVE Story!Line!StartOver(q)
    BY <1>3, <1>4, <2>5 DEF Told!Line!StartOver, Story!Line!StartOver
  <2> QED
    BY <1>3, <1>4, <2>3, <2>4, <2>5
       DEF Told!Line!Next, Told!Line!Report, Story!Line!Next, Story!Line!Report
<1> QED
  BY <1>1, <1>5, <1>6, TellsTold, PTL
     DEF Told!ImplementsQuestLine, Story!ImplementsQuestLine, Told!Line!Spec,
         Story!Line!Spec

-----------------------------------------------------------------------------
(* What the player can still do.                                            *)

\* What is within each number of turns from w, up to N.
AreWithin(f, w, N) == /\ f[0] = {w}
                      /\ \A n \in 0 .. N - 1 : f[n + 1] = TurnFurther(f[n])

\* The recursion of WorldsWithin has its function.
LEMMA TurnsReach ==
  ASSUME NEW w, NEW N \in Nat
  PROVE  \E f : WorldsWithin(w, N) = f[N] /\ AreWithin(f, w, N)
<1> DEFINE Reaches(f, n) ==
             f = [k \in 0 .. n |-> IF k = 0 THEN {w} ELSE TurnFurther(f[k - 1])]
           F == {n \in 0 .. N : \E f : Reaches(f, n)}
           reached == CHOOSE f : Reaches(f, N)
<1>1. 0 \in F
  <2>1. Reaches([k \in 0 .. 0 |-> {w}], 0)
    OBVIOUS
  <2> HIDE DEF Reaches
  <2> QED
    BY <2>1
<1>2. ASSUME NEW n \in 0 .. N - 1, n \in F PROVE n + 1 \in F
  <2>1. PICK f : Reaches(f, n)
    BY <1>2
  <2> DEFINE g == [k \in 0 .. n + 1 |-> IF k = n + 1 THEN TurnFurther(f[n]) ELSE f[k]]
  <2>2. \A k \in 0 .. n : f[k] = IF k = 0 THEN {w} ELSE TurnFurther(f[k - 1])
    BY <2>1
  <2>3. \A k \in 0 .. n + 1 : g[k] = IF k = 0 THEN {w} ELSE TurnFurther(g[k - 1])
    <3> SUFFICES ASSUME NEW k \in 0 .. n + 1
                 PROVE  g[k] = IF k = 0 THEN {w} ELSE TurnFurther(g[k - 1])
      OBVIOUS
    <3>1. CASE k = n + 1
      <4>1. k - 1 = n /\ k - 1 \in 0 .. n + 1 /\ k - 1 # n + 1 /\ k # 0
        BY <3>1
      <4> QED
        BY <3>1, <4>1
    <3>2. CASE k # n + 1
      <4>1. k \in 0 .. n /\ (k # 0 => k - 1 \in 0 .. n + 1 /\ k - 1 # n + 1)
        BY <3>2
      <4> QED
        BY <2>2, <3>2, <4>1
    <3> QED
      BY <3>1, <3>2
  <2>4. Reaches(g, n + 1)
    <3>1. g = [k \in 0 .. n + 1 |-> g[k]]
      OBVIOUS
    <3> HIDE DEF g
    <3> QED
      BY <2>3, <3>1
  <2>5. n + 1 \in 0 .. N
    OBVIOUS
  <2> HIDE DEF Reaches, g
  <2> QED
    BY <2>4, <2>5
<1>3. Reaches(reached, N)
  <2>1. 0 .. N \subseteq F
    <3> HIDE DEF F
    <3> QED
      BY <1>1, <1>2, IntervalInduction
  <2>2. N \in F
    <3> HIDE DEF F
    <3> QED
      BY <2>1
  <2> HIDE DEF Reaches
  <2> QED
    BY <2>2
<1>4. WorldsWithin(w, N) = reached[N]
  BY DEF WorldsWithin
<1> HIDE DEF reached
<1>5. \A n \in 0 .. N : reached[n] = IF n = 0 THEN {w} ELSE TurnFurther(reached[n - 1])
  BY <1>3
<1>6. ASSUME NEW n \in 0 .. N - 1 PROVE reached[n + 1] = TurnFurther(reached[n])
  <2>1. n + 1 \in 0 .. N /\ n + 1 # 0 /\ (n + 1) - 1 = n
    OBVIOUS
  <2> QED
    BY <1>5, <2>1
<1>7. reached[0] = {w}
  BY <1>5
<1> HIDE DEF F, Reaches
<1> QED
  BY <1>4, <1>6, <1>7 DEF AreWithin

\* What one turn brings about is within any number of them.
LEMMA OneTurnIsWithin ==
  ASSUME NEW w, NEW done \in Deeds(w), NEW N \in Nat, N # 0
  PROVE  w \in WorldsWithin(w, N) /\ Load(done.world) \in WorldsWithin(w, N)
<1>1. PICK f : WorldsWithin(w, N) = f[N] /\ AreWithin(f, w, N)
  BY TurnsReach
<1>2. TurnFurther({w}) = {w} \cup {Load(d.world) : d \in Deeds(w)}
  BY DEF TurnFurther
<1> DEFINE F == {n \in 0 .. N : n # 0 => w \in f[n] /\ Load(done.world) \in f[n]}
<1>3. ASSUME NEW n \in 0 .. N - 1, n \in F PROVE n + 1 \in F
  <2>1. f[n + 1] = TurnFurther(f[n]) /\ n + 1 \in 0 .. N
    BY <1>1 DEF AreWithin
  <2>2. CASE n = 0
    BY <1>1, <1>2, <2>1, <2>2 DEF AreWithin
  <2>3. CASE n # 0
    BY <1>3, <2>1, <2>3 DEF TurnFurther
  <2> QED
    BY <2>2, <2>3
<1>4. 0 \in F
  OBVIOUS
<1>5. 0 .. N \subseteq F
  <2> HIDE DEF F
  <2> QED
    BY <1>3, <1>4, IntervalInduction
<1>6. N \in F
  BY <1>5
<1> QED
  BY <1>1, <1>6

\* The world w with the player in another room.
In(w, room) == [w EXCEPT !.room = room]

\* It is as good as loaded if w is, and in w's own room it is w.
LEMMA ElsewhereIsTidy ==
  ASSUME NEW w \in WorldState, Tidy(w), NEW room \in Room
  PROVE  /\ In(w, room) \in WorldState /\ Tidy(In(w, room))
         /\ In(w, room).room = room /\ In(w, room).place = w.place /\ In(w, room).npc = w.npc
         /\ Load(In(w, room)) = In(w, room)
         /\ In(w, w.room) = w
<1>1. /\ In(w, room) \in WorldState
      /\ In(w, room).room = room /\ In(w, room).place = w.place /\ In(w, room).npc = w.npc
      /\ In(w, room).inventory = w.inventory
      /\ In(w, w.room) = w
  BY DEF In, WorldState
<1>2. Tidy(In(w, room))
  BY <1>1 DEF Tidy, Carried
<1> QED
  BY <1>1, <1>2, TidyIsLoaded

\* Who asks for the name of a way goes it, and comes into the room.
LEMMA WaysAreGone ==
  ASSUME NEW w \in WorldState, Tidy(w), NEW from \in Room, NEW to \in Room,
         NEW name \in Name, IsWay(from, to, name)
  PROVE  [world |-> In(w, to), signal |-> <<"room_entered", to>>] \in Deeds(In(w, from))
<1> DEFINE v == In(w, from)
           first == {k \in ExitsNamed(from, name) : \A j \in ExitsNamed(from, name) : k <= j}
<1>1. v.room = from
  BY ElsewhereIsTidy
<1>2. PICK k \in first : Exits[from][k][2] = to
  BY DEF IsWay
<1>3. The(first) = k
  <2>1. ExitsNamed(from, name) \subseteq Nat
    BY WorldAssumption DEF ExitsNamed
  <2>2. The(first) \in first
    BY <1>2, TheMember
  <2> QED
    BY <1>2, <2>1, <2>2
<1>4. [v EXCEPT !.room = to] = In(w, to)
  BY DEF In, WorldState
<1>5. first # {} /\ Exits[from][The(first)][2] = to
  BY <1>2, <1>3
<1> HIDE DEF v, first
<1>6. MovePlayer(v, name) = [world |-> In(w, to), signal |-> <<"room_entered", to>>]
  BY <1>1, <1>4, <1>5 DEF MovePlayer, Done, first
<1> QED
  BY <1>6 DEF Deeds, Moves, v

\* A connected map is walked in one turn less than it has rooms.
LEMMA EveryRoomIsReached ==
  ASSUME NEW w \in WorldState, Tidy(w), NEW room \in Room
  PROVE  In(w, room) \in WorldsWithin(w, Cardinality(Room) - 1)
<1> DEFINE N == Cardinality(Room) - 1
<1>1. Cardinality(Room) \in Nat /\ N \in Nat
  BY ContentAssumption, FS_CardinalityType
<1>2. PICK f : WorldsWithin(w, N) = f[N] /\ AreWithin(f, w, N)
  BY <1>1, TurnsReach
<1> DEFINE Rooms(n) == {r \in Room : In(w, r) \in f[n]}
           F == {n \in 0 .. N : Cardinality(Rooms(n)) >= n + 1}
<1>3. \A n : IsFiniteSet(Rooms(n)) /\ Cardinality(Rooms(n)) \in Nat
  <2> TAKE n
  <2>1. Rooms(n) \subseteq Room
    OBVIOUS
  <2> QED
    BY <2>1, ContentAssumption, FS_Subset, FS_CardinalityType
<1>4. 0 \in F
  <2>1. w.room \in Rooms(0)
    BY <1>2, ElsewhereIsTidy DEF AreWithin, WorldState
  <2>2. Cardinality(Rooms(0)) # 0
    <3> HIDE DEF Rooms
    <3> QED
      BY <1>3, <2>1, FS_EmptySet
  <2> HIDE DEF Rooms
  <2> QED
    BY <1>1, <1>3, <2>2
<1>5. ASSUME NEW n \in 0 .. N - 1, n \in F PROVE n + 1 \in F
  <2>1. f[n + 1] = TurnFurther(f[n]) /\ n + 1 \in 0 .. N
    BY <1>1, <1>2 DEF AreWithin
  <2>2. Rooms(n) \subseteq Rooms(n + 1)
    BY <2>1 DEF TurnFurther
  <2>3. CASE Rooms(n) = Room
    <3>1. Rooms(n + 1) = Room
      BY <2>2, <2>3
    <3> HIDE DEF Rooms
    <3> QED
      BY <1>1, <2>1, <3>1
  <2>4. CASE Rooms(n) # Room
    <3>1. Rooms(n) # {}
      <4>1. Cardinality(Rooms(n)) # 0
        BY <1>1, <1>3, <1>5
      <4> HIDE DEF Rooms
      <4> QED
        BY <4>1, FS_EmptySet
    <3>2. PICK from \in Rooms(n), to \in Room \ Rooms(n), name \in Name : IsWay(from, to, name)
      <4>1. Rooms(n) \in SUBSET Room
        OBVIOUS
      <4> HIDE DEF Rooms
      <4> QED
        BY <2>4, <3>1, <4>1, ContentAssumption
    <3>3. to \in Rooms(n + 1)
      <4> DEFINE done == [world |-> In(w, to), signal |-> <<"room_entered", to>>]
      <4>1. done \in Deeds(In(w, from)) /\ In(w, from) \in f[n]
        BY <3>2, WaysAreGone
      <4>2. Load(done.world) = In(w, to)
        BY ElsewhereIsTidy
      <4> HIDE DEF done
      <4> QED
        BY <2>1, <4>1, <4>2 DEF TurnFurther
    <3>4. /\ Rooms(n) \cup {to} \subseteq Rooms(n + 1)
          /\ Cardinality(Rooms(n) \cup {to}) = Cardinality(Rooms(n)) + 1
      <4>1. to \notin Rooms(n)
        BY <3>2
      <4> HIDE DEF Rooms
      <4> QED
        BY <1>3, <2>2, <3>3, <4>1, FS_AddElement
    <3>5. Cardinality(Rooms(n)) + 1 <= Cardinality(Rooms(n + 1))
      <4> HIDE DEF Rooms
      <4> QED
        BY <1>3, <3>4, FS_Subset
    <3> HIDE DEF Rooms
    <3> QED
      BY <1>3, <1>5, <2>1, <3>5
  <2> QED
    BY <2>3, <2>4
<1>6. N \in F
  <2>1. 0 .. N \subseteq F
    <3> HIDE DEF F, N
    <3> QED
      BY <1>1, <1>4, <1>5, IntervalInduction
  <2> HIDE DEF F
  <2> QED
    BY <1>1, <2>1
<1>7. Rooms(N) = Room
  <2>1. Rooms(N) \subseteq Room /\ Cardinality(Rooms(N)) >= Cardinality(Room)
    BY <1>1, <1>3, <1>6
  <2> HIDE DEF Rooms, N
  <2> QED
    BY <1>1, <1>3, <2>1, ContentAssumption, FS_Subset
<1> QED
  BY <1>2, <1>7

\* A name that fits one thing fits it among any that include it.
LEMMA OnlyOneIsNamed ==
  ASSUME NEW w \in WorldState, NEW i \in Item, NEW name,
         \A j \in Item : name \in ItemNames[j] <=> j = i
  PROVE  /\ i \in Here(w) => ItemInScope(w, name, Here(w)) = {i}
         /\ i \in Carried(w) => ItemInScope(w, name, Carried(w)) = {i}
BY DEF ItemInScope, ItemsNamed, Here, Carried

LEMMA TheOnlyOne == ASSUME NEW x PROVE Cardinality({x}) = 1 /\ The({x}) = x
BY FS_Singleton DEF The

\* What is here and can be carried is taken by a name that is only its own.
LEMMA HereIsTaken ==
  ASSUME NEW w \in WorldState, NEW i \in Here(w), i \in Portable, NEW name \in Name,
         \A j \in Item : name \in ItemNames[j] <=> j = i
  PROVE  [world |-> Take(w, i), signal |-> <<"item_acquired", i>>] \in Deeds(w)
<1>1. ItemInScope(w, name, Here(w)) = {i}
  BY OnlyOneIsNamed DEF Here
<1>2. TakeItem(w, name) = [world |-> Take(w, i), signal |-> <<"item_acquired", i>>]
  BY <1>1, TheOnlyOne DEF TakeItem, Done
<1> QED
  BY <1>2 DEF Deeds, Takes

\* What is carried is put down by such a name, and is still there when the
\* world is loaded anew.
LEMMA CarriedIsDropped ==
  ASSUME NEW w \in WorldState, Tidy(w), NEW i \in Carried(w), NEW name \in Name,
         \A j \in Item : name \in ItemNames[j] <=> j = i
  PROVE  \E done \in Deeds(w) : /\ Load(done.world) \in WorldState
                                /\ i \in Here(Load(done.world))
<1> DEFINE done == [world |-> Dropped(w, i), signal |-> NoSignal]
<1>1. ItemInScope(w, name, Carried(w)) = {i}
  BY OnlyOneIsNamed DEF Carried
<1>2. DropItem(w, name) = done
  BY <1>1, TheOnlyOne DEF DropItem, Done
<1>3. done \in Deeds(w)
  BY <1>2 DEF Deeds, Drops
<1>4. Dropped(w, i) \in WorldState /\ Load(Dropped(w, i)) = Dropped(w, i)
  BY TakesOrDrops, TidyIsLoaded DEF Deed, Carried
<1>5. i \in Here(Dropped(w, i))
  BY DEF Dropped, Synced, Here, Carried, WorldState
<1> QED
  BY <1>3, <1>4, <1>5

\* With the characters there, what is attainable can be reported within a
\* turn after the walk.
LEMMA AttainableIsReported ==
  ASSUME NEW w \in WorldState, Tidy(w), \A n \in Npc : w.npc[n].status = "active",
         NEW signal, Attainable(signal)
  PROVE  CanReport(signal, WorldsWithin(w, Cardinality(Room) - 1))
<1> DEFINE worlds == WorldsWithin(w, Cardinality(Room) - 1)
<1>1. /\ \A room \in Room : In(w, room) \in worlds
      /\ \A room \in Room : /\ In(w, room) \in WorldState /\ Tidy(In(w, room))
                            /\ In(w, room).room = room
                            /\ In(w, room).place = w.place /\ In(w, room).npc = w.npc
  BY EveryRoomIsReached, ElsewhereIsTidy
<1>2. Cardinality(Room) - 1 \in Nat /\ Cardinality(Room) - 1 # 0
  BY ContentAssumption, FS_CardinalityType
<1>3. \A done \in Deeds(w) : Load(done.world) \in worlds
  BY <1>2, OneTurnIsWithin
<1> HIDE DEF worlds
<1>4. SUFFICES \E v \in worlds : \E done \in Deeds(v) : done.signal = signal
  BY DEF CanReport, worlds
<1>5. ASSUME NEW room \in Room, signal = <<"room_entered", room>>
      PROVE  \E v \in worlds : \E done \in Deeds(v) : done.signal = signal
  <2>1. Room \ {room} # {}
    <3>1. Room # {room}
      BY ContentAssumption, FS_Singleton
    <3> QED
      BY <3>1
  <2>2. PICK from \in Room \ {room}, to \in Room \ (Room \ {room}), name \in Name :
               IsWay(from, to, name)
    <3>1. Room \ {room} \in SUBSET Room /\ Room \ {room} # Room
      OBVIOUS
    <3> QED
      BY <2>1, <3>1, ContentAssumption
  <2>3. to = room
    OBVIOUS
  <2>4. [world |-> In(w, room), signal |-> signal] \in Deeds(In(w, from))
    BY <1>5, <2>2, <2>3, WaysAreGone
  <2> QED
    BY <1>1, <2>4
<1>6. ASSUME NEW n \in Npc, signal = <<"npc_spoken_to", n>>,
             NEW name \in Name, \A m \in Npc : name \in NpcNames[m] <=> m = n
      PROVE  \E v \in worlds : \E done \in Deeds(v) : done.signal = signal
  <2> DEFINE v == In(w, w.npc[n].at)
  <2>1. w.npc[n].at \in Room
    BY DEF WorldState
  <2>2. v \in worlds /\ v.room = w.npc[n].at /\ v.npc = w.npc
    BY <1>1, <2>1
  <2> HIDE DEF v
  <2>3. {m \in Present(v) : name \in NpcNames[m]} = {n}
    BY <1>6, <2>2 DEF Present
  <2>4. TalkToNpc(v, name) = [world |-> v, signal |-> signal]
    BY <1>6, <2>3, TheOnlyOne DEF TalkToNpc, Done
  <2>5. TalkToNpc(v, name) \in Deeds(v)
    BY DEF Deeds, Talks
  <2> QED
    BY <2>2, <2>4, <2>5
<1>7. ASSUME NEW i \in Portable \cap DOMAIN DefaultPlace, signal = <<"item_acquired", i>>,
             NEW name \in Name, \A j \in Item : name \in ItemNames[j] <=> j = i
      PROVE  \E v \in worlds : \E done \in Deeds(v) : done.signal = signal
  <2>1. i \in Item /\ w.place[i] \in Room \cup {Inventory}
    BY WorldAssumption DEF Tidy, WorldState, Place
  <2>2. ASSUME NEW v \in worlds, v \in WorldState, i \in Here(v)
        PROVE  \E done \in Deeds(v) : done.signal = signal
    BY <1>7, <2>2, HereIsTaken
  <2>3. CASE w.place[i] \in Room
    <3>1. i \in Here(In(w, w.place[i]))
      BY <1>1, <2>1, <2>3 DEF Here
    <3> QED
      BY <1>1, <2>2, <2>3, <3>1
  <2>4. CASE w.place[i] = Inventory
    <3>1. i \in Carried(w)
      BY <2>1, <2>4 DEF Carried
    <3>2. PICK done \in Deeds(w) : /\ Load(done.world) \in WorldState
                                   /\ i \in Here(Load(done.world))
      BY <1>7, <3>1, CarriedIsDropped
    <3> QED
      BY <1>3, <2>2, <3>2
  <2> QED
    BY <2>1, <2>3, <2>4
<1> QED
  BY <1>5, <1>6, <1>7 DEF Attainable

\* No sequence of turns and Directors' actions strands a quest: on any
\* connected map the player can, with the characters there, report what its
\* next objective waits for in no more turns than there are rooms.
THEOREM QuestsStayInReach == Spec => []QuestNeverStranded
<1>1. ASSUME TypeOK PROVE QuestNeverStranded
  <2> DEFINE w == AllPresent(World)
  <2>1. World \in WorldState /\ Tidy(World)
    BY <1>1, LoadTidies DEF World, TypeOK
  <2>2. /\ w \in WorldState /\ w.place = World.place /\ w.inventory = World.inventory
        /\ \A n \in Npc : w.npc[n].status = "active"
    BY <2>1 DEF AllPresent, WorldState, NpcStatus
  <2> HIDE DEF w
  <2>3. Tidy(w)
    BY <2>1, <2>2 DEF Tidy, Carried
  <2>4. ASSUME NEW q \in Quest, Story!Passed(q) < Len(Objective[q])
        PROVE  Attainable(Objective[q][Story!Passed(q) + 1])
    <3>1. Objective[q] \in Seq(Signal)
      BY ToldAssumptions DEF Told!DefinitionsFit, Told!ValidateStoryDefinitions
    <3>2. PICK k \in 0 .. Len(Objective[q]) : Story!Readable[q] = Story!ReachedProgress(q, k)
      <4>1. PICK k \in 0 .. Len(Objective[q]) :
              Told!NormalizeQuestProgress(q, story[q]) = Told!ReachedProgress(q, k)
        BY Told!ReadsAsReached, ToldAssumptions
      <4>2. Told!EnsureStoryState(story)[q] = Told!ReachedProgress(q, k)
        BY <4>1 DEF Told!EnsureStoryState
      <4> QED
        BY <4>2, ReadsAlike DEF Story!Readable
    <3>3. Story!Passed(q) = k
      BY <3>2, PassedBy DEF Story!Passed
    <3>4. k + 1 \in DOMAIN Objective[q]
      BY <2>4, <3>1, <3>3
    <3> QED
      BY <3>3, <3>4, ContentAssumption
  <2>5. ASSUME NEW q \in Quest, Story!Passed(q) < Len(Objective[q])
        PROVE  CanReport(Objective[q][Story!Passed(q) + 1],
                         WorldsWithin(w, Cardinality(Room) - 1))
    BY <2>2, <2>3, <2>4, <2>5, AttainableIsReported
  <2> QED
    BY <2>5 DEF QuestNeverStranded, w
<1> QED
  BY <1>1, TypeCorrect, PTL
=============================================================================
