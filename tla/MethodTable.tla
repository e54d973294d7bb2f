----------------------------- MODULE MethodTable -----------------------------
(***************************************************************************)
(* MethodTable.cs: the virtual table of a class, built from that of its    *)
(* base and its own methods, and the queries of VirtualTable that answer   *)
(* which method a virtual call runs.                                       *)
(*                                                                         *)
(* A behaviour declares one class after the other, each the base of the    *)
(* next, and resolves its table (ResolveTable), one step for each turn of  *)
(* its loops.  A method is known by the class that declares it, its        *)
(* signature and whether it was declared newslot; an interface is a        *)
(* negative number, to be told from a class.  Methods that are not virtual *)
(* and generic classes are left out.                                       *)
(***************************************************************************)
EXTENDS Integers, Sequences, FiniteSets, SequencesExt

CONSTANTS MaxDepth,       \* bound: the length of the chain of classes
          Declarations,   \* the classes that can be declared
          InterfaceSlots  \* of each interface: signature -> its entries, merged

Entries == UNION {UNION {InterfaceSlots[i][s] : s \in DOMAIN InterfaceSlots[i]} : i \in DOMAIN InterfaceSlots}

\* The methods of a class differ in their signature or in being newslot, those
\* of interfaces are newslot.
ASSUME DeclarationAssumption ==
  /\ MaxDepth \in Nat
  /\ \A class \in Declarations :
       /\ class.methods \in Seq(Range(class.methods))
       /\ class.lists \in Seq(DOMAIN InterfaceSlots)
       /\ \A k, l \in DOMAIN class.methods :
            LET c == class.methods[k]
                d == class.methods[l]
            IN  /\ c.kind \in {"new", "reuse"}
                /\ c.sig = d.sig /\ c.kind = d.kind => k = l
  /\ DOMAIN InterfaceSlots \subseteq {i \in Int : i < 0}
  /\ \A i \in DOMAIN InterfaceSlots : \A s \in DOMAIN InterfaceSlots[i] :
       IsFiniteSet(InterfaceSlots[i][s]) /\ \A e \in InterfaceSlots[i][s] : e.sig = s
  /\ \A e \in Entries : e.owner \in DOMAIN InterfaceSlots /\ e.kind = "new"

VARIABLES classes,        \* the declarations of the chain so far
          tables,         \* the method table of each that is resolved
          refused,        \* a TypeLoadException ended the resolution
          table,          \* the method table that is being built
          step,           \* the loop it is in, "idle" when it is not
          left            \* what the loop has left

vars == <<classes, tables, refused, table, step, left>>

None == [owner |-> 0, sig |-> "none", kind |-> "none"]
Method(n, d) == [owner |-> n, sig |-> d.sig, kind |-> d.kind]

Put(f, k, v) == [x \in DOMAIN f \cup {k} |-> IF x = k THEN v ELSE f[x]]
Without(f, S) == [x \in DOMAIN f \ S |-> f[x]]
Empty == [x \in {} |-> None]

\* slots: SlotMap, impl: EntryMap, replace: SameTypeReplaceMap, newSlot:
\* NewSlotEntryMap, pending: NotImplInterfaces, promoted: the methods declared
\* to reuse a slot whose IsNewSlot was set
EmptyTable ==
  [slots |-> Empty, impl |-> Empty, replace |-> Empty, newSlot |-> Empty,
   pending |-> Empty, promoted |-> {}, targets |-> {}, error |-> FALSE]

\* DerivedTable
Derived(base) == [base EXCEPT !.targets = {}]

ApplyVirtualSlot(T, sig) ==
  LET slot == T.slots[sig]
  IN  [T EXCEPT !.impl = [e \in DOMAIN @ \cup slot.entries |->
                            IF e \in slot.entries THEN slot.impl ELSE @[e]]]

WithSlot(T, sig, slot) == ApplyVirtualSlot([T EXCEPT !.slots = Put(@, sig, slot)], sig)
AddEntries(T, sig, E) == WithSlot(T, sig, [T.slots[sig] EXCEPT !.entries = @ \cup E])

ProcessMethod(T, base, n, d) ==
  LET m == Method(n, d)
      reuses == d.kind = "reuse" /\ d.sig \in DOMAIN base.slots
      slot == IF reuses
              THEN [base.slots[d.sig] EXCEPT !.entries = @ \cup {m}, !.impl = m]
              ELSE [entries |-> {m}, first |-> m, impl |-> m]
  IN  WithSlot(IF d.kind = "reuse" /\ ~reuses THEN [T EXCEPT !.promoted = @ \cup {m}] ELSE T,
               d.sig, slot)

\* the class that is being resolved, and the table of its base
Class == Last(classes)
Base == IF tables = <<>> THEN EmptyTable ELSE Last(tables)
DeclaresSig(class, sig) == \E k \in DOMAIN class.methods : class.methods[k].sig = sig

\* mutant: methods of one signature as they are declared
AsDeclared(methods, k, l) == k < l

\* methods in the order they are processed: by the first of each signature,
\* and those that reuse a slot before those that make one
InOrder(methods, k, l) ==
  LET first(m) == CHOOSE j \in DOMAIN methods :
                    /\ methods[j].sig = methods[m].sig
                    /\ \A i \in DOMAIN methods : methods[i].sig = methods[m].sig => j <= i
  IN  \/ first(k) < first(l)
      \/ methods[k].sig = methods[l].sig /\ methods[k].kind = "reuse" /\ methods[l].kind = "new"

Start(class) ==
  /\ step = "idle" /\ ~refused /\ Len(classes) < MaxDepth
  /\ classes' = Append(classes, class)
  /\ table' = Derived(Base)
  /\ step' = "methods"
  /\ left' = DOMAIN class.methods
  /\ UNCHANGED <<tables, refused>>

OverrideImplicitly ==
  /\ step = "methods"
  /\ \E k \in left :
       /\ \A l \in left : l # k => InOrder(Class.methods, k, l)
       /\ table' = ProcessMethod(table, Base, Len(classes), Class.methods[k])
       /\ left' = left \ {k}
  /\ UNCHANGED <<classes, tables, refused, step>>

\* interfaces that an abstract base left without implementation
Pending == DOMAIN table.pending \cap DOMAIN table.slots

StartPending ==
  /\ step = "methods" /\ left = {}
  /\ step' = "pending"
  /\ left' = Pending
  /\ UNCHANGED <<classes, tables, refused, table>>

BindPending ==
  /\ step = "pending"
  /\ \E s \in left :
       /\ table' = [AddEntries(table, s, table.pending[s]) EXCEPT !.pending = Without(@, {s})]
       /\ left' = left \ {s}
  /\ UNCHANGED <<classes, tables, refused, step>>

\* the interfaces in their order, and the signatures of each
StartInterfaces ==
  /\ step = "pending" /\ left = {}
  /\ step' = "interfaces"
  /\ left' = UNION {{p} \X DOMAIN InterfaceSlots[Class.lists[p]] : p \in DOMAIN Class.lists}
  /\ UNCHANGED <<classes, tables, refused, table>>

\* entries of a signature that the class does not declare
BindInherited(T, sig, entries) ==
  IF entries = {} THEN T
  ELSE IF sig \in DOMAIN T.slots THEN AddEntries(T, sig, entries)
  ELSE IF Class.abstract
       THEN [T EXCEPT !.pending = Put(@, sig, entries \cup (IF sig \in DOMAIN @ THEN @[sig] ELSE {}))]
  ELSE [T EXCEPT !.impl = [e \in DOMAIN @ \cup entries |-> IF e \in entries THEN None ELSE @[e]]]

BindSignature(T, sig, entries) ==
  IF DeclaresSig(Class, sig) THEN AddEntries(T, sig, entries)
  ELSE BindInherited(T, sig, entries \ DOMAIN T.impl)

BindInterface ==
  /\ step = "interfaces"
  /\ \E p \in DOMAIN Class.lists : \E s \in DOMAIN InterfaceSlots[Class.lists[p]] :
       /\ <<p, s>> \in left /\ \A q \in left : p <= q[1]
       /\ table' = BindSignature(table, s, InterfaceSlots[Class.lists[p]][s])
       /\ left' = left \ {<<p, s>>}
  /\ UNCHANGED <<classes, tables, refused, step>>

\* mutant: the slot the entry was bound to keeps it
RemoveSlotEntryNot(T, entry) == T

RemoveSlotEntry(T, entry) ==
  LET cut(s) == [s EXCEPT !.entries = @ \ {entry}]
  IN  [T EXCEPT
         !.slots = [g \in {g \in DOMAIN @ : cut(@[g]).entries # {}} |-> cut(@[g])],
         !.pending = [g \in {g \in DOMAIN @ : @[g] # {entry}} |-> @[g] \ {entry}]]

\* the `.override's of the methods, in the order these were processed
StartOverrides ==
  /\ step = "interfaces" /\ left = {}
  /\ step' = "overrides"
  /\ left' = UNION {{k} \X Class.methods[k].overrides : k \in DOMAIN Class.methods}
  /\ UNCHANGED <<classes, tables, refused, table>>

\* method d of class n overrides target
Override(T, n, d, target) ==
  LET U == [T EXCEPT !.targets = @ \cup {target}]
  IN  IF target.owner \in DOMAIN InterfaceSlots
      THEN AddEntries(RemoveSlotEntry(U, target), d.sig, {target})
      ELSE IF target.owner = n THEN [U EXCEPT !.replace = Put(@, target, Method(n, d))]
      ELSE [U EXCEPT !.impl = Put(@, target, U.slots[d.sig].impl)]

Refuse ==
  /\ refused' = TRUE
  /\ step' = "idle"
  /\ left' = {}
  /\ table' = EmptyTable
  /\ UNCHANGED <<classes, tables>>

\* a target of the class that is itself overridden twice, or overrides
Conflicts(target) ==
  \/ target \in table.targets
  \/ \E k \in DOMAIN Class.methods :
       Method(Len(classes), Class.methods[k]) = target /\ Class.methods[k].overrides # {}

OverrideExplicitly ==
  /\ step = "overrides"
  /\ \E k \in DOMAIN Class.methods : \E t \in Class.methods[k].overrides :
       /\ <<k, t>> \in left
       /\ \A l \in left : l[1] # k => InOrder(Class.methods, k, l[1])
       /\ IF Conflicts(t) THEN Refuse
          ELSE /\ table' = Override(table, Len(classes), Class.methods[k], t)
               /\ left' = left \ {<<k, t>>}
               /\ UNCHANGED <<classes, tables, refused, step>>

ReusesSlot(T, e) == e.kind = "reuse" /\ e \notin T.promoted

\* the entry that opened the slot of each entry that reuses one
ExpandNewSlots(T) ==
  LET reusing(s) == {e \in T.slots[s].entries : ReusesSlot(T, e) /\ e # T.slots[s].first}
      all == UNION {reusing(s) : s \in DOMAIN T.slots}
      of(e) == T.slots[CHOOSE s \in DOMAIN T.slots : e \in reusing(s)].first
  IN  [T EXCEPT !.newSlot = [e \in DOMAIN @ \cup all |-> IF e \in all THEN of(e) ELSE @[e]]]

\* a class that is not abstract leaves nothing unimplemented
Unimplemented(T) == ~Class.abstract /\ \E e \in DOMAIN T.impl : T.impl[e] = None

FinishTable ==
  /\ step = "overrides" /\ left = {}
  /\ LET T == ExpandNewSlots(table) IN
     IF Unimplemented(T) THEN Refuse
     ELSE /\ tables' = Append(tables, T)
          /\ step' = "idle"
          /\ table' = EmptyTable
          /\ UNCHANGED <<classes, refused, left>>

Init ==
  /\ classes = <<>> /\ tables = <<>> /\ refused = FALSE
  /\ table = EmptyTable /\ step = "idle" /\ left = {}

DeclaredIn(C, t) == t.owner \in DOMAIN C /\ \E d \in Range(C[t.owner].methods) : Method(t.owner, d) = t

\* what an `.override' names exists
WellFormed(class) ==
  \A d \in Range(class.methods), t \in UNION {c.overrides : c \in Range(class.methods)} :
    t \in d.overrides => t \in Entries \/ DeclaredIn(Append(classes, class), t)

Next ==
  \/ \E class \in Declarations : WellFormed(class) /\ Start(class)
  \/ OverrideImplicitly \/ StartPending \/ BindPending
  \/ StartInterfaces \/ BindInterface \/ StartOverrides \/ OverrideExplicitly
  \/ FinishTable

Spec == Init /\ [][Next]_vars
-----------------------------------------------------------------------------
(* VirtualTable: the query of a virtual call.                              *)

\* a method that reuses a slot stands for the one that opened it
Opener(T, e) == IF e \in DOMAIN T.newSlot THEN T.newSlot[e] ELSE e

\* mutant: goes on without asking whether it comes from there
TurnAgain(T, e) ==
  LET impl == T.impl[Opener(T, e)]
  IN  IF impl \in DOMAIN T.newSlot THEN [done |-> FALSE, at |-> T.newSlot[impl]]
      ELSE [done |-> TRUE, at |-> impl]

\* one turn of the loop of QueryCallVirtImpl: the entry to look at next, or
\* the answer, which is None where QueryEntryMap throws
Turn(T, e) ==
  LET entry == Opener(T, e)
      impl == IF entry \in DOMAIN T.impl THEN T.impl[entry] ELSE None
  IN  CASE impl \in DOMAIN T.newSlot /\ entry # T.newSlot[impl] -> [done |-> FALSE, at |-> T.newSlot[impl]]
        [] impl \in DOMAIN T.replace /\ (impl \in DOMAIN T.newSlot => entry = T.newSlot[impl]) ->
             [done |-> FALSE, at |-> T.replace[impl]]
        [] OTHER -> [done |-> TRUE, at |-> impl]

\* as many turns as there are entries, and one more
Query(T, e) ==
  LET limit == Cardinality(DOMAIN T.impl) + 1
      run[k \in 0..limit] ==
        IF k = 0 THEN [done |-> FALSE, at |-> e]
        ELSE IF run[k - 1].done THEN run[k - 1] ELSE Turn(T, run[k - 1].at)
  IN  run[limit]
-----------------------------------------------------------------------------
(* What the classes mean, from their declarations alone.                   *)

MethodsOf(k) == {Method(k, d) : d \in Range(classes[k].methods)}
Methods == UNION {MethodsOf(k) : k \in DOMAIN classes}

\* the method that a name in class k stands for: that of the nearest class
Nearest(k, sig) ==
  LET owners == {j \in 1..k : \E m \in MethodsOf(j) : m.sig = sig}
      j == CHOOSE j \in owners : \A i \in owners : i <= j
      here == {m \in MethodsOf(j) : m.sig = sig}
  IN  IF owners = {} THEN None
      ELSE CHOOSE m \in here : m.kind = "new" \/ Cardinality(here) = 1

\* a method opens a slot if it says so or finds none to reuse
Opens(m) == m.kind = "new" \/ Nearest(m.owner - 1, m.sig) = None
\* the method that opened the slot of a method
Slot(m) ==
  LET before == {o \in Methods : o.sig = m.sig /\ o.owner < m.owner /\ Opens(o)}
      last == {o \in before : \A p \in before : p.owner <= o.owner}
  IN  IF Opens(m) THEN m ELSE CHOOSE o \in last : o.kind = "new" \/ Cardinality(last) = 1

Slots == {m \in Methods : Opens(m)}

Overrides(k, t) == {Method(k, d) : d \in {d \in Range(classes[k].methods) : t \in d.overrides}}
\* those of class k that override explicitly a method of the slot, and those
\* that do so by their signature
Explicit(k, slot) == UNION {Overrides(k, m) : m \in {m \in Methods : Slot(m) = slot}}
Implicit(k, slot) == {m \in MethodsOf(k) : Slot(m) = slot}
SaysOf(k, slot) == Explicit(k, slot) \cup Implicit(k, slot)

\* the last class of 1..n that says something about a slot
LastWord(n, slot) ==
  CHOOSE k \in 1..n : SaysOf(k, slot) # {} /\ \A j \in (k + 1)..n : SaysOf(j, slot) = {}

\* the slot that a call goes on to: an explicit override runs what the slot of
\* its body runs
Redirect(n, slot) ==
  LET over == Explicit(LastWord(n, slot), slot)
  IN  IF over = {} THEN slot ELSE Slot(CHOOSE x \in over : TRUE)

\* the slot at the end of its redirections
Follow(n, slot) ==
  LET to == [s \in Slots |-> Redirect(n, s)]
      walk[k \in 0..Cardinality(Slots)] == IF k = 0 THEN slot ELSE to[walk[k - 1]]
  IN  walk[Cardinality(Slots)]

\* explicit overrides that lead to each other
Ring(n) == \E s \in Slots : Redirect(n, Follow(n, s)) # Follow(n, s)

\* what a call through a slot runs on an object of class n
Runs(n, slot) ==
  LET last == Follow(n, slot)
  IN  CHOOSE m \in Implicit(LastWord(n, last), last) : TRUE

\* a class may declare a signature twice, once to reuse a slot and once to hide it
Hides(k) == \E c, d \in Range(classes[k].methods) : c.sig = d.sig /\ c # d

\* the explicit overrides of class methods that the tables keep: those of a
\* method that opened a slot, by one that is not overridden further if it
\* opened a slot as well, where no later class lists an interface and no class
\* hides a method it reuses
Kept(slot) ==
  \A k \in DOMAIN classes : \A x \in Explicit(k, slot) :
    /\ \A m \in Methods : x \in Overrides(k, m) /\ Slot(m) = slot => m = slot
    /\ \/ k = slot.owner
       \/ /\ Slot(x) # x \/ \A j \in (k + 1)..Len(classes) : SaysOf(j, x) = {}
          /\ \A j \in (k + 1)..Len(classes) : classes[j].lists = <<>>
    /\ \A j \in DOMAIN classes : ~Hides(j)

Top == Len(tables)
Concrete == step = "idle" /\ Top > 0 /\ ~refused /\ ~classes[Top].abstract

\* A query of a concrete class ends, whatever entry it starts from: the
\* redirections to the opener of a slot and to the body of an override do not
\* lead back, unless explicit overrides of one chain of classes lead to each
\* other (QueryCallVirtImpl has no test for that and would not end).
QueriesEnd ==
  Concrete /\ ~Ring(Top) => \A e \in DOMAIN tables[Top].impl : Query(tables[Top], e).done

\* A virtual call of a class method runs the last override of its slot, implicit
\* or explicit, on every class of every chain whose explicit overrides are of
\* the kind that the tables keep.
MostDerived ==
  Concrete /\ ~Ring(Top) /\ (\A s \in Slots : Kept(s)) =>
    \A m \in Methods : Query(tables[Top], m) = [done |-> TRUE, at |-> Runs(Top, Slot(m))]

\* the interfaces' side: the method that a class binds an entry of an interface to
Declares(k, sig) == \E m \in MethodsOf(k) : m.sig = sig
Lists(k, entry) ==
  \E i \in Range(classes[k].lists) : \E s \in DOMAIN InterfaceSlots[i] : entry \in InterfaceSlots[i][s]

\* the class binds the interface to a method of its own by its signature
Rebinds(k, entry) == Overrides(k, entry) = {} /\ Lists(k, entry) /\ Declares(k, entry.sig)

\* the class overrides the method, or binds an interface to its slot
Touches(i, x) ==
  \/ Implicit(i, Slot(x)) # {}
  \/ \E n \in Range(classes[i].lists) : x.sig \in DOMAIN InterfaceSlots[n]

Binding(entry) ==
  LET b[k \in 0..Len(classes)] ==
        IF k = 0 THEN None
        ELSE CASE Overrides(k, entry) # {} -> CHOOSE x \in Overrides(k, entry) : TRUE
               [] Overrides(k, entry) = {} /\ Lists(k, entry) /\ Declares(k, entry.sig) -> Nearest(k, entry.sig)
               [] OTHER -> IF b[k - 1] = None /\ \E j \in 1..k : Lists(j, entry)
                           THEN Nearest(k, entry.sig) ELSE b[k - 1]
  IN  b[Len(classes)]

\* A call through an interface runs what the class that was last to say so
\* bound its method to: an explicit override, else a method of its own if it
\* lists the interface, else the inherited one, and then the last override of
\* that. Left out are explicit overrides of methods of another class, those in
\* a class that also hides a method it reuses, and an explicit override that is
\* overridden, or has an interface bound to its slot, after a class has bound the
\* interface away from it: the slot keeps the entry and takes it back
\* (ApplyVirtualSlot).
InterfaceBound ==
  Concrete => \A e \in Entries :
     /\ \E k \in DOMAIN classes : Lists(k, e)
     /\ Binding(e) # None
     /\ \A k \in DOMAIN classes, m \in Methods : Overrides(k, m) # {} => m.owner = k
     /\ \A k \in DOMAIN classes : Hides(k) => Overrides(k, e) = {}
     /\ \A j \in DOMAIN classes : Rebinds(j, e) =>
          \A k \in 1..j : \A x \in Overrides(k, e) : \A i \in j..Top : ~Touches(i, x)
     => Query(tables[Top], e) = [done |-> TRUE, at |-> Runs(Top, Slot(Binding(e)))]
=============================================================================
