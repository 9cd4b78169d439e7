----------------------------- MODULE SmcKeystore -----------------------------
(***************************************************************************)
(* The key store (kern_keystore.cpp): the search over its own storages and *)
(* those of the plugins, the loading of plugins while the driver reads,    *)
(* the override of values, and the lock of the private keys.               *)
(*                                                                         *)
(* Plugins are submitted by threads of their own, without a lock; each     *)
(* atomic access to a plugin slot or to a value pointer is an action.  The *)
(* driver makes one access at a time.  A value object is a pair of its     *)
(* owner and its key, so that an object that was freed can be told from    *)
(* the one that replaced it.                                               *)
(***************************************************************************)
EXTENDS Integers, FiniteSets, Sequences, SequencesExt

CONSTANTS
  Plugins,       \* the plugins, one submission each
  None,          \* no plugin, no value, no key
  Store,         \* the owner of the values the store creates itself
  Base,          \* [visible, hidden] -> the keys of the store's storages
  Offers,        \* plugin -> [visible, hidden] -> the keys it brings
  PluginMax,     \* number of plugin slots
  KeyCount,      \* the visible key that holds the number of keys
  KPPW,          \* the hidden key that takes the password
  Readable,      \* values with SMC_KEY_ATTRIBUTE_READ
  Writable,      \* values with SMC_KEY_ATTRIBUTE_WRITE
  Private        \* values with SMC_KEY_ATTRIBUTE_PRIVATE_READ and _WRITE

Parts == {"visible", "hidden"}
Keys == UNION {Base[s] \cup UNION {Offers[p][s] : p \in Plugins} : s \in Parts}
Values == (Plugins \cup {Store}) \X Keys

(* The keys of a plugin that the store has already.                        *)
Overrides(p, part) == Offers[p][part] \cap Base[part]

(* Names are numbers and compare as such.  No name is in both parts, no    *)
(* two plugins bring the same key: what happens then is left undefined by  *)
(* the plugin interface ("a contract violation").                          *)
ASSUME ConstantsAssumption ==
  /\ Keys \subseteq Nat /\ IsFiniteSet(Keys)
  /\ Store \notin Plugins
  /\ None \notin Plugins \cup {Store} \cup Keys \cup Values
  /\ None \notin {"Invalid", "NoMemory", "NoSpace", "Success", "name"}
  /\ PluginMax \in Nat \ {0}
  /\ Offers \in [Plugins -> [Parts -> SUBSET Nat]]
  /\ KeyCount \in Base["visible"] /\ KPPW \in Base["hidden"]
  /\ \A p, q \in Plugins, s, t \in Parts :
       (<<p, s>> # <<q, t>>) => Offers[p][s] \cap Offers[q][t] = {}
  /\ Readable \cup Writable \cup Private \subseteq Values
  /\ Base["visible"] \cap Base["hidden"] = {}
  /\ \A p \in Plugins : /\ Offers[p]["visible"] \cap Base["hidden"] = {}
                        /\ Offers[p]["hidden"] \cap Base["visible"] = {}

VARIABLES
  storage,      \* dataStorage, dataHiddenStorage: key -> value pointer
  data,         \* plugin->data, plugin->dataHidden
  slots,        \* pluginData
  loader,       \* loadPlugin's locals and result, per plugin
  freed,        \* value objects deleted so far
  unlocked,     \* the contents of KPST
  driver        \* the access the driver is making

vars == <<storage, data, slots, loader, freed, unlocked, driver>>

(* The storages are sorted by name.                                        *)
Sorted(names) ==
  [i \in 1 .. Cardinality(names) |->
     CHOOSE n \in names : Cardinality({m \in names : m < n}) = i - 1]

(* The store's own names never change after init.                          *)
BaseNames == [s \in Parts |-> Sorted(Base[s])]

SearchInMutant(s, name) ==
  LET from[range \in (0 .. Len(s)) \X (-1 .. Len(s) - 1)] ==
        LET start == range[1]
            end == range[2]
            curr == (start + end) \div 2
        IN IF start >= end THEN 0
           ELSE IF s[curr + 1] = name THEN curr + 1
           ELSE IF s[curr + 1] > name THEN from[<<start, curr - 1>>]
           ELSE from[<<curr + 1, end>>]
  IN from[<<0, Len(s) - 1>>]

(* getByName on one storage: binary search, 0 when there is no such key.   *)
SearchIn(s, name) ==
  LET from[range \in (0 .. Len(s)) \X (-1 .. Len(s) - 1)] ==
        LET start == range[1]
            end == range[2]
            curr == (start + end) \div 2
        IN IF start > end THEN 0
           ELSE IF s[curr + 1] = name THEN curr + 1
           ELSE IF s[curr + 1] > name THEN from[<<start, curr - 1>>]
           ELSE from[<<curr + 1, end>>]
  IN from[<<0, Len(s) - 1>>]

(* The slots a search walks through: it ends at the first empty one.       *)
Reached == {n \in 1 .. PluginMax : \A i \in 1 .. n : slots[i] # None}

(* getByName: the store's own entry, or that of the first plugin that has  *)
(* the key.                                                                *)
Find(part, key) ==
  IF SearchIn(BaseNames[part], key) # 0 THEN Store
  ELSE LET holders == {i \in Reached :
                         SearchIn(Sorted(data[slots[i]][part]), key) # 0}
       IN IF holders = {} THEN None
          ELSE slots[CHOOSE i \in holders : \A j \in holders : i <= j]

(* The visible storages first, then the hidden ones.                       *)
FindAny(key) ==
  LET visible == Find("visible", key)
  IN IF visible # None THEN visible ELSE Find("hidden", key)

(* The value pointer of an entry: only the store's own are ever replaced.  *)
Pointer(holder, key) ==
  IF holder = Store THEN storage[key] ELSE <<holder, key>>

(* getByIndex over all indices: the visible names, plugin after plugin.    *)
Names ==
  BaseNames["visible"] \o
  FlattenSeq([i \in Reached |-> Sorted(data[slots[i]]["visible"])])

(* The names in it, read off the storages.                                 *)
Visible == Base["visible"] \cup UNION {data[slots[i]]["visible"] : i \in Reached}

Idle == [pc |-> "idle", op |-> None, key |-> None, holder |-> None,
         value |-> None, since |-> {}, count |-> 0]

Init ==
  /\ storage = [k \in Base["visible"] \cup Base["hidden"] |-> <<Store, k>>]
  /\ data = Offers
  /\ slots = [i \in 1 .. PluginMax |-> None]
  /\ loader = [p \in Plugins |-> [pc |-> "idle", ovr |-> <<>>, org |-> None,
                                  backup |-> {}, result |-> None]]
  /\ freed = {}
  /\ unlocked = FALSE
  /\ driver = Idle

-----------------------------------------------------------------------------
(* Loading a plugin.                                                       *)

Step(p, pc) == loader' = [loader EXCEPT ![p].pc = pc]
Finish(p, result) ==
  loader' = [loader EXCEPT ![p].pc = "done", ![p].result = result]
OwnValues(p, names) == {<<p, k>> : k \in names}

(* A plugin built for another version of the interface is turned away.     *)
RefuseVersion(p) ==
  /\ loader[p].pc = "idle"
  /\ Finish(p, "Invalid")
  /\ UNCHANGED <<storage, data, slots, freed, unlocked, driver>>

RemainingMutant(p, taken) == data[p]

(* What is left in a plugin when its overrides are taken out.              *)
Remaining(p, taken) == [s \in Parts |-> data[p][s] \ taken]

AllOverrides(p) == Sorted(Overrides(p, "visible")) \o Sorted(Overrides(p, "hidden"))

Collect(p) ==
  /\ loader[p].pc = "idle"
  /\ data' = [data EXCEPT ![p] = Remaining(p, ToSet(AllOverrides(p)))]
  /\ loader' = [loader EXCEPT ![p].pc = "collected", ![p].ovr = AllOverrides(p)]
  /\ UNCHANGED <<storage, slots, freed, unlocked, driver>>

(* No memory after some of them: those are out of the plugin already, and  *)
(* are deleted with the temporary storage.                                 *)
CollectFails(p) ==
  /\ loader[p].pc = "idle"
  /\ \E n \in 0 .. Len(AllOverrides(p)) - 1 :
       LET taken == ToSet(SubSeq(AllOverrides(p), 1, n))
       IN /\ data' = [data EXCEPT ![p] = Remaining(p, taken)]
          /\ freed' = freed \cup OwnValues(p, taken)
  /\ Finish(p, "NoMemory")
  /\ UNCHANGED <<storage, slots, unlocked, driver>>

TakesSlotMutant(i) == slots[i] = None
TakesSlotByStore(i) == \A j \in 1 .. i - 1 : slots[j] # None

(* The compare and exchange loop takes the first empty slot.               *)
TakesSlot(i) == slots[i] = None /\ \A j \in 1 .. i - 1 : slots[j] # None

Publish(p) ==
  /\ loader[p].pc = "collected"
  /\ \E i \in 1 .. PluginMax :
       /\ TakesSlot(i)
       /\ slots' = [slots EXCEPT ![i] = p]
  /\ Step(p, "overriding")
  /\ UNCHANGED <<storage, data, freed, unlocked, driver>>

NoSpace(p) ==
  /\ loader[p].pc = "collected"
  /\ \A i \in 1 .. PluginMax : slots[i] # None
  /\ freed' = freed \cup OwnValues(p, ToSet(loader[p].ovr))
  /\ Finish(p, "NoSpace")
  /\ UNCHANGED <<storage, data, slots, unlocked, driver>>

LoadOriginal(p) ==
  /\ loader[p].pc = "overriding" /\ loader[p].ovr # <<>>
  /\ loader' = [loader EXCEPT ![p].pc = "replacing",
                              ![p].org = storage[Head(loader[p].ovr)]]
  /\ UNCHANGED <<storage, data, slots, freed, unlocked, driver>>

ReplacedMutant(p, k) == loader[p].org

(* The value an override leaves behind the name.                           *)
Replaced(p, k) == <<p, k>>

(* The new value is stored, the temporary entry keeps the original as its  *)
(* backup and forgets the new one.                                         *)
StoreNew(p) ==
  /\ loader[p].pc = "replacing"
  /\ LET k == Head(loader[p].ovr)
     IN /\ storage' = [storage EXCEPT ![k] = Replaced(p, k)]
        /\ loader' = [loader EXCEPT ![p].pc = "overriding",
                                    ![p].ovr = Tail(loader[p].ovr),
                                    ![p].org = None,
                                    ![p].backup = @ \cup {loader[p].org}]
  /\ UNCHANGED <<data, slots, freed, unlocked, driver>>

DeletedMutant(p) == loader[p].backup \cup OwnValues(p, ToSet(AllOverrides(p)))

(* deinit of the temporary entries deletes what they still hold.           *)
Deleted(p) == loader[p].backup

Complete(p) ==
  /\ loader[p].pc = "overriding" /\ loader[p].ovr = <<>>
  /\ freed' = freed \cup Deleted(p)
  /\ loader' = [loader EXCEPT ![p].pc = "done", ![p].result = "Success",
                              ![p].backup = {}]
  /\ UNCHANGED <<storage, data, slots, unlocked, driver>>

LoadPlugin(p) ==
  \/ RefuseVersion(p) \/ Collect(p) \/ CollectFails(p) \/ Publish(p)
  \/ NoSpace(p) \/ LoadOriginal(p) \/ StoreNew(p) \/ Complete(p)

-----------------------------------------------------------------------------
(* The driver's accesses.                                                  *)

Ready == {p \in Plugins : loader[p].result = "Success"}

(* readValueByName, writeValueByName or getInfoByName begin: the search,   *)
(* which locks the private keys again, whatever it finds.                  *)
Begin(op, key) ==
  /\ driver.pc = "idle"
  /\ unlocked' = FALSE
  /\ \E holder \in {FindAny(key)} :
       driver' = IF holder = None THEN Idle
                 ELSE [driver EXCEPT !.pc = "found", !.op = op, !.key = key,
                                     !.holder = holder, !.since = Ready]
  /\ UNCHANGED <<storage, data, slots, loader, freed>>

LoadValue ==
  /\ driver.pc = "found"
  /\ driver' = [driver EXCEPT !.pc = "loaded",
                              !.value = Pointer(driver.holder, driver.key)]
  /\ UNCHANGED <<storage, data, slots, loader, freed, unlocked>>

Allowed(rights) ==
  /\ driver.value \in rights
  /\ driver.value \in Private => unlocked

Refuse ==
  /\ driver.pc = "loaded"
  /\ \/ driver.op = "read" /\ ~Allowed(Readable)
     \/ driver.op = "write" /\ ~Allowed(Writable)
  /\ driver' = Idle
  /\ UNCHANGED <<storage, data, slots, loader, freed, unlocked>>

(* The value prepares its bytes; that of KeyCount counts the keys.         *)
ReadAccess ==
  /\ driver.pc = "loaded" /\ driver.op = "read" /\ Allowed(Readable)
  /\ driver' = [driver EXCEPT !.pc = "answer",
                              !.count = IF driver.value = <<Store, KeyCount>>
                                        THEN Len(Names) ELSE @]
  /\ UNCHANGED <<storage, data, slots, loader, freed, unlocked>>

(* The protocol copies the answer and the access is over.                  *)
Copy ==
  /\ driver.pc = "answer"
  /\ driver' = Idle
  /\ UNCHANGED <<storage, data, slots, loader, freed, unlocked>>

(* A write; KPPW compares the bytes with the password of the generation.   *)
Update ==
  /\ driver.pc = "loaded" /\ driver.op = "write" /\ Allowed(Writable)
  /\ unlocked' \in IF driver.value = <<Store, KPPW>> THEN BOOLEAN ELSE {unlocked}
  /\ driver' = Idle
  /\ UNCHANGED <<storage, data, slots, loader, freed>>

(* getInfoByName: the EPCI test never holds, so no attribute is withheld.  *)
Inform ==
  /\ driver.pc = "loaded" /\ driver.op = "info"
  /\ driver' = Idle
  /\ UNCHANGED <<storage, data, slots, loader, freed, unlocked>>

(* readNameByIndex; it makes no search by name and locks nothing.          *)
NameByIndex(i) ==
  /\ driver.pc = "idle" /\ i \in DOMAIN Names
  /\ driver' = [driver EXCEPT !.pc = "answer", !.op = "name", !.key = Names[i]]
  /\ UNCHANGED <<storage, data, slots, loader, freed, unlocked>>

Access ==
  \/ \E op \in {"read", "write", "info"}, key \in Keys : Begin(op, key)
  \/ LoadValue \/ Refuse \/ ReadAccess \/ Copy \/ Update \/ Inform
  \/ \E i \in 1 .. Cardinality(Keys) : NameByIndex(i)

Next == (\E p \in Plugins : LoadPlugin(p)) \/ Access

Spec == Init /\ [][Next]_vars

-----------------------------------------------------------------------------
(* Every variable has its type; a plugin takes at most one slot, and the   *)
(* slots are filled from the front, as the searches of loadPlugin's        *)
(* pluginData expect when they stop at the first empty one.                *)
TypeOK ==
  /\ storage \in [Base["visible"] \cup Base["hidden"] -> Values]
  /\ data \in [Plugins -> [Parts -> SUBSET Keys]]
  /\ slots \in [1 .. PluginMax -> Plugins \cup {None}]
  /\ \A i, j \in 1 .. PluginMax : slots[i] = slots[j] /\ i # j => slots[i] = None
  /\ \A i, j \in 1 .. PluginMax : slots[j] # None /\ i < j => slots[i] # None
  /\ loader \in [Plugins ->
       [pc : {"idle", "collected", "overriding", "replacing", "done"},
        ovr : Seq(Keys), org : Values \cup {None}, backup : SUBSET Values,
        result : {None, "Invalid", "NoMemory", "NoSpace", "Success"}]]
  /\ freed \in SUBSET Values
  /\ unlocked \in BOOLEAN
  /\ driver \in
       [pc : {"idle", "found", "loaded", "answer"},
        op : {None, "read", "write", "info", "name"}, key : Keys \cup {None},
        holder : Plugins \cup {Store, None}, value : Values \cup {None},
        since : SUBSET Plugins, count : Nat]

(* No search leads to a value that was deleted, whatever plugins are being *)
(* loaded: loadPlugin deletes an original only after its replacement can   *)
(* be found, and takes its own values out of what it deletes.              *)
ReachableAlive ==
  \A key \in Keys :
    LET holder == FindAny(key)
    IN holder # None => Pointer(holder, key) \notin freed

(* The key of every index can be found by its name, and every index below  *)
(* a count the driver was given has a key (getPublicKeyAmount, getByIndex   *)
(* and getByName walk the same storages).                                  *)
NamesAreFound ==
  /\ driver.count <= Len(Names)
  /\ \A name \in ToSet(Names) : Find("visible", name) # None
  /\ driver.op = "name" => Find("visible", driver.key) # None

(* Walking the indices meets every visible key once, an overridden one     *)
(* included, even while plugins are being loaded.                          *)
EnumeratedOnce == IsInjective(Names)

(* An access that began after a submission succeeded is answered by the    *)
(* value of that plugin, for its own keys and for those it overrides.      *)
OverrideAnswers ==
  driver.pc \in {"loaded", "answer"} /\ driver.op # "name" =>
    \A p \in driver.since : \A s \in Parts :
      driver.key \in Offers[p][s] => driver.value = <<p, driver.key>>

(* The store is a directory whose names keep their index for ever and      *)
(* whose values change only by an override.                                *)
Directory == INSTANCE KeyDirectory WITH
  FirstNames <- Sorted(Base["visible"]),
  FirstValues <- [k \in Base["visible"] |-> <<Store, k>>],
  names <- Names,
  current <- [k \in Visible |-> Pointer(Find("visible", k), k)]

DirectorySpec == Directory!Spec
=============================================================================
