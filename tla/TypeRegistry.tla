---------------------------- MODULE TypeRegistry ----------------------------
(***************************************************************************)
(* CSerializerFactory, SerializerFactoryConfigMgr and CPool                *)
(* (SerializerFactory.cpp).  The factories of a process share one built-in *)
(* table per mode, made on first use behind a check, a lock and a second   *)
(* check.  A factory that is given an addition takes a copy of its own.    *)
(* Every factory pools the (de)serializers it hands out.                   *)
(*                                                                         *)
(* A factory is used by one thread at a time, and every thread has one, so *)
(* a factory stands for its thread.  Addresses are numbers; an address     *)
(* that is not in DOMAIN heap is free.                                     *)
(***************************************************************************)
EXTENDS TypeTables

CONSTANTS Factory, Additions,
          UsedModes,    \* the modes SetConfig is called with
          MaxAdds,      \* bound: additions to one factory
          MaxHeld,      \* bound: (de)serializers a thread has at once
          Address,      \* bound: where configurations can be
          Nothing       \* NULL

ASSUME RegistryAssumption ==
    /\ UsedModes \subseteq Modes
    /\ Nothing \notin Factory \cup Address

VARIABLES heap,         \* heap[a]: the configuration at a: its mode, additions, m_Loaded
          slot,         \* slot[m]: m_std11, m_scripting11, m_std12, m_scripting12
          lock,         \* SerializerFactoryConfigMgr::m_lock: its holder, or Nothing
          fac,          \* fac[f]: m_mode, m_state, m_cfg, m_prefNamespace
          pc,           \* pc[f]: where the thread of f is
          req,          \* req[f]: what it was called for, or NoCall
          got,          \* got[f]: Getter's c
          said,         \* said[f]: the last question answered, and the answer
          ready, active,  \* CPool's two maps: instances [by, n] of a class
          held          \* held[f]: the instances the caller has, in the order it got them

registryVars == <<heap, slot, lock, fac, pc, req, got, said, ready, active, held>>

\* what the manager shares, what a call in progress keeps, and the pool
sharedVars == <<heap, slot, lock>>
callVars == <<pc, req, got>>
poolVars == <<ready, active, held>>

NoCall == [kind |-> "none"]

P == INSTANCE PrivateRegistry WITH
        own <- [f \in Factory |->
                  [mode |-> fac[f].mode, schema |-> fac[f].schema,
                   adds |-> IF fac[f].state = "custom" THEN heap[fac[f].cfg].adds ELSE <<>>]],
        asked <- [f \in Factory |->
                    IF req[f].kind = "ask" THEN req[f].q ELSE NoAnswer],
        said <- said

\* CSerializerFactory's constructor
NewFactory == [mode |-> "normal11", state |-> "notset", cfg |-> Nothing, schema |-> "xsd01"]

RegistryInit ==
    /\ heap = <<>>
    /\ slot = [m \in Modes |-> Nothing]
    /\ lock = Nothing
    /\ fac = [f \in Factory |-> NewFactory]
    /\ pc = [f \in Factory |-> "idle"]
    /\ req = [f \in Factory |-> NoCall]
    /\ got = [f \in Factory |-> Nothing]
    /\ said = [f \in Factory |-> NoAnswer]
    /\ ready = [f \in Factory |-> {}]
    /\ active = [f \in Factory |-> {}]
    /\ held = [f \in Factory |-> <<>>]

----------------------------------------------------------------------------
(* The heap.                                                               *)

FreeAddress == CHOOSE a \in Address : a \notin DOMAIN heap
HasRoom == Address \ DOMAIN heap # {}

\* the heap with a configuration at an address more, or one less
Allocated(a, config) == [b \in DOMAIN heap \cup {a} |-> IF b = a THEN config ELSE heap[b]]
Without(a) == [b \in DOMAIN heap \ {a} |-> heap[b]]

Empty == [des |-> {}, simple |-> <<>>, iface |-> <<>>, etypes |-> <<>>, ltypes |-> <<>>]
Contents(config) == IF config.loaded THEN P!Tables(config.mode, config.adds) ELSE Empty

----------------------------------------------------------------------------
(* A call that needs the tables: InitConfig, Getter, and the call's body.  *)

IsCustom(r) == r.kind = "add"

NeedsBase(f, r) ==
    fac[f].state # "custom" /\ (fac[f].state = "loaded" => IsCustom(r))

\* the call begins; Getter's check without the lock
Start(f, r) ==
    LET shared == slot[fac[f].mode]
        needs == NeedsBase(f, r)
    IN  /\ pc[f] = "idle"
        /\ r.kind = "add" /\ fac[f].state = "custom" => Len(heap[fac[f].cfg].adds) < MaxAdds
        /\ r.kind = "ask" => Len(held[f]) < MaxHeld
        /\ req' = [req EXCEPT ![f] = r]
        /\ pc' = [pc EXCEPT ![f] = IF ~needs THEN "body" ELSE IF shared = Nothing THEN "lock" ELSE "take"]
        /\ got' = [got EXCEPT ![f] = IF needs THEN shared ELSE Nothing]
        /\ UNCHANGED <<sharedVars, fac, said, poolVars>>

\* m_lock.Lock(), the second check, and new SerializerFactoryConfig
LockManager(f) ==
    LET mode == fac[f].mode IN
    /\ pc[f] = "lock"
    /\ lock = Nothing
    /\ HasRoom
    /\ lock' = f
    /\ IF slot[mode] # Nothing
       THEN /\ got' = [got EXCEPT ![f] = slot[mode]]
            /\ pc' = [pc EXCEPT ![f] = "unlock"]
            /\ UNCHANGED heap
       ELSE /\ got' = [got EXCEPT ![f] = FreeAddress]
            /\ heap' = Allocated(FreeAddress, [mode |-> mode, adds |-> <<>>, loaded |-> FALSE])
            /\ pc' = [pc EXCEPT ![f] = "fill"]
    /\ UNCHANGED <<slot, fac, req, said, poolVars>>

\* c->Init(configMode)
Fill(f) ==
    /\ pc[f] = "fill"
    /\ heap' = [heap EXCEPT ![got[f]].loaded = TRUE]
    /\ pc' = [pc EXCEPT ![f] = "publish"]
    /\ UNCHANGED <<slot, lock, fac, req, got, said, poolVars>>

\* *ourCopy = c
Publish(f) ==
    /\ pc[f] = "publish"
    /\ slot' = [slot EXCEPT ![fac[f].mode] = got[f]]
    /\ pc' = [pc EXCEPT ![f] = "unlock"]
    /\ UNCHANGED <<heap, lock, fac, req, got, said, poolVars>>

UnlockManager(f) ==
    /\ pc[f] = "unlock"
    /\ lock' = Nothing
    /\ pc' = [pc EXCEPT ![f] = "take"]
    /\ UNCHANGED <<heap, slot, fac, req, got, said, poolVars>>

\* A mutant: a factory adds to the configuration it was given
BugTaken(f) == got[f]

\* the configuration InitConfig leaves the factory with: a copy to add to, or the shared one
Taken(f) == IF IsCustom(req[f]) THEN FreeAddress ELSE got[f]

Take(f) ==
    /\ pc[f] = "take"
    /\ HasRoom
    /\ fac' = [fac EXCEPT ![f].cfg = Taken(f), ![f].state = IF IsCustom(req[f]) THEN "custom" ELSE "loaded"]
    /\ heap' = IF IsCustom(req[f]) THEN Allocated(Taken(f), heap[got[f]]) ELSE heap
    /\ pc' = [pc EXCEPT ![f] = "body"]
    /\ got' = [got EXCEPT ![f] = Nothing]
    /\ UNCHANGED <<slot, lock, req, said, poolVars>>

\* Deserializer, Serializer, ElementMapping, LocalTypeMapping
AddEntry(f) ==
    /\ pc[f] = "body"
    /\ req[f].kind = "add"
    /\ heap' = [heap EXCEPT ![fac[f].cfg].adds = Append(@, req[f].add)]
    /\ pc' = [pc EXCEPT ![f] = "idle"]
    /\ req' = [req EXCEPT ![f] = NoCall]
    /\ UNCHANGED <<slot, lock, fac, got, said, poolVars>>

\* CPool::fetch: one that is ready, or a new one
NewInstance(f, by) ==
    LET known == {i \in ready[f] \cup active[f] \cup ToSet(held[f]) : i.by = by}
    IN  [by |-> by, n |-> CHOOSE n \in 1..(Cardinality(known) + 1) : [by |-> by, n |-> n] \notin known]

\* A mutant: one that is handed out stays ready
BugFetch(f, by) ==
    LET found == {i \in ready[f] : i.by = by}
        i == IF found = {} THEN NewInstance(f, by) ELSE CHOOSE x \in found : TRUE
    IN  /\ active' = [active EXCEPT ![f] = @ \cup {i}]
        /\ held' = [held EXCEPT ![f] = Append(@, i)]
        /\ UNCHANGED ready

Fetch(f, by) ==
    LET found == {i \in ready[f] : i.by = by}
        i == IF found = {} THEN NewInstance(f, by) ELSE CHOOSE x \in found : TRUE
    IN  /\ ready' = [ready EXCEPT ![f] = @ \ {i}]
        /\ active' = [active EXCEPT ![f] = @ \cup {i}]
        /\ held' = [held EXCEPT ![f] = Append(@, i)]

\* Fetch of a class by name, which needs no tables
FetchClass(f, by) ==
    /\ pc[f] = "idle"
    /\ Len(held[f]) < MaxHeld
    /\ Fetch(f, by)
    /\ UNCHANGED <<sharedVars, fac, callVars, said>>

\* the lookups, which hand out an instance of the class they found; AreEqualComTypes hands out
\* none.  A bound: CLSIDFromProgID and CoCreateInstance know every class of the tables.
Lookup(f) ==
    LET q == req[f].q
        a == P!Answer(Contents(heap[fac[f].cfg]), fac[f].schema, q)
    IN  /\ pc[f] = "body"
        /\ req[f].kind = "ask"
        /\ said' = [said EXCEPT ![f] = [q |-> q, a |-> a]]
        /\ IF a = NotFound \/ q.kind = "AreEqualComTypes" THEN UNCHANGED poolVars ELSE Fetch(f, a.by)
        /\ pc' = [pc EXCEPT ![f] = "idle"]
        /\ req' = [req EXCEPT ![f] = NoCall]
        /\ UNCHANGED <<sharedVars, fac, got>>

----------------------------------------------------------------------------
(* Calls that do not need the tables.                                      *)

\* ReturnSerializer, ReturnDeSerializer: CPool::completed of any instance the caller has
Return(f, k) ==
    LET i == held[f][k] IN
    /\ pc[f] = "idle"
    /\ held' = [held EXCEPT ![f] = RemoveAt(@, k)]
    /\ IF i \in active[f]
       THEN /\ active' = [active EXCEPT ![f] = @ \ {i}]
            /\ ready' = [ready EXCEPT ![f] = @ \cup {i}]
       ELSE UNCHANGED <<ready, active>>
    /\ UNCHANGED <<sharedVars, fac, callVars, said>>

\* the caller fails and releases what it has without returning it: the pool keeps it as active
Drop(f) ==
    /\ pc[f] = "idle"
    /\ held' = [held EXCEPT ![f] = <<>>]
    /\ UNCHANGED <<sharedVars, fac, callVars, said, ready, active>>

\* Reset: CPool::clear, when a parse is over
ClearPool(f) ==
    /\ pc[f] = "idle"
    /\ ready' = [ready EXCEPT ![f] = {}]
    /\ active' = [active EXCEPT ![f] = {}]
    /\ UNCHANGED <<sharedVars, fac, callVars, said, held>>

\* what ClearConfig leaves of the heap
Cleared(f) == IF fac[f].state = "custom" THEN Without(fac[f].cfg) ELSE heap

SetConfig(f, mode) ==
    LET clears == fac[f].state = "custom" \/ (fac[f].state = "loaded" /\ mode # fac[f].mode) IN
    /\ pc[f] = "idle"
    /\ heap' = IF clears THEN Cleared(f) ELSE heap
    /\ fac' = [fac EXCEPT ![f].mode = mode,
                          ![f].state = IF clears THEN "notset" ELSE @,
                          ![f].cfg = IF clears THEN Nothing ELSE @]
    /\ UNCHANGED <<slot, lock, callVars, said, poolVars>>

PutSchema(f, uri) ==
    /\ pc[f] = "idle"
    /\ fac' = [fac EXCEPT ![f].schema = uri]
    /\ UNCHANGED <<sharedVars, callVars, said, poolVars>>

\* the factory is destroyed, and its thread makes a new one
Replace(f) ==
    /\ pc[f] = "idle"
    /\ heap' = Cleared(f)
    /\ fac' = [fac EXCEPT ![f] = NewFactory]
    /\ said' = [said EXCEPT ![f] = NoAnswer]
    /\ ready' = [ready EXCEPT ![f] = {}]
    /\ active' = [active EXCEPT ![f] = {}]
    /\ held' = [held EXCEPT ![f] = <<>>]
    /\ UNCHANGED <<slot, lock, callVars>>

----------------------------------------------------------------------------
\* what a call does once it has begun
Work(f) ==
    LockManager(f) \/ Fill(f) \/ Publish(f) \/ UnlockManager(f) \/ Take(f) \/ AddEntry(f) \/ Lookup(f)

RegistryNext ==
    \E f \in Factory :
        \/ \E q : IsQuestion(q) /\ Start(f, [kind |-> "ask", q |-> q])
        \/ \E add \in Additions : Start(f, [kind |-> "add", add |-> add])
        \/ Work(f)
        \/ \E by \in {"null", "ns"} : FetchClass(f, by)
        \/ \E k \in DOMAIN held[f] : Return(f, k)
        \/ Drop(f)
        \/ ClearPool(f)
        \/ \E mode \in UsedModes : SetConfig(f, mode)
        \/ \E uri \in {"xsd99", "xsd01"} : PutSchema(f, uri)
        \/ Replace(f)

RegistrySpec == RegistryInit /\ [][RegistryNext]_registryVars

----------------------------------------------------------------------------
(* Properties.                                                             *)

\* Every configuration has one owner: a slot of the manager, the factory that copied it,
\* or the thread that is making it; and a factory only uses one that is there.
ConfigsOwned ==
    /\ \A f \in Factory : fac[f].cfg # Nothing => fac[f].cfg \in DOMAIN heap
    /\ \A a \in DOMAIN heap :
          LET owners == {m \in Modes : slot[m] = a}
                        \cup {f \in Factory : fac[f].state = "custom" /\ fac[f].cfg = a}
                        \cup {f \in Factory : pc[f] \in {"fill", "publish"} /\ got[f] = a}
          IN  Cardinality(owners) = 1

\* No instance is with two callers, or with one and ready for the next.
InstancesOwned ==
    \A f \in Factory : IsInjective(held[f]) /\ ToSet(held[f]) \cap ready[f] = {}

\* A configuration is freed once and used by nobody after, and a pooled (de)serializer is
\* not initialised for a second element while the first is being read or written.
OneOwner == ConfigsOwned /\ InstancesOwned

\* Factories that share their tables behave as if each had its own.
ImplementsRegistry == P!Spec
=============================================================================
