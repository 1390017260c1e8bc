--------------------------- MODULE SoapCallProofs ---------------------------
(***************************************************************************)
(* Machine-checked proofs about SoapCall and the TypeRegistry that it is   *)
(* built on.  First TypeRegistry, for any number of factories, additions   *)
(* and addresses, and whatever they are asked; then the calls, for any     *)
(* number of threads, whatever their applications do and their servers     *)
(* answer: they use their factories as TypeRegistry says, so that what is  *)
(* proved there holds of them, their requests are labelled as what they    *)
(* are, and what they come to is never better than the answer.  Last, what *)
(* SimpleValues writes of a value is read as that value.                   *)
(***************************************************************************)
EXTENDS SoapCall, FiniteSetTheorems, SequenceLemmas, TLAPS
-----------------------------------------------------------------------------
(* TypeRegistry: a factory and the registries                              *)

\* What a factory is called for: any question, or an addition
IsRequest(r) ==
    \/ \E q : IsQuestion(q) /\ r = [kind |-> "ask", q |-> q]
    \/ \E add \in Additions : r = [kind |-> "add", add |-> add]
Schemas == {"xsd99", "xsd01"}
Places == {"idle", "lock", "fill", "publish", "unlock", "take", "body"}

ReqInv == req \in [Factory -> {req[f] : f \in Factory}]

\* What the proofs need of the variables' types
TypeInv ==
    /\ slot \in [Modes -> Address \cup {Nothing}]
    /\ lock \in Factory \cup {Nothing}
    /\ fac \in [Factory -> [mode : Modes, state : {"notset", "loaded", "custom"},
                            cfg : Address \cup {Nothing}, schema : Schemas]]
    /\ pc \in [Factory -> Places]
    /\ ReqInv
    /\ got \in [Factory -> Address \cup {Nothing}]
    /\ DOMAIN heap \subseteq Address
    /\ heap \in [DOMAIN heap -> [mode : Modes, adds : Seq(Additions), loaded : BOOLEAN]]

Custom(f) == fac[f].state = "custom"
Making(f) == pc[f] \in {"fill", "publish"}
Made(a, mode) == a \in DOMAIN heap /\ heap[a].mode = mode /\ heap[a].loaded

\* A table of the manager's is complete, and nobody added to it
SlotInv == \A m \in Modes : slot[m] # Nothing => Made(slot[m], m) /\ heap[slot[m]].adds = <<>>

\* A factory has a copy of its own, the manager's table, or none
FactoryInv ==
    \A f \in Factory :
        /\ fac[f].state = "notset" => fac[f].cfg = Nothing
        /\ fac[f].state = "loaded" => slot[fac[f].mode] # Nothing /\ fac[f].cfg = slot[fac[f].mode]
        /\ Custom(f) => Made(fac[f].cfg, fac[f].mode)

\* Where a call is: the lock keeps the second check true until the table is published
CallInv ==
    \A f \in Factory :
        /\ pc[f] = "idle" => req[f] = NoCall
        /\ pc[f] # "idle" => IsRequest(req[f])
        /\ pc[f] \in {"lock", "fill", "publish", "unlock", "take"} => ~Custom(f)
        /\ pc[f] = "body" => fac[f].state # "notset" /\ (req[f].kind = "add" => Custom(f))
        /\ pc[f] \in {"fill", "publish", "unlock"} => lock = f
        /\ Making(f) => /\ slot[fac[f].mode] = Nothing
                        /\ got[f] \in DOMAIN heap
                        /\ heap[got[f]].mode = fac[f].mode /\ heap[got[f]].adds = <<>>
        /\ pc[f] = "publish" => heap[got[f]].loaded
        /\ pc[f] \in {"unlock", "take"} => got[f] # Nothing /\ got[f] = slot[fac[f].mode]

\* Two owners do not have the same table, and none is without an owner
ApartInv ==
    /\ \A f, g \in Factory : Custom(f) /\ Custom(g) /\ fac[f].cfg = fac[g].cfg => f = g
    /\ \A f \in Factory, m \in Modes : Custom(f) => fac[f].cfg # slot[m]
    /\ \A f, g \in Factory : Making(f) /\ Custom(g) => got[f] # fac[g].cfg
OwnedInv ==
    \A a \in DOMAIN heap :
        \/ \E m \in Modes : slot[m] = a
        \/ \E f \in Factory : Custom(f) /\ fac[f].cfg = a
        \/ \E f \in Factory : Making(f) /\ got[f] = a

RegistryInv == TypeInv /\ SlotInv /\ FactoryInv /\ CallInv /\ ApartInv /\ OwnedInv
-----------------------------------------------------------------------------
\* An allocation finds an address that is free.
LEMMA RoomIsFree ==
    HasRoom => FreeAddress \in Address \ DOMAIN heap
BY DEF HasRoom, FreeAddress

\* The invariant implies what the runs check.
LEMMA InvOwned == RegistryInv => ConfigsOwned
<1> SUFFICES ASSUME RegistryInv PROVE ConfigsOwned
  OBVIOUS
<1> USE DEF RegistryInv
<1>1. \A f \in Factory : fac[f].cfg # Nothing => fac[f].cfg \in DOMAIN heap
  BY DEF TypeInv, SlotInv, FactoryInv, Custom, Made
<1>2. ASSUME NEW a \in DOMAIN heap
      PROVE  LET owners == {m \in Modes : slot[m] = a}
                           \cup {f \in Factory : fac[f].state = "custom" /\ fac[f].cfg = a}
                           \cup {f \in Factory : pc[f] \in {"fill", "publish"} /\ got[f] = a}
             IN  Cardinality(owners) = 1
  <2> DEFINE slots  == {m \in Modes : slot[m] = a}
             copies == {f \in Factory : fac[f].state = "custom" /\ fac[f].cfg = a}
             makers == {f \in Factory : pc[f] \in {"fill", "publish"} /\ got[f] = a}
  <2>0. a # Nothing
    BY RegistryAssumption DEF TypeInv
  <2>1. slots \cup copies \cup makers # {}
    BY DEF OwnedInv, Custom, Making
  <2>2. \A m, n \in slots : m = n
    BY <2>0 DEF SlotInv, Made
  <2>3. \A f, g \in copies : f = g
    BY DEF ApartInv, Custom
  <2>4. \A f, g \in makers : f = g
    BY DEF CallInv
  <2>5. slots = {} \/ copies = {}
    BY DEF ApartInv, Custom
  <2>6. slots = {} \/ makers = {}
    BY <2>0 DEF SlotInv, CallInv, Made, Making, TypeInv
  <2>7. copies = {} \/ makers = {}
    BY DEF ApartInv, Custom, Making
  <2>8. PICK x : x \in slots \cup copies \cup makers
    BY <2>1
  <2>9. slots \cup copies \cup makers = {x}
    BY <2>2, <2>3, <2>4, <2>5, <2>6, <2>7, <2>8
  <2> QED
    BY <2>9, FS_Singleton
<1> QED
  BY <1>1, <1>2 DEF ConfigsOwned

\* Factories begin without tables.
LEMMA RegistryInvInit == RegistryInit => RegistryInv
<1> SUFFICES ASSUME RegistryInit PROVE RegistryInv
  OBVIOUS
<1> USE DEF RegistryInit
<1>1. TypeInv
  BY DEF TypeInv, ReqInv, NewFactory, Modes, Schemas, Places
<1>2. SlotInv /\ FactoryInv /\ CallInv /\ ApartInv /\ OwnedInv
  BY DEF SlotInv, FactoryInv, CallInv, ApartInv, OwnedInv, Custom, Making, NewFactory
<1> QED
  BY <1>1, <1>2 DEF RegistryInv
-----------------------------------------------------------------------------
\* What a pool does, and a question that is answered, owns nothing.
LEMMA RegistryUnchanged ==
    ASSUME RegistryInv, UNCHANGED <<sharedVars, fac, callVars>>
    PROVE  RegistryInv'
BY DEF RegistryInv, TypeInv, ReqInv, SlotInv, FactoryInv, CallInv, ApartInv, OwnedInv, Custom, Making, Made,
       sharedVars, callVars

\* A call begins.
LEMMA StartInv ==
    ASSUME RegistryInv, NEW f \in Factory, NEW r, IsRequest(r), Start(f, r)
    PROVE  RegistryInv'
<1> USE DEF RegistryInv
<1>0. /\ pc[f] = "idle" /\ req' = [req EXCEPT ![f] = r]
      /\ UNCHANGED <<heap, slot, lock, fac>>
      /\ pc' = [pc EXCEPT ![f] = IF ~NeedsBase(f, r) THEN "body" ELSE IF slot[fac[f].mode] = Nothing THEN "lock" ELSE "take"]
      /\ got' = [got EXCEPT ![f] = IF NeedsBase(f, r) THEN slot[fac[f].mode] ELSE Nothing]
  BY DEF Start, sharedVars
<1>1. TypeInv'
  BY <1>0 DEF TypeInv, ReqInv, Places
<1>2. SlotInv' /\ FactoryInv'
  BY <1>0 DEF SlotInv, FactoryInv, Custom, Made
<1>3. CallInv'
  BY <1>0 DEF CallInv, TypeInv, ReqInv, Custom, Making, NeedsBase, IsCustom, FactoryInv
<1>4. \A g \in Factory : Making(g)' <=> Making(g)
  BY <1>0 DEF Making, TypeInv
<1>5. ApartInv' /\ OwnedInv'
  BY <1>0, <1>4, SMTT(30) DEF ApartInv, OwnedInv, Custom, TypeInv, Making
<1> QED
  BY <1>1, <1>2, <1>3, <1>5

\* One thread has the lock, and makes a table only where there is none.
LEMMA LockManagerInv ==
    ASSUME RegistryInv, NEW f \in Factory, LockManager(f)
    PROVE  RegistryInv'
<1> USE DEF RegistryInv
<1> DEFINE mode == fac[f].mode
<1>0. /\ pc[f] = "lock" /\ lock = Nothing /\ lock' = f
      /\ UNCHANGED <<slot, fac, req>> /\ HasRoom
  BY DEF LockManager
<1>1. \A g \in Factory : pc[g] \notin {"fill", "publish", "unlock"}
  BY <1>0, RegistryAssumption DEF CallInv
<1>2. CASE slot[mode] # Nothing
  <2>1. /\ got' = [got EXCEPT ![f] = slot[mode]] /\ pc' = [pc EXCEPT ![f] = "unlock"]
        /\ heap' = heap
    BY <1>2 DEF LockManager
  <2>2. TypeInv'
    BY <1>0, <2>1 DEF TypeInv, ReqInv, Places
  <2>3. SlotInv' /\ FactoryInv'
    BY <1>0, <2>1 DEF SlotInv, FactoryInv, Custom, Made
  <2>4. CallInv'
    BY <1>0, <1>1, <1>2, <2>1 DEF CallInv, TypeInv, ReqInv, Custom, Making
  <2>5. \A g \in Factory : ~Making(g) /\ ~Making(g)'
    BY <1>1, <2>1 DEF Making, TypeInv
  <2>6. ApartInv' /\ OwnedInv'
    BY <1>0, <2>1, <2>5 DEF ApartInv, OwnedInv, Custom
  <2> QED
    BY <2>2, <2>3, <2>4, <2>6
<1>3. CASE slot[mode] = Nothing
  <2> DEFINE a == FreeAddress
  <2>0. a \in Address /\ a \notin DOMAIN heap
    BY <1>0, RoomIsFree
  <2> HIDE DEF a
  <2>1. /\ got' = [got EXCEPT ![f] = a] /\ pc' = [pc EXCEPT ![f] = "fill"]
        /\ heap' = Allocated(a, [mode |-> mode, adds |-> <<>>, loaded |-> FALSE])
    BY <1>3 DEF LockManager, a
  <2>2. /\ DOMAIN heap' = DOMAIN heap \cup {a}
        /\ heap'[a] = [mode |-> mode, adds |-> <<>>, loaded |-> FALSE]
        /\ \A b \in DOMAIN heap : heap'[b] = heap[b] /\ b # a
    BY <2>0, <2>1 DEF Allocated
  <2>3. TypeInv'
    <3>1. mode \in Modes
      BY DEF TypeInv
    <3>2. heap' \in [DOMAIN heap' -> [mode : Modes, adds : Seq(Additions), loaded : BOOLEAN]]
      BY <2>1, <2>2, <3>1 DEF TypeInv, Allocated
    <3> QED
      BY <1>0, <2>0, <2>1, <2>2, <3>2, ZenonT(60) DEF TypeInv, ReqInv, Places
  <2>4. SlotInv' /\ FactoryInv'
    BY <1>0, <2>2 DEF SlotInv, FactoryInv, Custom, Made
  <2>5. CallInv'
    BY <1>0, <1>1, <1>3, <2>1, <2>2 DEF CallInv, TypeInv, ReqInv, Custom, Making
  <2>6. ApartInv'
    <3>1. \A g \in Factory : Custom(g) => fac[g].cfg # a
      BY <2>2 DEF FactoryInv, Made
    <3> QED
      BY <1>0, <1>1, <2>1, <3>1 DEF ApartInv, Custom, TypeInv, Making
  <2>7. OwnedInv'
    <3>1. Making(f)' /\ got'[f] = a
      BY <2>1 DEF Making, TypeInv
    <3>2. \A g \in Factory : ~Making(g)
      BY <1>1 DEF Making
    <3> QED
      BY <1>0, <2>2, <3>1, <3>2 DEF OwnedInv, Custom
  <2> QED
    BY <2>3, <2>4, <2>5, <2>6, <2>7
<1> QED
  BY <1>2, <1>3

\* The table is filled where its maker alone knows of it.
LEMMA FillInv ==
    ASSUME RegistryInv, NEW f \in Factory, Fill(f)
    PROVE  RegistryInv'
<1> USE DEF RegistryInv
<1>0. /\ pc[f] = "fill" /\ pc' = [pc EXCEPT ![f] = "publish"]
      /\ heap' = [heap EXCEPT ![got[f]].loaded = TRUE]
      /\ UNCHANGED <<slot, lock, fac, req, got>>
  BY DEF Fill
<1>1. got[f] \in DOMAIN heap /\ lock = f
  BY <1>0 DEF CallInv, Making
<1>2. /\ DOMAIN heap' = DOMAIN heap
      /\ \A b \in DOMAIN heap : /\ heap'[b].mode = heap[b].mode /\ heap'[b].adds = heap[b].adds
                                 /\ heap[b].loaded => heap'[b].loaded
      /\ heap'[got[f]].loaded
  BY <1>0, <1>1 DEF TypeInv
<1>3. TypeInv'
  <2>1. /\ DOMAIN heap' \subseteq Address
        /\ heap' \in [DOMAIN heap' -> [mode : Modes, adds : Seq(Additions), loaded : BOOLEAN]]
    <3>1. PICK e : e = [heap[got[f]] EXCEPT !.loaded = TRUE]
      OBVIOUS
    <3>2. heap[got[f]] \in [mode : Modes, adds : Seq(Additions), loaded : BOOLEAN]
      BY <1>1 DEF TypeInv
    <3>3. e \in [mode : Modes, adds : Seq(Additions), loaded : BOOLEAN]
      BY <3>1, <3>2
    <3>4. heap' = [heap EXCEPT ![got[f]] = e]
      BY <1>0, <3>1
    <3>5. heap \in [DOMAIN heap -> [mode : Modes, adds : Seq(Additions), loaded : BOOLEAN]]
      BY DEF TypeInv
    <3>6. heap' \in [DOMAIN heap -> [mode : Modes, adds : Seq(Additions), loaded : BOOLEAN]]
      BY <1>1, <3>3, <3>4, <3>5
    <3> QED
      BY <1>2, <3>6 DEF TypeInv
  <2>2. pc' \in [Factory -> Places]
    BY <1>0 DEF TypeInv, Places
  <2>3. ReqInv'
    BY <1>0 DEF TypeInv, ReqInv
  <2> QED
    BY <1>0, <2>1, <2>2, <2>3 DEF TypeInv
<1>4. SlotInv' /\ FactoryInv'
  BY <1>0, <1>2 DEF SlotInv, FactoryInv, Custom, Made
<1>5. CallInv'
  BY <1>0, <1>1, <1>2 DEF CallInv, TypeInv, ReqInv, Custom, Making
<1>6. \A g \in Factory : Making(g)' <=> Making(g)
  BY <1>0 DEF Making, TypeInv
<1>7. ApartInv' /\ OwnedInv'
  BY <1>0, <1>2, <1>6 DEF ApartInv, OwnedInv, Custom, TypeInv
<1> QED
  BY <1>3, <1>4, <1>5, <1>7

\* The manager owns the table from now on.
LEMMA PublishInv ==
    ASSUME RegistryInv, NEW f \in Factory, Publish(f)
    PROVE  RegistryInv'
<1> USE DEF RegistryInv
<1> DEFINE mode == fac[f].mode
<1>0. /\ pc[f] = "publish" /\ pc' = [pc EXCEPT ![f] = "unlock"]
      /\ slot' = [slot EXCEPT ![mode] = got[f]]
      /\ UNCHANGED <<heap, lock, fac, req, got>>
  BY DEF Publish
<1>1. /\ lock = f /\ slot[mode] = Nothing /\ mode \in Modes /\ Made(got[f], mode)
      /\ heap[got[f]].adds = <<>> /\ got[f] # Nothing
  BY <1>0, RegistryAssumption DEF CallInv, Making, Made, TypeInv
<1>2. /\ slot'[mode] = got[f] /\ \A m \in Modes : slot[m] # Nothing => m # mode
      /\ \A m \in Modes \ {mode} : slot'[m] = slot[m]
  BY <1>0, <1>1 DEF TypeInv
<1>3. TypeInv'
  BY <1>0, <1>1 DEF TypeInv, ReqInv, Places
<1>4. SlotInv' /\ FactoryInv'
  BY <1>0, <1>1, <1>2 DEF SlotInv, FactoryInv, Custom, Made, TypeInv
<1>5. \A g \in Factory \ {f} : ~Making(g)
  BY <1>1 DEF CallInv, Making
<1>6. CallInv'
  BY <1>0, <1>1, <1>2, <1>5 DEF CallInv, TypeInv, ReqInv, Custom, Making
<1>7. ~Making(f)' /\ \A g \in Factory \ {f} : ~Making(g)'
  BY <1>0, <1>5 DEF Making, TypeInv
<1>8. ApartInv'
  BY <1>0, <1>2, <1>7 DEF ApartInv, Custom, Making
<1>9. OwnedInv'
  <2> SUFFICES ASSUME NEW a \in DOMAIN heap
               PROVE  \/ \E m \in Modes : slot'[m] = a
                      \/ \E g \in Factory : Custom(g) /\ fac[g].cfg = a
                      \/ \E g \in Factory : Making(g)' /\ got[g] = a
    BY <1>0 DEF OwnedInv, Custom
  <2>0. a # Nothing
    BY RegistryAssumption DEF TypeInv
  <2>1. CASE \E m \in Modes : slot[m] = a
    BY <1>2, <2>0, <2>1
  <2>2. CASE \E g \in Factory : Making(g) /\ got[g] = a
    BY <1>1, <1>2, <1>5, <2>2
  <2> QED
    BY <2>1, <2>2 DEF OwnedInv
<1> QED
  BY <1>3, <1>4, <1>6, <1>8, <1>9

\* Others may look again.
LEMMA UnlockManagerInv ==
    ASSUME RegistryInv, NEW f \in Factory, UnlockManager(f)
    PROVE  RegistryInv'
<1> USE DEF RegistryInv
<1>0. /\ pc[f] = "unlock" /\ pc' = [pc EXCEPT ![f] = "take"] /\ lock' = Nothing
      /\ UNCHANGED <<heap, slot, fac, req, got>>
  BY DEF UnlockManager
<1>1. \A g \in Factory \ {f} : pc[g] \notin {"fill", "publish", "unlock"}
  BY <1>0 DEF CallInv
<1>2. TypeInv'
  BY <1>0 DEF TypeInv, ReqInv, Places
<1>3. SlotInv' /\ FactoryInv'
  BY <1>0 DEF SlotInv, FactoryInv, Custom, Made
<1>4. CallInv'
  BY <1>0, <1>1 DEF CallInv, TypeInv, ReqInv, Custom, Making
<1>5. \A g \in Factory : Making(g)' <=> Making(g)
  BY <1>0 DEF Making, TypeInv
<1>6. ApartInv' /\ OwnedInv'
  BY <1>0, <1>5 DEF ApartInv, OwnedInv, Custom, TypeInv
<1> QED
  BY <1>2, <1>3, <1>4, <1>6

\* A factory shares the table, or owns the copy it took.
LEMMA TakeInv ==
    ASSUME RegistryInv, NEW f \in Factory, Take(f)
    PROVE  RegistryInv'
<1> USE DEF RegistryInv
<1>0. /\ pc[f] = "take" /\ pc' = [pc EXCEPT ![f] = "body"]
      /\ got' = [got EXCEPT ![f] = Nothing]
      /\ UNCHANGED <<slot, lock, req>> /\ HasRoom
  BY DEF Take
<1>1. /\ ~Custom(f) /\ got[f] # Nothing /\ got[f] = slot[fac[f].mode] /\ fac[f].mode \in Modes
      /\ IsRequest(req[f]) /\ Made(got[f], fac[f].mode) /\ heap[got[f]].adds = <<>>
  BY <1>0 DEF CallInv, TypeInv, SlotInv
<1>2. \A g \in Factory : (Making(g)' <=> Making(g)) /\ (Making(g) => got'[g] = got[g])
  BY <1>0 DEF Making, TypeInv
<1>3. CASE ~IsCustom(req[f])
  <2>1. /\ fac' = [fac EXCEPT ![f].cfg = got[f], ![f].state = "loaded"]
        /\ heap' = heap
    BY <1>3 DEF Take, Taken
  <2>2. TypeInv'
    <3>1. fac' \in [Factory -> [mode : Modes, state : {"notset", "loaded", "custom"},
                               cfg : Address \cup {Nothing}, schema : Schemas]]
      <4> DEFINE new == [fac[f] EXCEPT !.cfg = got[f], !.state = "loaded"]
      <4>1. new \in [mode : Modes, state : {"loaded"}, cfg : Address \cup {Nothing}, schema : Schemas]
        BY DEF TypeInv
      <4>2. fac' = [fac EXCEPT ![f] = new]
        BY <2>1 DEF TypeInv
      <4> QED
        BY <4>1, <4>2 DEF TypeInv
    <3>2. pc' \in [Factory -> Places] /\ got' \in [Factory -> Address \cup {Nothing}]
      BY <1>0 DEF TypeInv, Places
    <3> QED
      BY <1>0, <2>1, <3>1, <3>2 DEF TypeInv, ReqInv
  <2>3. /\ fac'[f].state = "loaded" /\ fac'[f].cfg = got[f] /\ fac'[f].mode = fac[f].mode
        /\ \A g \in Factory \ {f} : fac'[g] = fac[g]
    BY <2>1 DEF TypeInv
  <2>4. \A g \in Factory : Custom(g)' <=> Custom(g)
    BY <1>1, <2>3, SMTT(30) DEF Custom
  <2>5. SlotInv' /\ FactoryInv'
    <3>1. ASSUME NEW g \in Factory \ {f}
          PROVE  /\ fac'[g].state = "notset" => fac'[g].cfg = Nothing
                 /\ fac'[g].state = "loaded" => slot'[fac'[g].mode] # Nothing /\ fac'[g].cfg = slot'[fac'[g].mode]
                 /\ Custom(g)' => Made(fac[g].cfg, fac[g].mode)' /\ fac'[g] = fac[g]
      BY <1>0, <2>1, <2>3, ZenonT(60) DEF FactoryInv, Custom, Made
    <3>2. /\ fac'[f].state = "loaded" /\ ~Custom(f)'
          /\ slot'[fac'[f].mode] # Nothing /\ fac'[f].cfg = slot'[fac'[f].mode]
      BY <1>0, <1>1, <2>3 DEF Custom
    <3> QED
      BY <1>0, <2>1, <3>1, <3>2 DEF SlotInv, FactoryInv, Made
  <2>6. CallInv'
    BY <1>0, <1>1, <1>2, <1>3, <2>1, <2>3 DEF CallInv, TypeInv, ReqInv, Custom, Making, IsCustom
  <2>7. ApartInv' /\ OwnedInv'
    <3>1. \A g \in Factory : Custom(g) => fac'[g] = fac[g]
      BY <1>1, <2>3
    <3>2. ApartInv'
      BY <1>0, <1>2, <2>4, <3>1 DEF ApartInv
    <3>3. OwnedInv'
      <4>1. heap' = heap /\ slot' = slot
        BY <1>0, <2>1
      <4> QED
        BY <1>2, <2>4, <3>1, <4>1 DEF OwnedInv
    <3> QED
      BY <3>2, <3>3
  <2> QED
    BY <2>2, <2>5, <2>6, <2>7
<1>4. CASE IsCustom(req[f])
  <2> DEFINE a == FreeAddress
  <2>0. a \in Address /\ a \notin DOMAIN heap
    BY <1>0, RoomIsFree
  <2> HIDE DEF a
  <2>1. /\ fac' = [fac EXCEPT ![f].cfg = a, ![f].state = "custom"]
        /\ heap' = Allocated(a, heap[got[f]])
    BY <1>4 DEF Take, Taken, a
  <2>2. /\ DOMAIN heap' = DOMAIN heap \cup {a} /\ heap'[a] = heap[got[f]]
        /\ \A b \in DOMAIN heap : heap'[b] = heap[b] /\ b # a
    BY <2>0, <2>1 DEF Allocated
  <2>3. TypeInv'
    <3>1. heap' \in [DOMAIN heap' -> [mode : Modes, adds : Seq(Additions), loaded : BOOLEAN]]
      BY <1>1, <2>1, <2>2 DEF TypeInv, Allocated, Made
    <3>2. fac' \in [Factory -> [mode : Modes, state : {"notset", "loaded", "custom"},
                               cfg : Address \cup {Nothing}, schema : Schemas]]
      <4> DEFINE new == [fac[f] EXCEPT !.cfg = a, !.state = "custom"]
      <4>1. new \in [mode : Modes, state : {"custom"}, cfg : Address \cup {Nothing}, schema : Schemas]
        BY <2>0 DEF TypeInv
      <4>2. fac' = [fac EXCEPT ![f] = new]
        BY <2>1 DEF TypeInv
      <4> QED
        BY <4>1, <4>2 DEF TypeInv
    <3>3. pc' \in [Factory -> Places] /\ got' \in [Factory -> Address \cup {Nothing}]
      BY <1>0 DEF TypeInv, Places
    <3> QED
      BY <1>0, <2>0, <2>2, <3>1, <3>2, <3>3 DEF TypeInv, ReqInv
  <2>4. /\ fac'[f].state = "custom" /\ fac'[f].cfg = a /\ fac'[f].mode = fac[f].mode
        /\ \A g \in Factory \ {f} : fac'[g] = fac[g]
    BY <2>1 DEF TypeInv
  <2>5. SlotInv' /\ FactoryInv'
    BY <1>0, <1>1, <2>2, <2>4 DEF SlotInv, FactoryInv, Custom, Made
  <2>6. CallInv'
    BY <1>0, <1>1, <1>2, <2>2, <2>4 DEF CallInv, TypeInv, ReqInv, Custom, Making
  <2>7. /\ \A g \in Factory : (Custom(g) => fac[g].cfg # a) /\ (Making(g) => got[g] # a)
        /\ \A m \in Modes : slot[m] # a
    BY <2>0, RegistryAssumption DEF FactoryInv, CallInv, SlotInv, Made, TypeInv
  <2>8. ApartInv'
    BY <1>0, <1>2, <2>4, <2>7 DEF ApartInv, Custom
  <2>9. OwnedInv'
    BY <1>0, <1>1, <1>2, <2>2, <2>4 DEF OwnedInv, Custom
  <2> QED
    BY <2>3, <2>5, <2>6, <2>8, <2>9
<1> QED
  BY <1>3, <1>4

\* An addition goes to a copy, which nobody shares.
LEMMA AddEntryInv ==
    ASSUME RegistryInv, NEW f \in Factory, AddEntry(f)
    PROVE  RegistryInv'
<1> USE DEF RegistryInv
<1>0. /\ pc[f] = "body" /\ pc' = [pc EXCEPT ![f] = "idle"] /\ req[f].kind = "add"
      /\ heap' = [heap EXCEPT ![fac[f].cfg].adds = Append(@, req[f].add)]
      /\ req' = [req EXCEPT ![f] = NoCall] /\ UNCHANGED <<slot, lock, fac, got>>
  BY DEF AddEntry
<1>1. Custom(f) /\ fac[f].cfg \in DOMAIN heap /\ req[f].add \in Additions
  <2>1. IsRequest(req[f]) /\ Custom(f)
    BY <1>0 DEF CallInv
  <2>2. ASSUME NEW q, req[f] = [kind |-> "ask", q |-> q] PROVE FALSE
    BY <1>0, <2>2
  <2>3. PICK add \in Additions : req[f] = [kind |-> "add", add |-> add]
    BY <2>1, <2>2 DEF IsRequest
  <2> QED
    BY <2>1, <2>3 DEF FactoryInv, Made
<1>2. /\ DOMAIN heap' = DOMAIN heap
      /\ \A b \in DOMAIN heap : heap'[b].mode = heap[b].mode /\ heap'[b].loaded = heap[b].loaded
      /\ \A b \in DOMAIN heap \ {fac[f].cfg} : heap'[b] = heap[b]
  BY <1>0, <1>1 DEF TypeInv
<1>3. TypeInv'
  <2>1. Append(heap[fac[f].cfg].adds, req[f].add) \in Seq(Additions)
    BY <1>1 DEF TypeInv
  <2>2. heap' \in [DOMAIN heap' -> [mode : Modes, adds : Seq(Additions), loaded : BOOLEAN]]
    BY <1>0, <1>1, <2>1 DEF TypeInv
  <2>3. pc' \in [Factory -> Places] /\ req' \in [Factory -> {req'[g] : g \in Factory}]
    BY <1>0 DEF TypeInv, ReqInv, Places
  <2> QED
    BY <1>0, <1>2, <2>2, <2>3 DEF TypeInv, ReqInv
<1>4. \A g \in Factory : Making(g)' <=> Making(g)
  BY <1>0 DEF Making, TypeInv
<1>5. SlotInv' /\ FactoryInv'
  BY <1>0, <1>1, <1>2 DEF SlotInv, FactoryInv, Custom, Made, ApartInv
<1>6. CallInv'
  BY <1>0, <1>1, <1>2, <1>4 DEF CallInv, TypeInv, ReqInv, Custom, Making, ApartInv
<1>7. ApartInv' /\ OwnedInv'
  BY <1>0, <1>2, <1>4 DEF ApartInv, OwnedInv, Custom
<1> QED
  BY <1>3, <1>5, <1>6, <1>7

\* A lookup changes no table.
LEMMA LookupInv ==
    ASSUME RegistryInv, NEW f \in Factory, Lookup(f)
    PROVE  RegistryInv'
<1> USE DEF RegistryInv
<1>0. /\ pc[f] = "body" /\ pc' = [pc EXCEPT ![f] = "idle"]
      /\ req' = [req EXCEPT ![f] = NoCall] /\ UNCHANGED <<heap, slot, lock, fac, got>>
  BY DEF Lookup, sharedVars
<1>1. TypeInv'
  BY <1>0 DEF TypeInv, ReqInv, Places
<1>2. SlotInv' /\ FactoryInv'
  BY <1>0 DEF SlotInv, FactoryInv, Custom, Made
<1>3. CallInv'
  BY <1>0 DEF CallInv, TypeInv, ReqInv, Custom, Making
<1>4. \A g \in Factory : Making(g)' <=> Making(g)
  BY <1>0 DEF Making, TypeInv
<1>5. ApartInv' /\ OwnedInv'
  BY <1>0, <1>4, ZenonT(60) DEF ApartInv, OwnedInv, Custom, TypeInv
<1> QED
  BY <1>1, <1>2, <1>3, <1>5

\* SetConfig and the end of a factory: one without a copy of its own leaves the heap as it was.
LEMMA ReleasedInv ==
    ASSUME RegistryInv, NEW f \in Factory, NEW new, pc[f] = "idle",
           new \in [mode : Modes, state : {"notset"}, cfg : {Nothing}, schema : Schemas],
           fac' = [fac EXCEPT ![f] = new], heap' = Cleared(f),
           UNCHANGED <<slot, lock, pc, req, got>>
    PROVE  RegistryInv'
<1> USE DEF RegistryInv
<1>1. /\ fac'[f] = new /\ \A g \in Factory \ {f} : fac'[g] = fac[g]
  BY DEF TypeInv
<1>2. /\ DOMAIN heap' = IF Custom(f) THEN DOMAIN heap \ {fac[f].cfg} ELSE DOMAIN heap
      /\ \A b \in DOMAIN heap' : heap'[b] = heap[b]
  BY DEF Cleared, Without, Custom
<1>3. TypeInv'
  <2>1. heap' \in [DOMAIN heap' -> [mode : Modes, adds : Seq(Additions), loaded : BOOLEAN]]
    BY <1>2 DEF Cleared, Without, TypeInv
  <2> QED
    BY <1>2, <2>1 DEF TypeInv, ReqInv
<1>4. ~Custom(f)' /\ \A g \in Factory \ {f} : Custom(g)' <=> Custom(g)
  BY <1>1 DEF Custom
<1>5. SlotInv'
  BY <1>2 DEF SlotInv, Made, ApartInv
<1>6. FactoryInv'
  BY <1>1, <1>2, <1>4 DEF FactoryInv, Made, ApartInv, Custom
<1>7. CallInv'
  BY <1>1, <1>2, <1>4 DEF CallInv, ApartInv, Making
<1>8. ApartInv'
  BY <1>1, <1>4 DEF ApartInv, Making
<1>9. OwnedInv'
  BY <1>1, <1>2, <1>4 DEF OwnedInv, Making
<1> QED
  BY <1>3, <1>5, <1>6, <1>7, <1>8, <1>9

\* A factory that changes its mode gives its copy up.
LEMMA SetConfigInv ==
    ASSUME RegistryInv, NEW f \in Factory, NEW mode \in UsedModes, SetConfig(f, mode)
    PROVE  RegistryInv'
<1> USE DEF RegistryInv
<1> DEFINE clears == fac[f].state = "custom" \/ (fac[f].state = "loaded" /\ mode # fac[f].mode)
<1>0. /\ pc[f] = "idle" /\ UNCHANGED <<slot, lock, pc, req, got>> /\ mode \in Modes
      /\ heap' = IF clears THEN Cleared(f) ELSE heap
      /\ fac' = [fac EXCEPT ![f].mode = mode,
                            ![f].state = IF clears THEN "notset" ELSE @,
                            ![f].cfg = IF clears THEN Nothing ELSE @]
  BY RegistryAssumption DEF SetConfig, callVars
<1>1. CASE clears \/ fac[f].state = "notset"
  <2> DEFINE new == [fac[f] EXCEPT !.mode = mode, !.state = "notset", !.cfg = Nothing]
  <2>1. new \in [mode : Modes, state : {"notset"}, cfg : {Nothing}, schema : Schemas]
    BY <1>0 DEF TypeInv
  <2>2. fac' = [fac EXCEPT ![f] = new]
    BY <1>0, <1>1 DEF TypeInv, FactoryInv
  <2>3. heap' = Cleared(f)
    BY <1>0, <1>1 DEF Cleared
  <2> QED
    BY <1>0, <2>1, <2>2, <2>3, ReleasedInv
<1>2. CASE fac[f].state = "loaded" /\ mode = fac[f].mode
  <2>1. fac' = fac /\ heap' = heap
    BY <1>0, <1>2 DEF TypeInv
  <2> QED
    BY <1>0, <2>1, RegistryUnchanged DEF sharedVars, callVars
<1> QED
  BY <1>1, <1>2 DEF TypeInv

\* The schema is the factory's own.
LEMMA PutSchemaInv ==
    ASSUME RegistryInv, NEW f \in Factory, NEW uri \in Schemas, PutSchema(f, uri)
    PROVE  RegistryInv'
<1> USE DEF RegistryInv
<1>0. /\ fac' = [fac EXCEPT ![f].schema = uri] /\ UNCHANGED <<heap, slot, lock, pc, req, got>>
  BY DEF PutSchema, sharedVars, callVars
<1>1. \A g \in Factory : fac'[g].mode = fac[g].mode /\ fac'[g].state = fac[g].state /\ fac'[g].cfg = fac[g].cfg
  BY <1>0 DEF TypeInv
<1>2. TypeInv'
  BY <1>0, ZenonT(60) DEF TypeInv, ReqInv
<1>3. SlotInv' /\ FactoryInv' /\ CallInv'
  BY <1>0, <1>1 DEF SlotInv, FactoryInv, CallInv, Custom, Making, Made
<1>4. ApartInv' /\ OwnedInv'
  BY <1>0, <1>1 DEF ApartInv, OwnedInv, Custom, Making
<1> QED
  BY <1>2, <1>3, <1>4

\* A factory that ends frees its copy.
LEMMA ReplaceInv ==
    ASSUME RegistryInv, NEW f \in Factory, Replace(f)
    PROVE  RegistryInv'
<1>1. NewFactory \in [mode : Modes, state : {"notset"}, cfg : {Nothing}, schema : Schemas]
  BY DEF NewFactory, Modes, Schemas
<1> QED
  BY <1>1, ReleasedInv DEF Replace, callVars

\* The invariant, step by step.
LEMMA RegistryInvStep ==
    ASSUME RegistryInv, [RegistryNext]_registryVars
    PROVE  RegistryInv'
<1>1. ASSUME NEW f \in Factory, NEW q, IsQuestion(q), Start(f, [kind |-> "ask", q |-> q])
      PROVE  RegistryInv'
  BY <1>1, StartInv DEF IsRequest
<1>2. ASSUME NEW f \in Factory, NEW add \in Additions, Start(f, [kind |-> "add", add |-> add])
      PROVE  RegistryInv'
  BY <1>2, StartInv DEF IsRequest
<1>3. ASSUME NEW f \in Factory, Work(f) PROVE RegistryInv'
  BY <1>3, LockManagerInv, FillInv, PublishInv, UnlockManagerInv, TakeInv, AddEntryInv, LookupInv DEF Work
<1>4. ASSUME NEW f \in Factory,
             (\E by \in {"null", "ns"} : FetchClass(f, by)) \/ (\E k \in DOMAIN held[f] : Return(f, k))
               \/ Drop(f) \/ ClearPool(f)
      PROVE  RegistryInv'
  BY <1>4, RegistryUnchanged DEF FetchClass, Return, Drop, ClearPool
<1>5. ASSUME NEW f \in Factory, NEW mode \in UsedModes, SetConfig(f, mode) PROVE RegistryInv'
  BY <1>5, SetConfigInv
<1>6. ASSUME NEW f \in Factory, NEW uri \in {"xsd99", "xsd01"}, PutSchema(f, uri) PROVE RegistryInv'
  BY <1>6, PutSchemaInv DEF Schemas
<1>7. ASSUME NEW f \in Factory, Replace(f) PROVE RegistryInv'
  BY <1>7, ReplaceInv
<1>8. CASE UNCHANGED registryVars
  BY <1>8, RegistryUnchanged DEF registryVars, sharedVars, callVars
<1> QED
  BY <1>1, <1>2, <1>3, <1>4, <1>5, <1>6, <1>7, <1>8 DEF RegistryNext

\* It holds always.
LEMMA RegistryInvariant == RegistrySpec => []RegistryInv
BY RegistryInvInit, RegistryInvStep, PTL DEF RegistrySpec
-----------------------------------------------------------------------------
(* The pools.                                                              *)

PoolInv ==
    /\ held \in [Factory -> {held[f] : f \in Factory}]
    /\ ready \in [Factory -> {ready[f] : f \in Factory}]
    /\ active \in [Factory -> {active[f] : f \in Factory}]
    /\ \A f \in Factory :
          /\ held[f] \in Seq(ToSet(held[f])) /\ IsInjective(held[f])
          /\ IsFiniteSet(ready[f]) /\ IsFiniteSet(active[f])
          /\ ToSet(held[f]) \cap ready[f] = {}

\* A sequence is one over its own elements, and they are finitely many.
LEMMA SeqOfItsElements ==
    ASSUME NEW S, NEW s \in Seq(S)
    PROVE  s \in Seq(ToSet(s)) /\ IsFiniteSet(ToSet(s))
<1>1. s \in Seq(ToSet(s))
  BY DEF ToSet
<1>2. IsFiniteSet(1..Len(s))
  BY FS_Interval
<1>3. IsFiniteSet(ToSet(s))
  <2>1. ToSet(s) = {s[i] : i \in 1..Len(s)}
    BY DEF ToSet
  <2>2. [i \in 1..Len(s) |-> s[i]] \in Surjection(1..Len(s), ToSet(s))
    BY <2>1 DEF Surjection
  <2> QED
    BY <1>2, <2>2, FS_Surjection
<1> QED
  BY <1>1, <1>3

\* A new element keeps a sequence without repetition.
LEMMA AppendNew ==
    ASSUME NEW S, NEW s \in Seq(S), IsInjective(s), NEW x, x \notin ToSet(s)
    PROVE  /\ IsInjective(Append(s, x))
           /\ ToSet(Append(s, x)) = ToSet(s) \cup {x}
           /\ Append(s, x) \in Seq(S \cup {x})
<1>1. Append(s, x) \in Seq(S \cup {x}) /\ Len(Append(s, x)) = Len(s) + 1
  OBVIOUS
<1>2. /\ DOMAIN s = 1..Len(s) /\ DOMAIN Append(s, x) = 1..Len(s) + 1
      /\ \A i \in 1..Len(s) : Append(s, x)[i] = s[i]
      /\ Append(s, x)[Len(s) + 1] = x
  OBVIOUS
<1>3. IsInjective(Append(s, x))
  BY <1>2 DEF IsInjective, ToSet
<1>4. ToSet(Append(s, x)) = ToSet(s) \cup {x}
  BY <1>2 DEF ToSet
<1> QED
  BY <1>1, <1>3, <1>4

\* So does taking one out, and it is gone then.
LEMMA RemoveOne ==
    ASSUME NEW S, NEW s \in Seq(S), IsInjective(s), NEW k \in DOMAIN s
    PROVE  /\ IsInjective(RemoveAt(s, k))
           /\ ToSet(RemoveAt(s, k)) \subseteq ToSet(s) \ {s[k]}
           /\ RemoveAt(s, k) \in Seq(S)
<1> DEFINE r == RemoveAt(s, k)
           Old(i) == IF i < k THEN i ELSE i + 1
<1>1. DOMAIN s = 1..Len(s) /\ Len(s) \in Nat /\ k \in 1..Len(s)
  OBVIOUS
<1>2. r \in Seq(S) /\ DOMAIN r = 1..Len(s) - 1
  BY <1>1 DEF RemoveAt
<1>3. \A i \in DOMAIN r : r[i] = s[Old(i)]
  <2> DEFINE front == SubSeq(s, 1, k - 1)
             back  == SubSeq(s, k + 1, Len(s))
  <2>1. /\ front \in Seq(S) /\ Len(front) = k - 1 /\ \A i \in 1..k - 1 : front[i] = s[i]
        /\ back \in Seq(S) /\ Len(back) = Len(s) - k /\ \A i \in 1..Len(s) - k : back[i] = s[k + i]
    BY <1>1, SMTT(30)
  <2>2. r = front \o back
    BY DEF RemoveAt
  <2> HIDE DEF front, back, r
  <2>3. \A i \in 1..Len(s) - 1 : r[i] = IF i <= k - 1 THEN front[i] ELSE back[i - (k - 1)]
    BY <1>1, <2>1, <2>2, SMTT(30)
  <2> SUFFICES ASSUME NEW i \in 1..Len(s) - 1 PROVE r[i] = s[Old(i)]
    BY <1>2
  <2>4. CASE i < k
    BY <1>1, <2>1, <2>3, <2>4
  <2>5. CASE i >= k
    <3>1. i - (k - 1) \in 1..Len(s) - k /\ k + (i - (k - 1)) = i + 1 /\ ~(i <= k - 1)
      BY <1>1, <2>5
    <3> QED
      BY <1>1, <2>1, <2>3, <2>5, <3>1, SMTT(30)
  <2> QED
    BY <1>1, <2>4, <2>5
<1>4. \A i \in DOMAIN r : Old(i) \in DOMAIN s /\ Old(i) # k
  BY <1>1, <1>2
<1>5. \A i, j \in DOMAIN r : Old(i) = Old(j) => i = j
  BY <1>1, <1>2
<1> HIDE DEF r, Old
<1>6. IsInjective(r)
  BY <1>3, <1>4, <1>5 DEF IsInjective
<1>7. ToSet(r) \subseteq ToSet(s) \ {s[k]}
  BY <1>3, <1>4 DEF IsInjective, ToSet
<1> QED
  BY <1>2, <1>6, <1>7 DEF r

\* There is a number for a new instance of a class.
LEMMA NewInstanceIsNew ==
    ASSUME PoolInv, NEW f \in Factory, NEW by
    PROVE  NewInstance(f, by) \notin ready[f] \cup active[f] \cup ToSet(held[f])
<1> DEFINE all == ready[f] \cup active[f] \cup ToSet(held[f])
           known == {i \in all : i.by = by}
           m == Cardinality(known) + 1
           I(n) == [by |-> by, n |-> n]
<1>1. IsFiniteSet(ToSet(held[f]))
  BY SeqOfItsElements DEF PoolInv
<1>2. IsFiniteSet(all)
  BY <1>1, FS_Union DEF PoolInv
<1>3. IsFiniteSet(known) /\ Cardinality(known) \in Nat
  BY <1>2, FS_Subset, FS_CardinalityType
<1>4. \E n \in 1..m : I(n) \notin known
  <2>1. SUFFICES ASSUME \A n \in 1..m : I(n) \in known PROVE FALSE
    OBVIOUS
  <2>2. IsFiniteSet(1..m) /\ Cardinality(1..m) = m
    BY <1>3, FS_Interval
  <2>3. [n \in 1..m |-> I(n)] \in [1..m -> known]
    BY <2>1
  <2>4. \A a, b \in 1..m : I(a) = I(b) => a = b
    BY Z3
  <2>5. [n \in 1..m |-> I(n)] \in Injection(1..m, known)
    BY <2>3, <2>4 DEF Injection, IsInjective
  <2> HIDE DEF known, I
  <2> QED
    BY <1>3, <2>2, <2>5, FS_Injection
<1>5. NewInstance(f, by) \notin known /\ NewInstance(f, by).by = by
  BY <1>4 DEF NewInstance
<1> QED
  BY <1>5

\* Pools begin empty.
LEMMA PoolInvInit == RegistryInit => PoolInv
<1> SUFFICES ASSUME RegistryInit PROVE PoolInv
  OBVIOUS
<1>1. ToSet(<<>>) = {} /\ IsInjective(<<>>) /\ <<>> \in Seq({})
  BY DEF ToSet, IsInjective
<1> QED
  BY <1>1, FS_EmptySet DEF RegistryInit, PoolInv

\* One that was ready, or a new one, is with nobody.
LEMMA FetchPool ==
    ASSUME PoolInv, NEW f \in Factory, NEW by, Fetch(f, by)
    PROVE  PoolInv'
<1> DEFINE found == {i \in ready[f] : i.by = by}
           x == IF found = {} THEN NewInstance(f, by) ELSE CHOOSE y \in found : TRUE
<1>1. x \notin ToSet(held[f])
  BY NewInstanceIsNew DEF PoolInv
<1> HIDE DEF x
<1>2. /\ ready' = [ready EXCEPT ![f] = @ \ {x}]
      /\ active' = [active EXCEPT ![f] = @ \cup {x}]
      /\ held' = [held EXCEPT ![f] = Append(@, x)]
  BY DEF Fetch, x
<1>3. /\ IsInjective(Append(held[f], x))
      /\ ToSet(Append(held[f], x)) = ToSet(held[f]) \cup {x}
      /\ Append(held[f], x) \in Seq(ToSet(Append(held[f], x)))
  <2>1. held[f] \in Seq(ToSet(held[f])) /\ IsInjective(held[f])
    BY DEF PoolInv
  <2>2. /\ IsInjective(Append(held[f], x))
        /\ ToSet(Append(held[f], x)) = ToSet(held[f]) \cup {x}
        /\ Append(held[f], x) \in Seq(ToSet(held[f]) \cup {x})
    BY <1>1, <2>1, AppendNew
  <2> QED
    BY <2>2
<1>4. IsFiniteSet(ready[f] \ {x}) /\ IsFiniteSet(active[f] \cup {x})
  BY FS_RemoveElement, FS_AddElement DEF PoolInv
<1>5. /\ ready'[f] = ready[f] \ {x} /\ active'[f] = active[f] \cup {x} /\ held'[f] = Append(held[f], x)
      /\ \A g \in Factory \ {f} : ready'[g] = ready[g] /\ active'[g] = active[g] /\ held'[g] = held[g]
      /\ ready' \in [Factory -> {ready'[g] : g \in Factory}]
      /\ active' \in [Factory -> {active'[g] : g \in Factory}]
      /\ held' \in [Factory -> {held'[g] : g \in Factory}]
  BY <1>2 DEF PoolInv
<1> QED
  BY <1>3, <1>4, <1>5 DEF PoolInv

\* One that is returned leaves its caller.
LEMMA ReturnPool ==
    ASSUME PoolInv, NEW f \in Factory, NEW k \in DOMAIN held[f], Return(f, k)
    PROVE  PoolInv'
<1> DEFINE x == held[f][k]
<1>1. /\ IsInjective(RemoveAt(held[f], k))
      /\ ToSet(RemoveAt(held[f], k)) \subseteq ToSet(held[f]) \ {x}
      /\ RemoveAt(held[f], k) \in Seq(ToSet(RemoveAt(held[f], k)))
  BY RemoveOne, SeqOfItsElements DEF PoolInv
<1>2. held' = [held EXCEPT ![f] = RemoveAt(@, k)]
  BY DEF Return
<1>3. CASE x \in active[f]
  <2>1. /\ active' = [active EXCEPT ![f] = @ \ {x}]
        /\ ready' = [ready EXCEPT ![f] = @ \cup {x}]
    BY <1>3 DEF Return
  <2>2. IsFiniteSet(active[f] \ {x}) /\ IsFiniteSet(ready[f] \cup {x})
    BY FS_RemoveElement, FS_AddElement DEF PoolInv
  <2>3. /\ ready'[f] = ready[f] \cup {x} /\ active'[f] = active[f] \ {x} /\ held'[f] = RemoveAt(held[f], k)
        /\ \A g \in Factory \ {f} : ready'[g] = ready[g] /\ active'[g] = active[g] /\ held'[g] = held[g]
        /\ ready' \in [Factory -> {ready'[g] : g \in Factory}]
        /\ active' \in [Factory -> {active'[g] : g \in Factory}]
        /\ held' \in [Factory -> {held'[g] : g \in Factory}]
    BY <1>2, <2>1 DEF PoolInv
  <2> QED
    BY <1>1, <2>2, <2>3 DEF PoolInv
<1>4. CASE x \notin active[f]
  <2>1. UNCHANGED <<active, ready>>
    BY <1>4 DEF Return
  <2>2. /\ held'[f] = RemoveAt(held[f], k) /\ \A g \in Factory \ {f} : held'[g] = held[g]
        /\ held' \in [Factory -> {held'[g] : g \in Factory}]
    BY <1>2 DEF PoolInv
  <2> QED
    BY <1>1, <2>1, <2>2 DEF PoolInv
<1> QED
  BY <1>3, <1>4

\* What leaves a pool, or a caller, empty.
LEMMA EmptiedPool ==
    ASSUME PoolInv, NEW f \in Factory,
           held' \in {held, [held EXCEPT ![f] = <<>>]},
           \/ UNCHANGED <<ready, active>>
           \/ ready' = [ready EXCEPT ![f] = {}] /\ active' = [active EXCEPT ![f] = {}]
    PROVE  PoolInv'
<1>1. ToSet(<<>>) = {} /\ IsInjective(<<>>) /\ <<>> \in Seq({}) /\ IsFiniteSet({})
  BY FS_EmptySet DEF ToSet, IsInjective
<1>2. /\ held'[f] \in {held[f], <<>>}
      /\ \/ ready'[f] = ready[f] /\ active'[f] = active[f]
         \/ ready'[f] = {} /\ active'[f] = {}
      /\ \A g \in Factory \ {f} : ready'[g] = ready[g] /\ active'[g] = active[g] /\ held'[g] = held[g]
  BY DEF PoolInv
<1>3. /\ held' \in [Factory -> {held'[g] : g \in Factory}]
      /\ ready' \in [Factory -> {ready'[g] : g \in Factory}]
      /\ active' \in [Factory -> {active'[g] : g \in Factory}]
  BY DEF PoolInv
<1> QED
  BY <1>1, <1>2, <1>3 DEF PoolInv

\* Most calls leave the pools alone.
LEMMA PoolUnchanged == ASSUME PoolInv, UNCHANGED poolVars PROVE PoolInv'
BY DEF PoolInv, poolVars

\* The pools, step by step.
LEMMA PoolInvStep ==
    ASSUME PoolInv, [RegistryNext]_registryVars
    PROVE  PoolInv'
<1>1. ASSUME NEW f \in Factory, NEW r, Start(f, r) PROVE PoolInv'
  BY <1>1, PoolUnchanged DEF Start
<1>2. ASSUME NEW f \in Factory, Work(f) PROVE PoolInv'
  <2>1. CASE Lookup(f)
    BY <2>1, PoolUnchanged, FetchPool DEF Lookup
  <2>2. CASE LockManager(f) \/ Fill(f) \/ Publish(f) \/ UnlockManager(f) \/ Take(f) \/ AddEntry(f)
    BY <2>2, PoolUnchanged DEF LockManager, Fill, Publish, UnlockManager, Take, AddEntry
  <2> QED
    BY <1>2, <2>1, <2>2 DEF Work
<1>3. ASSUME NEW f \in Factory, NEW by, FetchClass(f, by) PROVE PoolInv'
  BY <1>3, FetchPool DEF FetchClass
<1>4. ASSUME NEW f \in Factory, NEW k \in DOMAIN held[f], Return(f, k) PROVE PoolInv'
  BY <1>4, ReturnPool
<1>5. ASSUME NEW f \in Factory, Drop(f) \/ ClearPool(f) \/ Replace(f) PROVE PoolInv'
  BY <1>5, EmptiedPool DEF Drop, ClearPool, Replace
<1>6. ASSUME NEW f \in Factory, NEW mode, SetConfig(f, mode) PROVE PoolInv'
  BY <1>6, PoolUnchanged DEF SetConfig
<1>7. ASSUME NEW f \in Factory, NEW uri, PutSchema(f, uri) PROVE PoolInv'
  BY <1>7, PoolUnchanged DEF PutSchema
<1>8. CASE UNCHANGED registryVars
  BY <1>8, PoolUnchanged DEF registryVars, poolVars
<1> QED
  BY <1>1, <1>2, <1>3, <1>4, <1>5, <1>6, <1>7, <1>8 DEF RegistryNext

\* That is what the runs check.
LEMMA PoolInstances == PoolInv => InstancesOwned
BY DEF PoolInv, InstancesOwned

\* Whatever the factories ask, add, return or drop, and however their threads interleave,
\* a configuration is freed once and used by nobody after, and a pooled (de)serializer is
\* with one caller.
THEOREM OneOwnerEach == RegistrySpec => []OneOwner
<1>1. RegistryInit => RegistryInv /\ PoolInv
  BY RegistryInvInit, PoolInvInit
<1>2. RegistryInv /\ PoolInv /\ [RegistryNext]_registryVars => RegistryInv' /\ PoolInv'
  BY RegistryInvStep, PoolInvStep
<1>3. RegistryInv /\ PoolInv => OneOwner
  BY InvOwned, PoolInstances DEF OneOwner
<1> QED
  BY <1>1, <1>2, <1>3, PTL DEF RegistrySpec
-----------------------------------------------------------------------------
(* The factories that share tables implement factories with tables of      *)
(* their own.  Own and Asked are what PrivateRegistry's variables stand for. *)

Own(f) == [mode |-> fac[f].mode, schema |-> fac[f].schema,
           adds |-> IF fac[f].state = "custom" THEN heap[fac[f].cfg].adds ELSE <<>>]
Asked(f) == IF req[f].kind = "ask" THEN req[f].q ELSE NoAnswer
owns == [f \in Factory |-> Own(f)]
askeds == [f \in Factory |-> Asked(f)]

\* A step that changes none of these is a stutter.
LEMMA SameVars ==
    ASSUME owns' = owns, askeds' = askeds, said' = said
    PROVE  UNCHANGED P!vars
BY DEF P!vars, owns, askeds, Own, Asked

\* A new factory's tables are its own.
LEMMA RefinementInit == RegistryInit => P!Init
BY DEF RegistryInit, P!Init, P!Fresh, NewFactory, NoCall, NoAnswer, P!NoAnswer

\* A question is asked when its call begins.
LEMMA StartRefines ==
    ASSUME RegistryInv, NEW f \in Factory, NEW r, IsRequest(r), Start(f, r)
    PROVE  P!Next \/ UNCHANGED P!vars
<1>1. /\ pc[f] = "idle" /\ req' = [req EXCEPT ![f] = r] /\ UNCHANGED <<heap, fac, said>>
  BY DEF Start, sharedVars
<1>2. req[f].kind = "none" /\ req \in [Factory -> {req[g] : g \in Factory}]
  BY <1>1 DEF RegistryInv, CallInv, TypeInv, ReqInv, NoCall
<1>3. owns' = owns /\ said' = said
  BY <1>1 DEF owns, Own
<1>4. ASSUME NEW q, IsQuestion(q), r = [kind |-> "ask", q |-> q] PROVE P!Next
  <2>1. r.kind = "ask" /\ r.q = q
    BY <1>4
  <2>2. Asked(f) = NoAnswer /\ askeds' = [askeds EXCEPT ![f] = q]
    BY <1>1, <1>2, <2>1 DEF askeds, Asked
  <2>3. askeds'[f] = q
    BY <2>2 DEF askeds
  <2>4. P!Ask(f)
    BY <1>3, <1>4, <2>2, <2>3 DEF P!Ask, P!IsQuestion, IsQuestion, P!NoAnswer, NoAnswer, owns, askeds, Own, Asked
  <2> QED
    BY <2>4 DEF P!Next
<1>5. ASSUME NEW add \in Additions, r = [kind |-> "add", add |-> add] PROVE UNCHANGED P!vars
  <2>1. askeds' = askeds
    BY <1>1, <1>2, <1>5 DEF askeds, Asked
  <2> QED
    BY <1>3, <2>1, SameVars
<1> QED
  BY <1>4, <1>5 DEF IsRequest

\* The manager's steps, and a factory's copy, change nobody's tables.
LEMMA FirstUseRefines ==
    ASSUME RegistryInv, NEW f \in Factory,
           LockManager(f) \/ Fill(f) \/ Publish(f) \/ UnlockManager(f) \/ Take(f)
    PROVE  UNCHANGED P!vars
<1>0. UNCHANGED <<req, said>>
  BY DEF LockManager, Fill, Publish, UnlockManager, Take
<1>1. askeds' = askeds
  BY <1>0 DEF askeds, Asked
<1>2. ASSUME fac' = fac, \A b \in DOMAIN heap : heap'[b].adds = heap[b].adds
      PROVE  owns' = owns
  <2> SUFFICES ASSUME NEW g \in Factory PROVE Own(g)' = Own(g)
    BY DEF owns
  <2>1. CASE Custom(g)
    <3>1. fac[g].cfg \in DOMAIN heap
      BY <2>1 DEF RegistryInv, FactoryInv, Made
    <3> QED
      BY <1>2, <3>1 DEF Own
  <2>2. CASE ~Custom(g)
    BY <1>2, <2>2 DEF Own, Custom
  <2> QED
    BY <2>1, <2>2
<1>3. CASE LockManager(f)
  <2>1. heap' = heap \/ heap' = Allocated(FreeAddress, [mode |-> fac[f].mode, adds |-> <<>>, loaded |-> FALSE])
    BY <1>3 DEF LockManager
  <2>2. \A b \in DOMAIN heap : b # FreeAddress
    BY <1>3, RoomIsFree DEF LockManager
  <2>3. \A b \in DOMAIN heap : heap'[b].adds = heap[b].adds
    BY <2>1, <2>2 DEF Allocated
  <2> QED
    BY <1>0, <1>1, <1>2, <1>3, <2>3, SameVars DEF LockManager
<1>4. CASE Fill(f)
  <2>1. \A b \in DOMAIN heap : heap'[b].adds = heap[b].adds
    BY <1>4 DEF Fill, RegistryInv, TypeInv
  <2> QED
    BY <1>0, <1>1, <1>2, <1>4, <2>1, SameVars DEF Fill
<1>5. CASE Publish(f) \/ UnlockManager(f)
  <2>1. fac' = fac /\ heap' = heap
    BY <1>5 DEF Publish, UnlockManager
  <2> QED
    BY <1>0, <1>1, <1>2, <2>1, SameVars
<1>6. CASE Take(f)
  <2>1. /\ ~Custom(f) /\ got[f] = slot[fac[f].mode] /\ got[f] # Nothing /\ fac[f].mode \in Modes
        /\ HasRoom /\ IsRequest(req[f])
    BY <1>6 DEF Take, RegistryInv, CallInv, TypeInv
  <2>2. got[f] \in DOMAIN heap /\ heap[got[f]].adds = <<>>
    BY <2>1 DEF RegistryInv, SlotInv, Made
  <2>3. FreeAddress \notin DOMAIN heap
    BY <2>1, RoomIsFree
  <2>4. /\ \A g \in Factory \ {f} : fac'[g] = fac[g]
        /\ fac'[f].mode = fac[f].mode /\ fac'[f].schema = fac[f].schema
        /\ IF IsCustom(req[f]) THEN Custom(f)' /\ fac'[f].cfg = FreeAddress ELSE ~Custom(f)'
    BY <1>6 DEF Take, Taken, Custom, RegistryInv, TypeInv
  <2>5. /\ \A b \in DOMAIN heap : heap'[b] = heap[b]
        /\ IsCustom(req[f]) => heap'[FreeAddress] = heap[got[f]]
    BY <1>6, <2>3 DEF Take, Taken, Allocated
  <2>6. Own(f)' = Own(f)
    BY <2>1, <2>2, <2>4, <2>5 DEF Own, Custom
  <2>7. ASSUME NEW g \in Factory \ {f} PROVE Own(g)' = Own(g)
    <3>1. Custom(g) => fac[g].cfg \in DOMAIN heap
      BY DEF RegistryInv, FactoryInv, Made
    <3> QED
      BY <2>4, <2>5, <3>1 DEF Own, Custom
  <2>8. owns' = owns
    BY <2>6, <2>7 DEF owns
  <2> QED
    BY <1>0, <1>1, <2>8, SameVars
<1> QED
  BY <1>3, <1>4, <1>5, <1>6

\* An addition goes to one factory's own tables.
LEMMA AddEntryRefines ==
    ASSUME RegistryInv, NEW f \in Factory, AddEntry(f)
    PROVE  P!Next
<1>0. /\ pc[f] = "body" /\ req[f].kind = "add" /\ UNCHANGED <<fac, said>>
      /\ heap' = [heap EXCEPT ![fac[f].cfg].adds = Append(@, req[f].add)]
      /\ req' = [req EXCEPT ![f] = NoCall]
  BY DEF AddEntry
<1>1. /\ Custom(f) /\ fac[f].cfg \in DOMAIN heap /\ IsRequest(req[f])
      /\ req \in [Factory -> {req[g] : g \in Factory}]
  BY <1>0 DEF RegistryInv, CallInv, FactoryInv, Made, TypeInv, ReqInv
<1>2. PICK add \in Additions : req[f].add = add
  BY <1>0, <1>1 DEF IsRequest
<1>3. askeds' = askeds
  BY <1>0, <1>1 DEF askeds, Asked, NoCall
<1>4. /\ heap'[fac[f].cfg].adds = Append(heap[fac[f].cfg].adds, add)
      /\ \A b \in DOMAIN heap \ {fac[f].cfg} : heap'[b] = heap[b]
  BY <1>0, <1>1, <1>2 DEF RegistryInv, TypeInv
<1>5. Own(f)' = [Own(f) EXCEPT !.adds = Append(@, add)]
  <2> DEFINE adds == heap[fac[f].cfg].adds
             more == Append(adds, add)
  <2>1. Own(f) = [mode |-> fac[f].mode, schema |-> fac[f].schema, adds |-> adds]
    BY <1>1 DEF Own, Custom
  <2>2. Own(f)' = [mode |-> fac[f].mode, schema |-> fac[f].schema, adds |-> more]
    BY <1>0, <1>1, <1>4 DEF Own, Custom
  <2>3. Own(f).adds = adds
    BY <2>1
  <2> HIDE DEF adds, more
  <2>4. [Own(f) EXCEPT !.adds = more] = [mode |-> fac[f].mode, schema |-> fac[f].schema, adds |-> more]
    BY <2>1
  <2>5. [Own(f) EXCEPT !.adds = Append(@, add)] = [Own(f) EXCEPT !.adds = more]
    BY <2>3, SMTT(30) DEF more
  <2> QED
    BY <2>2, <2>4, <2>5
<1>6. ASSUME NEW g \in Factory \ {f} PROVE Own(g)' = Own(g)
  <2>1. Custom(g) => fac[g].cfg \in DOMAIN heap \ {fac[f].cfg}
    BY <1>1 DEF RegistryInv, FactoryInv, ApartInv, Made
  <2> QED
    BY <1>0, <1>4, <2>1 DEF Own, Custom
<1>7. owns' = [owns EXCEPT ![f].adds = Append(@, add)]
  BY <1>5, <1>6 DEF owns
<1>8. P!Add(f, add)
  BY <1>0, <1>3, <1>7 DEF P!Add, owns, askeds, Own, Asked
<1> QED
  BY <1>8 DEF P!Next

\* A question is answered from the factory's own tables: those it has are complete, and
\* what it shares has no additions.
LEMMA LookupRefines ==
    ASSUME RegistryInv, NEW f \in Factory, Lookup(f)
    PROVE  P!Next
<1> DEFINE q == req[f].q
           t == Contents(heap[fac[f].cfg])
<1>0. /\ pc[f] = "body" /\ req[f].kind = "ask" /\ UNCHANGED <<fac, heap>>
      /\ said' = [said EXCEPT ![f] = [q |-> q, a |-> P!Answer(t, fac[f].schema, q)]]
      /\ req' = [req EXCEPT ![f] = NoCall]
  BY DEF Lookup, sharedVars
<1>1. /\ IsRequest(req[f]) /\ fac[f].state # "notset"
      /\ req \in [Factory -> {req[g] : g \in Factory}]
  BY <1>0 DEF RegistryInv, CallInv, TypeInv, ReqInv
<1>2. IsQuestion(q)
  BY <1>0, <1>1 DEF IsRequest
<1>3. Asked(f) = q /\ q # NoAnswer
  BY <1>0, <1>2 DEF Asked, IsQuestion, NoAnswer
<1>4. askeds' = [askeds EXCEPT ![f] = NoAnswer] /\ owns' = owns
  BY <1>0, <1>1 DEF askeds, Asked, owns, Own, NoCall
<1>5. t = P!Tables(Own(f).mode, Own(f).adds)
  <2>1. CASE Custom(f)
    BY <2>1 DEF RegistryInv, FactoryInv, Made, Contents, Own, Custom
  <2>2. CASE fac[f].state = "loaded"
    <3>1. /\ fac[f].cfg = slot[fac[f].mode] /\ slot[fac[f].mode] # Nothing /\ fac[f].mode \in Modes
      BY <2>2 DEF RegistryInv, FactoryInv, TypeInv
    <3>2. /\ heap[fac[f].cfg].mode = fac[f].mode /\ heap[fac[f].cfg].loaded
          /\ heap[fac[f].cfg].adds = <<>>
      BY <3>1 DEF RegistryInv, SlotInv, Made
    <3> QED
      BY <2>2, <3>2 DEF Contents, Own
  <2> QED
    BY <1>1, <2>1, <2>2 DEF Custom, RegistryInv, TypeInv
<1>6. said' = [said EXCEPT ![f] =
                [q |-> Asked(f), a |-> P!Answer(P!Tables(Own(f).mode, Own(f).adds), Own(f).schema, Asked(f))]]
  BY <1>0, <1>3, <1>5 DEF Own
<1> HIDE DEF q, t
<1>7. P!Reply(f)
  BY <1>3, <1>4, <1>6 DEF P!Reply, P!NoAnswer, NoAnswer, owns, askeds, Own, Asked
<1> QED
  BY <1>7 DEF P!Next

\* A new mode, or a new factory, starts without additions; other factories keep theirs.
LEMMA ReleasedRefines ==
    ASSUME RegistryInv, NEW f \in Factory, heap' = Cleared(f) \/ heap' = heap
    PROVE  \A g \in Factory \ {f} : fac'[g] = fac[g] => Own(g)' = Own(g)
<1> SUFFICES ASSUME NEW g \in Factory \ {f}, fac'[g] = fac[g] PROVE Own(g)' = Own(g)
  OBVIOUS
<1>1. CASE Custom(g)
  <2>1. fac[g].cfg \in DOMAIN heap /\ (Custom(f) => fac[g].cfg # fac[f].cfg)
    BY <1>1 DEF RegistryInv, FactoryInv, ApartInv, Made
  <2>2. heap'[fac[g].cfg] = heap[fac[g].cfg]
    BY <2>1 DEF Cleared, Without, Custom
  <2> QED
    BY <2>2 DEF Own
<1>2. CASE ~Custom(g)
  BY <1>2 DEF Own, Custom
<1> QED
  BY <1>1, <1>2

\* A new mode is a new table of the factory's own.
LEMMA SetConfigRefines ==
    ASSUME RegistryInv, NEW f \in Factory, NEW mode \in UsedModes, SetConfig(f, mode)
    PROVE  P!Next
<1> DEFINE clears == fac[f].state = "custom" \/ (fac[f].state = "loaded" /\ mode # fac[f].mode)
<1>0. /\ UNCHANGED <<req, said>> /\ mode \in Modes
      /\ heap' = IF clears THEN Cleared(f) ELSE heap
      /\ fac' = [fac EXCEPT ![f].mode = mode,
                            ![f].state = IF clears THEN "notset" ELSE @,
                            ![f].cfg = IF clears THEN Nothing ELSE @]
  BY RegistryAssumption DEF SetConfig, callVars
<1>1. /\ \A g \in Factory \ {f} : fac'[g] = fac[g]
      /\ fac'[f].mode = mode /\ fac'[f].schema = fac[f].schema /\ ~Custom(f)'
  BY <1>0 DEF RegistryInv, TypeInv, Custom
<1>2. askeds' = askeds
  BY <1>0 DEF askeds, Asked
<1>3. Own(f)' = [Own(f) EXCEPT !.mode = mode, !.adds = <<>>]
  <2>1. Own(f)' = [mode |-> mode, schema |-> fac[f].schema, adds |-> <<>>]
    BY <1>1 DEF Own, Custom
  <2> DEFINE adds == IF Custom(f) THEN heap[fac[f].cfg].adds ELSE <<>>
  <2>2. Own(f) = [mode |-> fac[f].mode, schema |-> fac[f].schema, adds |-> adds]
    BY DEF Own, Custom
  <2> HIDE DEF adds
  <2> DEFINE new == [Own(f) EXCEPT !.mode = mode]
  <2>3. new = [mode |-> mode, schema |-> fac[f].schema, adds |-> adds]
    BY <2>2
  <2> HIDE DEF new
  <2>4. [new EXCEPT !.adds = <<>>] = [mode |-> mode, schema |-> fac[f].schema, adds |-> <<>>]
    BY <2>3
  <2> QED
    BY <2>1, <2>4 DEF new
<1>4. \A g \in Factory \ {f} : Own(g)' = Own(g)
  BY <1>0, <1>1, ReleasedRefines
<1>5. owns' = [owns EXCEPT ![f].mode = mode, ![f].adds = <<>>]
  BY <1>3, <1>4 DEF owns
<1>6. P!SetConfig(f, mode)
  BY <1>0, <1>2, <1>5 DEF P!SetConfig, owns, askeds, Own, Asked
<1>7. mode \in P!Modes
  BY <1>0 DEF Modes, P!Modes
<1> QED
  BY <1>6, <1>7 DEF P!Next

\* A new schema.
LEMMA PutSchemaRefines ==
    ASSUME RegistryInv, NEW f \in Factory, NEW uri \in {"xsd99", "xsd01"}, PutSchema(f, uri)
    PROVE  P!Next
<1>0. /\ UNCHANGED <<heap, req, said>> /\ fac' = [fac EXCEPT ![f].schema = uri]
  BY DEF PutSchema, sharedVars, callVars
<1>1. /\ \A g \in Factory \ {f} : fac'[g] = fac[g]
      /\ fac'[f].mode = fac[f].mode /\ fac'[f].schema = uri
      /\ fac'[f].state = fac[f].state /\ fac'[f].cfg = fac[f].cfg
  BY <1>0 DEF RegistryInv, TypeInv
<1>2. askeds' = askeds
  BY <1>0 DEF askeds, Asked
<1>3. Own(f)' = [Own(f) EXCEPT !.schema = uri] /\ \A g \in Factory \ {f} : Own(g)' = Own(g)
  BY <1>0, <1>1 DEF Own
<1>4. owns' = [owns EXCEPT ![f].schema = uri]
  BY <1>3 DEF owns
<1>5. P!PutSchema(f, uri)
  BY <1>0, <1>2, <1>4 DEF P!PutSchema, owns, askeds, Own, Asked
<1> QED
  BY <1>5 DEF P!Next

\* A new factory.
LEMMA ReplaceRefines ==
    ASSUME RegistryInv, NEW f \in Factory, Replace(f)
    PROVE  P!Next
<1>0. /\ pc[f] = "idle" /\ UNCHANGED req /\ heap' = Cleared(f)
      /\ fac' = [fac EXCEPT ![f] = NewFactory] /\ said' = [said EXCEPT ![f] = NoAnswer]
  BY DEF Replace, callVars
<1>1. /\ \A g \in Factory \ {f} : fac'[g] = fac[g]
      /\ fac'[f] = NewFactory
  BY <1>0 DEF RegistryInv, TypeInv
<1>2. Asked(f) = NoAnswer
  BY <1>0 DEF RegistryInv, CallInv, NoCall, Asked
<1>3. askeds' = [askeds EXCEPT ![f] = NoAnswer]
  BY <1>0, <1>2 DEF askeds, Asked
<1>4. Own(f)' = P!Fresh /\ \A g \in Factory \ {f} : Own(g)' = Own(g)
  BY <1>0, <1>1, ReleasedRefines, SMTT(30) DEF Own, NewFactory, P!Fresh
<1>5. owns' = [owns EXCEPT ![f] = P!Fresh]
  BY <1>4 DEF owns
<1>6. P!Replace(f)
  BY <1>0, <1>3, <1>5 DEF P!Replace, P!NoAnswer, NoAnswer, owns, askeds, Own, Asked
<1> QED
  BY <1>6 DEF P!Next

\* Every step is one of PrivateRegistry's, or none that it sees.
LEMMA RefinementStep ==
    ASSUME RegistryInv, [RegistryNext]_registryVars
    PROVE  [P!Next]_P!vars
<1>1. ASSUME NEW f \in Factory, NEW q, IsQuestion(q), Start(f, [kind |-> "ask", q |-> q])
      PROVE  P!Next \/ UNCHANGED P!vars
  BY <1>1, StartRefines DEF IsRequest
<1>2. ASSUME NEW f \in Factory, NEW add \in Additions, Start(f, [kind |-> "add", add |-> add])
      PROVE  P!Next \/ UNCHANGED P!vars
  BY <1>2, StartRefines DEF IsRequest
<1>3. ASSUME NEW f \in Factory, Work(f) PROVE P!Next \/ UNCHANGED P!vars
  BY <1>3, FirstUseRefines, AddEntryRefines, LookupRefines DEF Work
<1>4. ASSUME UNCHANGED <<sharedVars, fac, callVars, said>> PROVE UNCHANGED P!vars
  BY <1>4, SameVars DEF sharedVars, callVars, owns, askeds, Own, Asked
<1>5. ASSUME NEW f \in Factory,
             (\E by \in {"null", "ns"} : FetchClass(f, by)) \/ (\E k \in DOMAIN held[f] : Return(f, k))
               \/ Drop(f) \/ ClearPool(f)
      PROVE  UNCHANGED P!vars
  BY <1>4, <1>5 DEF FetchClass, Return, Drop, ClearPool
<1>6. ASSUME NEW f \in Factory, NEW mode \in UsedModes, SetConfig(f, mode) PROVE P!Next
  BY <1>6, SetConfigRefines
<1>7. ASSUME NEW f \in Factory, NEW uri \in {"xsd99", "xsd01"}, PutSchema(f, uri) PROVE P!Next
  BY <1>7, PutSchemaRefines
<1>8. ASSUME NEW f \in Factory, Replace(f) PROVE P!Next
  BY <1>8, ReplaceRefines
<1>9. CASE UNCHANGED registryVars
  BY <1>4, <1>9 DEF registryVars, sharedVars, callVars
<1> QED
  BY <1>1, <1>2, <1>3, <1>5, <1>6, <1>7, <1>8, <1>9 DEF RegistryNext

\* Factories that share the built-in tables, build them on first use behind a double-checked
\* lock and copy them on their first addition, behave as if each had tables of its own.
THEOREM RegistryImplemented == RegistrySpec => ImplementsRegistry
<1>1. RegistryInit => P!Init
  BY RefinementInit
<1>2. RegistryInv /\ [RegistryNext]_registryVars => [P!Next]_P!vars
  BY RefinementStep
<1> QED
  BY <1>1, <1>2, RegistryInvariant, PTL DEF RegistrySpec, ImplementsRegistry, P!Spec
-----------------------------------------------------------------------------
(* SoapCall: the calls                                                     *)

\* The stages of a call before its answer is there, and those in which the factory may be at work
Early == {"tune", "make", "root", "value", "write", "written", "send", "server"}
Asking == {"value", "write", "typed", "named", "asRead"}

\* What the proofs need of the variables' types
Fields == {"round", "at", "k", "envelope", "message", "reply", "opened", "failed", "outcome"}
CallTypes ==
    /\ plan \in Scenarios
    /\ call \in [Factory -> {call[f] : f \in Factory}]
    /\ said \in [Factory -> {said[f] : f \in Factory}]
    /\ \A f \in Factory : DOMAIN call[f] = Fields /\ \E S : call[f].opened \in Seq(S)

\* A factory that is at work was told to be by its own thread
WorkInv(f) ==
    pc[f] # "idle" =>
        \/ call[f].at = "tune" /\ req[f].kind = "add"
        \/ call[f].at \in Asking /\ req[f].kind = "ask" /\ req[f].q.kind # "AreEqualComTypes"

\* How many (de)serializers the thread has at least: those of the elements that are open, and one
\* more where the question for it was answered with a class
Open_(f) == IF call[f].opened = <<>> THEN 0 ELSE 1
Got(f) == IF pc[f] = "idle" /\ said[f].a # NotFound THEN 1 ELSE 0
Has(f, n) == Len(held[f]) >= n
HeldInv(f) ==
    /\ call[f].at = "write" => Has(f, Got(f))
    /\ call[f].at = "written" => Has(f, 1)
    /\ call[f].at = "element" => Has(f, Open_(f))
    /\ call[f].at \in {"typed", "named"} => Has(f, Open_(f) + Got(f))
    /\ call[f].at = "close" => Has(f, 2)

\* Where there is an envelope, it has an element
ReplyInv(f) ==
    /\ call[f].at \in Early => call[f].reply = NoReply /\ call[f].opened = <<>>
    /\ call[f].at = "receive" =>
         call[f].opened = <<>> /\ (call[f].reply.kind \notin {"refused", "page"} => call[f].reply.cut # 0)
    /\ call[f].at \in {"element", "typed", "named", "close"} => call[f].reply.cut # 0

StageInv(f) == WorkInv(f) /\ HeldInv(f) /\ ReplyInv(f)
UseInv == CallTypes /\ \A f \in Factory : StageInv(f)
-----------------------------------------------------------------------------
(* What the factory's operations do to what StageInv is about.             *)

\* What a thread sees of its factory and its call
Seen(f) == <<call[f], pc[f], req[f], said[f], held[f]>>
Typed == /\ pc \in [Factory -> {pc[f] : f \in Factory}] /\ req \in [Factory -> {req[f] : f \in Factory}]
         /\ said \in [Factory -> {said[f] : f \in Factory}] /\ held \in [Factory -> {held[f] : f \in Factory}]
         /\ \A f \in Factory : held[f] \in Seq(ToSet(held[f]))

\* The invariants of the registry give the types.
LEMMA TypedIs == ASSUME RegistryInv, PoolInv, CallTypes PROVE Typed
BY DEF RegistryInv, TypeInv, ReqInv, PoolInv, CallTypes, Typed

\* A question, or an addition, begins.
LEMMA StartSeen ==
    ASSUME Typed, NEW f \in Factory, NEW r, Start(f, r)
    PROVE  /\ pc[f] = "idle" /\ pc'[f] # "idle" /\ req'[f] = r /\ said' = said /\ held' = held
           /\ \A g \in Factory \ {f} : pc'[g] = pc[g] /\ req'[g] = req[g]
BY DEF Start, Typed, poolVars

\* What it is answered with is the caller's.
LEMMA FetchSeen ==
    ASSUME Typed, NEW f \in Factory, NEW by, Fetch(f, by)
    PROVE  /\ Len(held'[f]) = Len(held[f]) + 1 /\ \A g \in Factory \ {f} : held'[g] = held[g]
<1>1. PICK i : held' = [held EXCEPT ![f] = Append(@, i)]
  BY DEF Fetch
<1>2. held'[f] = Append(held[f], i) /\ \A g \in Factory \ {f} : held'[g] = held[g]
  BY <1>1 DEF Typed
<1>3. held[f] \in Seq(ToSet(held[f]))
  BY DEF Typed
<1> QED
  BY <1>2, <1>3

\* The call goes on, or is over; a class that was found leaves an instance with the caller.
LEMMA WorkSeen ==
    ASSUME Typed, NEW f \in Factory, Work(f)
    PROVE  /\ pc[f] # "idle"
           /\ pc'[f] # "idle" => req'[f] = req[f] /\ said' = said /\ held' = held
           /\ \A g \in Factory \ {f} : pc'[g] = pc[g] /\ req'[g] = req[g] /\ said'[g] = said[g] /\ held'[g] = held[g]
           /\ \/ held'[f] = held[f]
              \/ Len(held'[f]) = Len(held[f]) + 1
           /\ req[f].kind = "ask" /\ req[f].q.kind # "AreEqualComTypes" /\ pc'[f] = "idle" /\ said'[f].a # NotFound =>
                 Len(held'[f]) = Len(held[f]) + 1
           /\ said' \in [Factory -> {said'[g] : g \in Factory}]
<1>1. CASE LockManager(f) \/ Fill(f) \/ Publish(f) \/ UnlockManager(f) \/ Take(f)
  <2>1. pc[f] # "idle" /\ pc'[f] # "idle" /\ req' = req /\ said' = said /\ held' = held
        /\ \A g \in Factory \ {f} : pc'[g] = pc[g]
    BY <1>1 DEF LockManager, Fill, Publish, UnlockManager, Take, Typed, poolVars
  <2> QED
    BY <2>1 DEF Typed
<1>2. CASE AddEntry(f)
  <2>1. pc[f] # "idle" /\ req[f].kind = "add" /\ pc'[f] = "idle" /\ said' = said /\ held' = held
        /\ \A g \in Factory \ {f} : pc'[g] = pc[g] /\ req'[g] = req[g]
    BY <1>2 DEF AddEntry, Typed, poolVars
  <2> QED
    BY <2>1 DEF Typed
<1>3. CASE Lookup(f)
  <2> DEFINE a == P!Answer(Contents(heap[fac[f].cfg]), fac[f].schema, req[f].q)
  <2>1. /\ pc[f] # "idle" /\ pc' = [pc EXCEPT ![f] = "idle"] /\ req' = [req EXCEPT ![f] = NoCall]
        /\ said' = [said EXCEPT ![f] = [q |-> req[f].q, a |-> a]]
        /\ IF a = NotFound \/ req[f].q.kind = "AreEqualComTypes" THEN UNCHANGED poolVars ELSE Fetch(f, a.by)
    BY <1>3 DEF Lookup
  <2> HIDE DEF a
  <2>2. pc'[f] = "idle" /\ said'[f].a = a /\ said' \in [Factory -> {said'[g] : g \in Factory}]
        /\ \A g \in Factory \ {f} : pc'[g] = pc[g] /\ req'[g] = req[g] /\ said'[g] = said[g]
    BY <2>1 DEF Typed
  <2>3. CASE a = NotFound \/ req[f].q.kind = "AreEqualComTypes"
    BY <2>1, <2>2, <2>3 DEF poolVars
  <2>4. CASE ~(a = NotFound \/ req[f].q.kind = "AreEqualComTypes")
    BY <2>1, <2>2, <2>4, FetchSeen
  <2> QED
    BY <2>3, <2>4
<1> QED
  BY <1>1, <1>2, <1>3 DEF Work

\* What is returned leaves the caller.
LEMMA ReturnSeen ==
    ASSUME Typed, NEW f \in Factory, NEW k \in DOMAIN held[f], Return(f, k)
    PROVE  /\ pc' = pc /\ req' = req /\ said' = said /\ Len(held'[f]) = Len(held[f]) - 1
           /\ \A g \in Factory \ {f} : held'[g] = held[g]
<1>1. held' = [held EXCEPT ![f] = RemoveAt(@, k)] /\ pc' = pc /\ req' = req /\ said' = said
  BY DEF Return, callVars
<1>2. held'[f] = RemoveAt(held[f], k) /\ \A g \in Factory \ {f} : held'[g] = held[g]
  BY <1>1 DEF Typed
<1>3. PICK s : s = held[f] /\ s \in Seq(ToSet(s)) /\ k \in DOMAIN s
  BY DEF Typed
<1>4. s \in Seq(ToSet(s)) /\ k \in 1..Len(s)
  BY <1>3
<1>5. Len(RemoveAt(s, k)) = Len(s) - 1
  BY <1>4 DEF RemoveAt
<1> QED
  BY <1>1, <1>2, <1>3, <1>5

\* What a failure drops.
LEMMA DropSeen ==
    ASSUME Typed, NEW f \in Factory, Drop(f)
    PROVE  /\ pc' = pc /\ req' = req /\ said' = said /\ \A g \in Factory \ {f} : held'[g] = held[g]
BY DEF Drop, callVars, Typed

\* What a step of the call makes of it.
CallIs(f, at, opened, reply) ==
    /\ DOMAIN call'[f] = Fields /\ call' \in [Factory -> {call'[g] : g \in Factory}]
    /\ call'[f].at = at /\ call'[f].opened = opened /\ call'[f].reply = reply
    /\ \A g \in Factory \ {f} : call'[g] = call[g]

\* A step that gives the call of one factory a new value is such a step.
LEMMA UpdateIs ==
    ASSUME CallTypes, NEW f \in Factory, NEW c, DOMAIN c = Fields, call' = [call EXCEPT ![f] = c]
    PROVE  CallIs(f, c.at, c.opened, c.reply)
BY DEF CallTypes, CallIs

\* The next stage.
LEMMA GotoIs ==
    ASSUME CallTypes, NEW f \in Factory, NEW stage, call' = Goto(f, stage) \/ call' = Fails(f, stage)
    PROVE  CallIs(f, stage, call[f].opened, call[f].reply)
BY DEF CallTypes, CallIs, Goto, Fails, Fields

\* A step of one thread is none of another.
LEMMA OthersStay ==
    ASSUME UseInv, NEW f \in Factory, CallTypes', StageInv(f)',
           \A g \in Factory \ {f} : Seen(g)' = Seen(g)
    PROVE  UseInv'
<1>1. ASSUME NEW g \in Factory \ {f} PROVE StageInv(g)'
  <2>1. /\ call'[g] = call[g] /\ pc'[g] = pc[g] /\ req'[g] = req[g] /\ said'[g] = said[g] /\ held'[g] = held[g]
    BY DEF Seen
  <2>2. StageInv(g)
    BY DEF UseInv
  <2> QED
    BY <2>1, <2>2 DEF StageInv, WorkInv, HeldInv, ReplyInv, Has, Got, Open_
<1> QED
  BY <1>1 DEF UseInv

\* The types stay when the elements that are open are a sequence still.
LEMMA TypesStay ==
    ASSUME CallTypes, NEW f \in Factory, NEW at, NEW opened, NEW reply, CallIs(f, at, opened, reply),
           \E S : opened \in Seq(S), plan' = plan, said' \in [Factory -> {said'[g] : g \in Factory}]
    PROVE  CallTypes'
BY DEF CallTypes, CallIs

\* A step that the factory has no part in.
LEMMA CallOnly ==
    ASSUME UseInv, NEW f \in Factory, NEW at, NEW opened, NEW reply, CallIs(f, at, opened, reply),
           \E S : opened \in Seq(S), pc[f] = "idle", UNCHANGED <<registryVars, plan>>, StageInv(f)'
    PROVE  UseInv'
<1>1. pc' = pc /\ req' = req /\ said' = said /\ held' = held /\ plan' = plan
  BY DEF registryVars
<1>2. CallTypes'
  BY <1>1, TypesStay DEF UseInv, CallTypes
<1>3. \A g \in Factory \ {f} : Seen(g)' = Seen(g)
  BY <1>1 DEF Seen, CallIs
<1> QED
  BY <1>2, <1>3, OthersStay
-----------------------------------------------------------------------------
(* The steps of a call.                                                    *)

Uses == UseInv' /\ [RegistryNext]_registryVars

\* The factory works for the call.
LEMMA WorkUses ==
    ASSUME UseInv, Typed, NEW f \in Factory, Work(f), UNCHANGED callStateVars
    PROVE  Uses
<1>1. call' = call /\ plan' = plan
  BY DEF callStateVars
<1>2. /\ pc[f] # "idle"
      /\ pc'[f] # "idle" => req'[f] = req[f] /\ said' = said /\ held' = held
      /\ \A g \in Factory \ {f} : pc'[g] = pc[g] /\ req'[g] = req[g] /\ said'[g] = said[g] /\ held'[g] = held[g]
      /\ held'[f] = held[f] \/ Len(held'[f]) = Len(held[f]) + 1
      /\ req[f].kind = "ask" /\ req[f].q.kind # "AreEqualComTypes" /\ pc'[f] = "idle" /\ said'[f].a # NotFound =>
            Len(held'[f]) = Len(held[f]) + 1
      /\ said' \in [Factory -> {said'[g] : g \in Factory}]
  BY WorkSeen
<1>3. CallTypes'
  BY <1>1, <1>2 DEF UseInv, CallTypes
<1>4. WorkInv(f) /\ HeldInv(f) /\ ReplyInv(f) /\ Len(held[f]) \in Nat
  BY DEF UseInv, StageInv, Typed
<1>5. WorkInv(f)' /\ ReplyInv(f)'
  BY <1>1, <1>2, <1>4 DEF WorkInv, ReplyInv
<1>6. HeldInv(f)'
  BY <1>1, <1>2, <1>4 DEF HeldInv, WorkInv, Has, Got, Open_, Asking
<1>7. \A g \in Factory \ {f} : Seen(g)' = Seen(g)
  BY <1>1, <1>2 DEF Seen
<1>8. RegistryNext
  BY DEF RegistryNext
<1> QED
  BY <1>3, <1>5, <1>6, <1>7, <1>8, OthersStay DEF StageInv, Uses

\* It is asked.
LEMMA AskUses ==
    ASSUME UseInv, Typed, NEW f \in Factory, NEW q, IsQuestion(q), q.kind # "AreEqualComTypes",
           NEW stage \in Asking, Start(f, [kind |-> "ask", q |-> q]), call' = Goto(f, stage), plan' = plan,
           stage \in {"value", "write"} => call[f].at \in Early,
           stage \in {"typed", "named"} => call[f].at \in {"element", "typed"}
    PROVE  Uses
<1>1. /\ pc[f] = "idle" /\ pc'[f] # "idle" /\ req'[f] = [kind |-> "ask", q |-> q] /\ said' = said /\ held' = held
      /\ \A g \in Factory \ {f} : pc'[g] = pc[g] /\ req'[g] = req[g]
  BY StartSeen
<1>2. CallIs(f, stage, call[f].opened, call[f].reply)
  BY GotoIs DEF UseInv
<1>3. CallTypes'
  BY <1>1, <1>2, TypesStay DEF UseInv, CallTypes
<1>4. HeldInv(f) /\ ReplyInv(f) /\ Len(held[f]) \in Nat
  BY DEF UseInv, StageInv, Typed
<1>5. WorkInv(f)'
  BY <1>1, <1>2 DEF WorkInv, CallIs
<1>6. HeldInv(f)'
  BY <1>1, <1>2, <1>4 DEF HeldInv, Has, Got, Open_, CallIs, Asking
<1>7. ReplyInv(f)'
  BY <1>2, <1>4 DEF ReplyInv, CallIs, Early, Asking
<1>8. \A g \in Factory \ {f} : Seen(g)' = Seen(g)
  BY <1>1, <1>2 DEF Seen, CallIs
<1>9. RegistryNext
  BY DEF RegistryNext
<1> QED
  BY <1>3, <1>5, <1>6, <1>7, <1>8, <1>9, OthersStay DEF StageInv, Uses

\* SetConfig, PutSchema, ClearPool and Drop of a call that has none, or loses what it has.
LEMMA QuietUses ==
    ASSUME UseInv, Typed, NEW f \in Factory, NEW at, NEW opened, NEW reply, CallIs(f, at, opened, reply),
           \E S : opened \in Seq(S), plan' = plan, pc[f] = "idle", pc' = pc, req' = req, said' = said,
           \A g \in Factory \ {f} : held'[g] = held[g],
           at \notin {"write", "written", "typed", "named", "close"}, at = "element" => opened = <<>> /\ held' = held,
           at \in Early => reply = NoReply /\ opened = <<>>,
           at = "receive" => opened = <<>> /\ (reply.kind \notin {"refused", "page"} => reply.cut # 0),
           at = "element" => reply.cut # 0
    PROVE  UseInv'
<1>1. CallTypes'
  BY TypesStay DEF UseInv, CallTypes
<1>2. WorkInv(f)'
  BY DEF WorkInv
<1>3. HeldInv(f)'
  BY DEF HeldInv, Has, Open_, CallIs, Typed
<1>4. ReplyInv(f)'
  BY DEF ReplyInv, CallIs
<1>5. \A g \in Factory \ {f} : Seen(g)' = Seen(g)
  BY DEF Seen, CallIs
<1> QED
  BY <1>1, <1>2, <1>3, <1>4, <1>5, OthersStay DEF StageInv

\* QuietUses for a call that has no answer yet.
LEMMA EarlyUses ==
    ASSUME UseInv, Typed, NEW f \in Factory, NEW at, CallIs(f, at, call[f].opened, call[f].reply),
           call[f].at \in Early, at \in (Early \ {"write", "written"}) \cup {"over"}, plan' = plan, pc[f] = "idle",
           pc' = pc, req' = req, said' = said, \A g \in Factory \ {f} : held'[g] = held[g]
    PROVE  UseInv'
<1>1. call[f].opened = <<>> /\ call[f].reply = NoReply
  BY DEF UseInv, StageInv, ReplyInv
<1>2. CallIs(f, at, <<>>, NoReply)
  BY <1>1
<1>3. \E S : <<>> \in Seq(S)
  OBVIOUS
<1>4. at \notin {"write", "written", "typed", "named", "close", "element", "receive"}
  BY SMTT(30) DEF Early
<1> QED
  BY <1>2, <1>3, <1>4, QuietUses

\* What the settings of the application are.
LEMMA TunesAre ==
    ASSUME UseInv, NEW f \in Factory, call[f].round \in DOMAIN plan[f], NEW k \in DOMAIN This(f).tunes
    PROVE  /\ This(f).tunes[k].op = "config" => This(f).tunes[k].mode \in UsedModes
           /\ This(f).tunes[k].op = "schema" => This(f).tunes[k].uri \in {"xsd99", "xsd01"}
           /\ This(f).tunes[k].op = "add" => This(f).tunes[k].add \in Additions
BY SoapCallScenarios DEF UseInv, CallTypes, This

\* The application sets its factory and its envelope up.
LEMMA TuneUses ==
    ASSUME UseInv, Typed, NEW f \in Factory, Tune(f)
    PROVE  Uses
<1> DEFINE tune == This(f).tunes[call[f].k]
<1>1. /\ call[f].at = "tune" /\ pc[f] = "idle" /\ call[f].round \in DOMAIN plan[f] /\ plan' = plan
      /\ call[f].k \in DOMAIN This(f).tunes
  BY DEF Tune, AtStage
<1>2. call[f].opened = <<>> /\ call[f].reply = NoReply /\ CallTypes
  BY <1>1 DEF UseInv, StageInv, ReplyInv, Early
<1>3. CallIs(f, "tune", <<>>, NoReply)
  <2>1. PICK t : t = [call EXCEPT ![f].k = @ + 1]
    OBVIOUS
  <2>2. /\ t \in [Factory -> {t[g] : g \in Factory}] /\ \A g \in Factory \ {f} : t[g] = call[g]
        /\ DOMAIN t[f] = Fields /\ t[f].at = "tune" /\ t[f].opened = <<>> /\ t[f].reply = NoReply
    BY <1>1, <1>2, <2>1 DEF CallTypes, Fields
  <2>3. CASE call' = t
    BY <2>2, <2>3 DEF CallIs
  <2>4. ASSUME NEW e, call' = [t EXCEPT ![f].envelope = e] PROVE CallIs(f, "tune", <<>>, NoReply)
    BY <2>2, <2>4, SMTT(30) DEF CallIs, Fields
  <2>5. \/ call' = t
        \/ call' = [t EXCEPT ![f].envelope = [@ EXCEPT !.soap12 = tune.soap12]]
        \/ call' = [t EXCEPT ![f].envelope = [@ EXCEPT !.prefixes = WithPrefix(@, tune.uri, tune.prefix)]]
        \/ call' = [t EXCEPT ![f].envelope = [@ EXCEPT !.made = TRUE]]
    BY <2>1 DEF Tune
  <2> QED
    BY <2>3, <2>4, <2>5
<1>4. \E S : <<>> \in Seq(S)
  OBVIOUS
<1>5. ASSUME pc' = pc, req' = req, said' = said, held' = held PROVE UseInv'
  BY <1>1, <1>3, <1>4, <1>5, QuietUses DEF Early
<1>6. CASE tune.op \in {"version", "prefix", "action"}
  <2>1. UNCHANGED registryVars
    BY <1>6 DEF Tune
  <2> QED
    BY <1>5, <2>1 DEF registryVars, Uses
<1>7. CASE tune.op = "config"
  <2>1. SetConfig(f, tune.mode) /\ tune.mode \in UsedModes
    BY <1>1, <1>7, TunesAre DEF Tune
  <2>2. RegistryNext
    BY <2>1 DEF RegistryNext
  <2>3. UseInv'
    BY <1>5, <2>1 DEF SetConfig, callVars, poolVars
  <2> QED
    BY <2>2, <2>3 DEF Uses
<1>8. CASE tune.op = "schema"
  <2>1. PutSchema(f, tune.uri) /\ tune.uri \in {"xsd99", "xsd01"}
    BY <1>1, <1>8, TunesAre DEF Tune
  <2>2. RegistryNext
    BY <2>1 DEF RegistryNext
  <2>3. UseInv'
    BY <1>5, <2>1 DEF PutSchema, callVars, poolVars
  <2> QED
    BY <2>2, <2>3 DEF Uses
<1>9. CASE tune.op = "add"
  <2>1. Start(f, [kind |-> "add", add |-> tune.add]) /\ tune.add \in Additions
    BY <1>1, <1>9, TunesAre DEF Tune
  <2>2. RegistryNext
    BY <2>1 DEF RegistryNext
  <2>3. /\ pc'[f] # "idle" /\ req'[f] = [kind |-> "add", add |-> tune.add] /\ said' = said /\ held' = held
        /\ \A g \in Factory \ {f} : pc'[g] = pc[g] /\ req'[g] = req[g]
    BY <2>1, StartSeen
  <2>4. CallTypes'
    <3>1. said' \in [Factory -> {said'[g] : g \in Factory}]
      BY <1>2, <2>3 DEF CallTypes
    <3> QED
      BY <1>1, <1>2, <1>3, <1>4, <3>1, TypesStay
  <2>5. StageInv(f)'
    BY <1>3, <2>3 DEF StageInv, WorkInv, HeldInv, ReplyInv, CallIs
  <2>6. \A g \in Factory \ {f} : Seen(g)' = Seen(g)
    BY <1>3, <2>3 DEF Seen, CallIs
  <2> QED
    BY <2>2, <2>4, <2>5, <2>6, OthersStay DEF Uses
<1> QED
  BY <1>6, <1>7, <1>8, <1>9 DEF Tune

\* The factory that an envelope makes when it needs one.
LEMMA MakeSeen ==
    ASSUME NEW f \in Factory, NEW soap12, MakeFactory(f, soap12)
    PROVE  pc' = pc /\ req' = req /\ said' = said /\ held' = held /\ [RegistryNext]_registryVars
<1>1. CASE UNCHANGED registryVars
  BY <1>1 DEF registryVars
<1>2. ASSUME NEW mode \in {"normal11", "normal12"}, SetConfig(f, mode)
      PROVE  pc' = pc /\ req' = req /\ said' = said /\ held' = held /\ RegistryNext
  <2>1. mode \in UsedModes
    BY SoapCallScenarios
  <2>2. RegistryNext
    BY <1>2, <2>1 DEF RegistryNext
  <2> QED
    BY <1>2, <2>2 DEF SetConfig, callVars, poolVars
<1> QED
  BY <1>1, <1>2 DEF MakeFactory

\* The call begins.
LEMMA BeginUses == ASSUME UseInv, Typed, NEW f \in Factory, Begin(f) PROVE Uses
<1>1. PICK stage \in {"send", "make"} : call' = Goto(f, stage)
  BY DEF Begin
<1>2. pc[f] = "idle" /\ call[f].at = "tune" /\ UNCHANGED <<registryVars, plan>>
  BY DEF Begin, AtStage
<1>3. CallIs(f, stage, call[f].opened, call[f].reply)
  BY <1>1, GotoIs DEF UseInv
<1>4. pc' = pc /\ req' = req /\ said' = said /\ held' = held
  BY <1>2 DEF registryVars
<1>5. UseInv'
  BY <1>2, <1>3, <1>4, EarlyUses DEF Early
<1> QED
  BY <1>2, <1>5 DEF Uses

\* The envelope is written.
LEMMA WriteRootUses == ASSUME UseInv, Typed, NEW f \in Factory, WriteRoot(f) PROVE Uses
<1>1. pc[f] = "idle" /\ call[f].at = "make" /\ plan' = plan /\ MakeFactory(f, call[f].envelope.soap12)
  BY DEF WriteRoot, AtStage
<1>2. CallIs(f, "root", call[f].opened, call[f].reply)
  BY DEF WriteRoot, UseInv, CallTypes, CallIs, Goto, Fields
<1>4. pc' = pc /\ req' = req /\ said' = said /\ held' = held /\ [RegistryNext]_registryVars
  BY <1>1, MakeSeen
<1>5. UseInv'
  BY <1>1, <1>2, <1>4, EarlyUses DEF Early
<1> QED
  BY <1>4, <1>5 DEF Uses

\* The factory is asked for the serializers of the method's node and of the value.
LEMMA AskRootUses == ASSUME UseInv, Typed, NEW f \in Factory, AskRoot(f) \/ AskValue(f) PROVE Uses
<1>1. IsQuestion(RootQuestion) /\ RootQuestion.kind # "AreEqualComTypes"
  BY DEF IsQuestion, RootQuestion
<1>2. \A parent, v : IsQuestion(ValueQuestion(parent, v)) /\ ValueQuestion(parent, v).kind # "AreEqualComTypes"
  BY DEF IsQuestion, ValueQuestion
<1>3. CASE AskRoot(f)
  BY <1>1, <1>3, AskUses DEF AskRoot, AtStage, Asking, Early
<1>4. CASE AskValue(f)
  <2>1. PICK q : q = ValueQuestion(MethodType(f), This(f).value)
    OBVIOUS
  <2>2. IsQuestion(q) /\ q.kind # "AreEqualComTypes"
    BY <1>2, <2>1
  <2>3. Start(f, [kind |-> "ask", q |-> q]) /\ call' = Goto(f, "write") /\ plan' = plan /\ call[f].at = "value"
    BY <1>4, <2>1 DEF AskValue, AtStage
  <2> QED
    BY <2>2, <2>3, AskUses DEF Asking, Early
<1> QED
  BY <1>3, <1>4

\* The value is written with the serializer that was found.
LEMMA WriteValueUses == ASSUME UseInv, Typed, NEW f \in Factory, WriteValue(f) PROVE Uses
<1>1. pc[f] = "idle" /\ call[f].at = "write" /\ UNCHANGED <<registryVars, plan>> /\ said[f].a # NotFound
  BY DEF WriteValue, AtStage
<1>2. CallIs(f, "written", call[f].opened, call[f].reply)
  <2>1. PICK p, m : call' = [Goto(f, "written") EXCEPT ![f].envelope.prefixes = p, ![f].message = m]
    BY DEF WriteValue
  <2> QED
    BY <2>1 DEF UseInv, CallTypes, CallIs, Goto, Fields
<1>3. call[f].opened = <<>> /\ call[f].reply = NoReply /\ Has(f, 1)
  BY <1>1 DEF UseInv, StageInv, ReplyInv, HeldInv, Got, Early
<1>4. StageInv(f)'
  BY <1>1, <1>2, <1>3 DEF StageInv, WorkInv, HeldInv, ReplyInv, CallIs, registryVars, Early, Has
<1>5. \E S : call[f].opened \in Seq(S)
  BY DEF UseInv, CallTypes
<1>6. UseInv'
  BY <1>1, <1>2, <1>4, <1>5, CallOnly
<1> QED
  BY <1>1, <1>6 DEF Uses

\* There is none.
LEMMA CannotWriteUses == ASSUME UseInv, Typed, NEW f \in Factory, CannotWrite(f) PROVE Uses
<1>1. pc[f] = "idle" /\ call[f].at = "write" /\ plan' = plan /\ Drop(f)
  BY DEF CannotWrite, AtStage
<1>2. PICK stage \in {"send", "over"} : CallIs(f, stage, call[f].opened, call[f].reply)
  BY GotoIs DEF CannotWrite, UseInv
<1>3. pc' = pc /\ req' = req /\ said' = said /\ \A g \in Factory \ {f} : held'[g] = held[g]
  BY <1>1, DropSeen
<1>4. RegistryNext
  BY <1>1 DEF RegistryNext
<1>5. UseInv'
  BY <1>1, <1>2, <1>3, EarlyUses DEF Early
<1> QED
  BY <1>4, <1>5 DEF Uses

\* The serializers go back.
LEMMA ReturnWrittenUses == ASSUME UseInv, Typed, NEW f \in Factory, ReturnWritten(f) PROVE Uses
<1>1. pc[f] = "idle" /\ call[f].at = "written" /\ plan' = plan /\ Return(f, Len(held[f]))
  BY DEF ReturnWritten, AtStage
<1>2. call[f].opened = <<>> /\ call[f].reply = NoReply /\ Len(held[f]) >= 1
  BY <1>1 DEF UseInv, StageInv, ReplyInv, HeldInv, Has, Early
<1>3. Len(held[f]) \in DOMAIN held[f]
  BY <1>2 DEF Typed
<1>4. RegistryNext
  BY <1>1, <1>3 DEF RegistryNext
<1>5. /\ pc' = pc /\ req' = req /\ said' = said /\ Len(held'[f]) = Len(held[f]) - 1
      /\ \A g \in Factory \ {f} : held'[g] = held[g]
  BY <1>1, <1>3, ReturnSeen
<1>6. CASE Len(held[f]) > 1
  <2>1. call' = call
    BY <1>6 DEF ReturnWritten
  <2>2. CallTypes'
    BY <1>1, <1>5, <2>1 DEF UseInv, CallTypes
  <2>3. StageInv(f)'
    BY <1>1, <1>2, <1>5, <1>6, <2>1 DEF StageInv, WorkInv, HeldInv, ReplyInv, Has
  <2>4. \A g \in Factory \ {f} : Seen(g)' = Seen(g)
    BY <1>5, <2>1 DEF Seen
  <2> QED
    BY <1>4, <2>2, <2>3, <2>4, OthersStay DEF Uses
<1>7. CASE ~(Len(held[f]) > 1)
  <2>1. PICK stage \in {"server", "send"} : CallIs(f, stage, call[f].opened, call[f].reply)
    BY <1>7, GotoIs DEF ReturnWritten, UseInv
  <2>2. UseInv'
    BY <1>1, <1>5, <2>1, EarlyUses DEF Early
  <2> QED
    BY <1>4, <2>2 DEF Uses
<1> QED
  BY <1>6, <1>7

\* The request goes out over HTTP.
LEMMA SendUses == ASSUME UseInv, Typed, NEW f \in Factory, Send(f) PROVE Uses
<1>1. pc[f] = "idle" /\ call[f].at = "send" /\ plan' = plan /\ UNCHANGED registryVars
  BY DEF Send, AtStage
<1>2. PICK stage \in {"make", "server"} : CallIs(f, stage, call[f].opened, call[f].reply)
  <2>1. PICK stage \in {"make", "server"} : \E m : call' = [call EXCEPT ![f].at = stage, ![f].message = m]
    BY DEF Send
  <2> QED
    BY <2>1 DEF UseInv, CallTypes, CallIs, Fields
<1>3. pc' = pc /\ req' = req /\ said' = said /\ held' = held
  BY <1>1 DEF registryVars
<1>4. UseInv'
  BY <1>1, <1>2, <1>3, EarlyUses DEF Early
<1> QED
  BY <1>1, <1>4 DEF Uses

\* An answer, or none, arrives.
LEMMA AnsweredUses ==
    ASSUME UseInv, Typed, NEW f \in Factory, NEW r, CallIs(f, "receive", call[f].opened, r),
           r.kind \notin {"refused", "page"} => r.cut # 0, call[f].at \in Early, pc[f] = "idle", plan' = plan,
           UNCHANGED registryVars
    PROVE  Uses
<1>1. call[f].opened = <<>>
  BY DEF UseInv, StageInv, ReplyInv
<1>2. CallIs(f, "receive", <<>>, r)
  BY <1>1
<1>3. \E S : <<>> \in Seq(S)
  OBVIOUS
<1>4. pc' = pc /\ req' = req /\ said' = said /\ held' = held
  BY DEF registryVars
<1>5. UseInv'
  BY <1>2, <1>3, <1>4, QuietUses DEF Early
<1> QED
  BY <1>5 DEF Uses

\* It goes out over TCP.
LEMMA SendTcpUses == ASSUME UseInv, Typed, NEW f \in Factory, SendTcp(f) PROVE Uses
<1>1. pc[f] = "idle" /\ call[f].at = "send" /\ plan' = plan /\ UNCHANGED registryVars
  BY DEF SendTcp, AtStage
<1>2. CASE call' = Fails(f, "over") \/ call' = Goto(f, "server")
  <2>1. PICK stage \in {"over", "server"} : CallIs(f, stage, call[f].opened, call[f].reply)
    BY <1>2, GotoIs DEF UseInv
  <2>2. pc' = pc /\ req' = req /\ said' = said /\ held' = held
    BY <1>1 DEF registryVars
  <2>3. UseInv'
    BY <1>1, <2>1, <2>2, EarlyUses DEF Early
  <2> QED
    BY <1>1, <2>3 DEF Uses
<1>3. CASE call' = [Goto(f, "receive") EXCEPT ![f].reply.kind = "page"]
  <2>1. PICK r : r = [call[f].reply EXCEPT !.kind = "page"]
    OBVIOUS
  <2>2. call' = [Goto(f, "receive") EXCEPT ![f].reply = r]
    BY <1>3, <2>1 DEF UseInv, CallTypes, Goto, Fields
  <2>3. CallIs(f, "receive", call[f].opened, r)
    BY <2>2 DEF UseInv, CallTypes, CallIs, Goto, Fields
  <2>4. r.kind = "page"
    <3>1. call[f].reply = NoReply
      BY <1>1 DEF UseInv, StageInv, ReplyInv, Early
    <3> QED
      BY <2>1, <3>1 DEF NoReply, Answer
  <2> QED
    BY <1>1, <2>3, <2>4, AnsweredUses DEF Early
<1> QED
  BY <1>2, <1>3 DEF SendTcp

\* What a server says, where it is an envelope, has an element.
LEMMA AnsweredIs ==
    ASSUME NEW message, NEW kind
    PROVE  Answered(message, kind).kind \notin {"refused", "page"} => Answered(message, kind).cut # 0
<1>1. CASE kind \in {"refused", "page"}
  BY <1>1 DEF Answered, NoReply, Answer
<1>2. CASE kind \notin {"refused", "page"}
  BY <1>2 DEF Answered, FaultReply, Answer, Reply
<1> QED
  BY <1>1, <1>2

\* The server answers.
LEMMA ServeUses == ASSUME UseInv, Typed, NEW f \in Factory, Serve(f) PROVE Uses
<1>1. pc[f] = "idle" /\ call[f].at = "server" /\ plan' = plan /\ UNCHANGED registryVars
  BY DEF Serve, AtStage
<1>2. PICK kind : call' = [Goto(f, "receive") EXCEPT ![f].reply = Answered(call[f].message, kind)]
  BY DEF Serve
<1>3. PICK r : r = Answered(call[f].message, kind)
  OBVIOUS
<1>4. CallIs(f, "receive", call[f].opened, r)
  BY <1>2, <1>3 DEF UseInv, CallTypes, CallIs, Goto, Fields
<1>5. r.kind \notin {"refused", "page"} => r.cut # 0
  BY <1>3, AnsweredIs
<1> QED
  BY <1>1, <1>4, <1>5, AnsweredUses DEF Early

\* The answer is taken, and an envelope begins.
LEMMA ReceiveUses == ASSUME UseInv, Typed, NEW f \in Factory, Receive(f) PROVE Uses
<1>1. pc[f] = "idle" /\ call[f].at = "receive" /\ plan' = plan
  BY DEF Receive, AtStage
<1>2. call[f].opened = <<>> /\ (call[f].reply.kind \notin {"refused", "page"} => call[f].reply.cut # 0)
  BY <1>1 DEF UseInv, StageInv, ReplyInv
<1>3. \E S : call[f].opened \in Seq(S)
  BY DEF UseInv, CallTypes
<1>4. CASE call' = Fails(f, "leave") /\ UNCHANGED registryVars
  <2>1. CallIs(f, "leave", call[f].opened, call[f].reply)
    BY <1>4, GotoIs DEF UseInv
  <2>2. pc' = pc /\ req' = req /\ said' = said /\ held' = held
    BY <1>4 DEF registryVars
  <2>3. UseInv'
    BY <1>1, <1>3, <2>1, <2>2, QuietUses DEF Early
  <2> QED
    BY <1>4, <2>3 DEF Uses
<1>5. CASE /\ call[f].reply.kind \notin {"refused", "page"} /\ MakeFactory(f, call[f].reply.soap12)
           /\ \E s : call' = [Goto(f, "element") EXCEPT ![f].envelope.soap12 = s, ![f].envelope.made = TRUE]
  <2>1. CallIs(f, "element", call[f].opened, call[f].reply)
    <3>1. PICK s : call' = [Goto(f, "element") EXCEPT ![f].envelope.soap12 = s, ![f].envelope.made = TRUE]
      BY <1>5
    <3>2. PICK e : e = [call[f].envelope EXCEPT !.soap12 = s, !.made = TRUE]
      OBVIOUS
    <3>3. call' = [Goto(f, "element") EXCEPT ![f].envelope = e]
      BY <3>1, <3>2 DEF UseInv, CallTypes, Goto, Fields
    <3> QED
      BY <3>3 DEF UseInv, CallTypes, CallIs, Goto, Fields
  <2>2. pc' = pc /\ req' = req /\ said' = said /\ held' = held /\ [RegistryNext]_registryVars
    BY <1>5, MakeSeen
  <2>3. call[f].reply.cut # 0
    BY <1>2, <1>5
  <2>4. UseInv'
    BY <1>1, <1>2, <1>3, <2>1, <2>2, <2>3, QuietUses DEF Early
  <2> QED
    BY <2>2, <2>4 DEF Uses
<1> QED
  BY <1>4, <1>5 DEF Receive

\* An element opens.
LEMMA OpenIs ==
    ASSUME CallTypes, NEW f \in Factory, NEW reader, NEW type, call' = Opened(f, reader, type)
    PROVE  \E opened, at :
              /\ CallIs(f, at, opened, call[f].reply) /\ opened # <<>> /\ \E S : opened \in Seq(S)
              /\ (at = "element" /\ call[f].opened = <<>>) \/ (at = "close" /\ call[f].opened # <<>>)
<1>1. PICK x : call' = [call EXCEPT ![f].opened = Append(@, x),
                                   ![f].at = IF Len(call[f].opened) = 0 THEN "element" ELSE "close"]
  BY DEF Opened
<1>2. PICK s, at : s = call[f].opened /\ at = IF Len(s) = 0 THEN "element" ELSE "close"
  OBVIOUS
<1>3. PICK S : s \in Seq(S)
  BY <1>2 DEF CallTypes
<1>4. Append(s, x) \in Seq(S \cup {x}) /\ Append(s, x) # <<>>
  <2>1. PICK T : T = S \cup {x}
    OBVIOUS
  <2>2. x \in T /\ S \subseteq T
    BY <2>1
  <2>3. s \in Seq(T)
    BY <1>3, <2>2
  <2>4. Append(s, x) \in Seq(T)
    BY <2>2, <2>3
  <2>5. Append(s, x) # <<>>
    BY <2>2, <2>3
  <2> QED
    BY <2>1, <2>4, <2>5
<1>5. CallIs(f, at, Append(s, x), call[f].reply)
  BY <1>1, <1>2, ZenonT(60) DEF CallTypes, CallIs, Fields
<1>6. (at = "element" /\ s = <<>>) \/ (at = "close" /\ s # <<>>)
  BY <1>2, <1>3
<1> QED
  BY <1>2, <1>4, <1>5, <1>6

\* An element that has opened has its deserializer.
LEMMA OpenUses ==
    ASSUME UseInv, Typed, NEW f \in Factory, NEW reader, NEW type, call' = Opened(f, reader, type), plan' = plan,
           pc[f] = "idle", pc' = pc, req' = req, said' = said, \A g \in Factory \ {f} : held'[g] = held[g],
           Len(held'[f]) \in Nat, Len(held'[f]) >= Open_(f) + 1, call[f].reply.cut # 0
    PROVE  UseInv'
<1>1. PICK opened, at :
              /\ CallIs(f, at, opened, call[f].reply) /\ opened # <<>> /\ \E S : opened \in Seq(S)
              /\ (at = "element" /\ call[f].opened = <<>>) \/ (at = "close" /\ call[f].opened # <<>>)
  BY OpenIs DEF UseInv
<1>2. CallTypes'
  <2>1. said' \in [Factory -> {said'[g] : g \in Factory}]
    BY DEF Typed
  <2> QED
    BY <1>1, <2>1, TypesStay DEF UseInv
<1>3. WorkInv(f)'
  BY DEF WorkInv
<1>4. at \in {"element", "close"}
  BY <1>1
<1>5. HeldInv(f)'
  BY <1>1, <1>4 DEF HeldInv, Has, Open_, CallIs
<1>6. ReplyInv(f)'
  BY <1>1, <1>4 DEF ReplyInv, CallIs, Early
<1>7. \A g \in Factory \ {f} : Seen(g)' = Seen(g)
  BY <1>1 DEF Seen, CallIs
<1> QED
  BY <1>2, <1>3, <1>5, <1>6, <1>7, OthersStay DEF StageInv

\* A nil element.
LEMMA StartNilUses == ASSUME UseInv, Typed, NEW f \in Factory, StartNil(f) PROVE Uses
<1>1. pc[f] = "idle" /\ call[f].at = "element" /\ plan' = plan /\ FetchClass(f, "null")
  BY DEF StartNil, AtStage
<1>2. PICK reader, type : call' = Opened(f, reader, type)
  BY DEF StartNil
<1>3. call[f].reply.cut # 0 /\ Len(held[f]) >= Open_(f) /\ Len(held[f]) \in Nat
  <2>1. StageInv(f) /\ held[f] \in Seq(ToSet(held[f]))
    BY DEF UseInv, Typed
  <2> QED
    BY <1>1, <2>1 DEF StageInv, ReplyInv, HeldInv, Has
<1>4. /\ Len(held'[f]) = Len(held[f]) + 1 /\ \A g \in Factory \ {f} : held'[g] = held[g]
  BY <1>1, FetchSeen DEF FetchClass
<1>5. pc' = pc /\ req' = req /\ said' = said
  BY <1>1 DEF FetchClass, callVars
<1>6. Len(held'[f]) \in Nat /\ Len(held'[f]) >= Open_(f) + 1
  BY <1>3, <1>4 DEF Open_
<1>7. UseInv'
  BY <1>1, <1>2, <1>3, <1>4, <1>5, <1>6, OpenUses
<1>8. RegistryNext
  BY <1>1 DEF RegistryNext
<1> QED
  BY <1>7, <1>8 DEF Uses

\* The factory is asked by the type of an element, or by its name.
LEMMA StartNamedUses == ASSUME UseInv, Typed, NEW f \in Factory, StartTyped(f) \/ StartNamed(f) PROVE Uses
<1>1. \A type : IsQuestion(TypeQuestion(type)) /\ TypeQuestion(type).kind # "AreEqualComTypes"
  BY DEF IsQuestion, TypeQuestion
<1>2. \A parent, name : IsQuestion(ChildQuestion(parent, name)) /\ ChildQuestion(parent, name).kind # "AreEqualComTypes"
  BY DEF IsQuestion, ChildQuestion
<1>3. CASE StartTyped(f)
  <2>1. PICK q : q = TypeQuestion(NextElement(f).type)
    OBVIOUS
  <2>2. IsQuestion(q) /\ q.kind # "AreEqualComTypes"
    BY <1>1, <2>1
  <2>3. Start(f, [kind |-> "ask", q |-> q]) /\ call' = Goto(f, "typed") /\ plan' = plan /\ call[f].at = "element"
    BY <1>3, <2>1 DEF StartTyped, AtStage
  <2> QED
    BY <2>2, <2>3, AskUses DEF Asking
<1>4. CASE StartNamed(f)
  <2>1. PICK q : q = ChildQuestion(ParentType(f), NextElement(f).name)
    OBVIOUS
  <2>2. IsQuestion(q) /\ q.kind # "AreEqualComTypes"
    BY <1>2, <2>1
  <2>3. Start(f, [kind |-> "ask", q |-> q]) /\ call' = Goto(f, "named") /\ plan' = plan /\ call[f].at = "typed"
    BY <1>4, <2>1 DEF StartNamed, AtStage
  <2> QED
    BY <2>2, <2>3, AskUses DEF Asking
<1> QED
  BY <1>3, <1>4

\* The deserializer that was found is the element's.
LEMMA OpenStepUses == ASSUME UseInv, Typed, NEW f \in Factory, Open(f) PROVE Uses
<1>1. /\ pc[f] = "idle" /\ call[f].at \in {"typed", "named"} /\ UNCHANGED <<registryVars, plan>>
      /\ said[f].a # NotFound
  BY DEF Open, AtStage
<1>2. PICK reader, type : call' = Opened(f, reader, type)
  BY DEF Open
<1>3. call[f].reply.cut # 0 /\ Len(held[f]) >= Open_(f) + 1 /\ Len(held[f]) \in Nat
  <2>1. StageInv(f) /\ held[f] \in Seq(ToSet(held[f]))
    BY DEF UseInv, Typed
  <2> QED
    BY <1>1, <2>1 DEF StageInv, ReplyInv, HeldInv, Has, Got
<1>4. pc' = pc /\ req' = req /\ said' = said /\ held' = held /\ plan' = plan
  BY <1>1 DEF registryVars
<1>5. UseInv'
  BY <1>1, <1>2, <1>3, <1>4, OpenUses
<1> QED
  BY <1>1, <1>5 DEF Uses

\* The answer is no XML.
LEMMA CutShortUses == ASSUME UseInv, Typed, NEW f \in Factory, CutShort(f) PROVE Uses
<1>1. pc[f] = "idle" /\ plan' = plan /\ UNCHANGED registryVars
  BY DEF CutShort, AtStage
<1>2. CallIs(f, "parsed", call[f].opened, call[f].reply) /\ \E S : call[f].opened \in Seq(S)
  BY GotoIs DEF CutShort, UseInv, CallTypes
<1>3. pc' = pc /\ req' = req /\ said' = said /\ held' = held
  BY <1>1 DEF registryVars
<1>4. UseInv'
  BY <1>1, <1>2, <1>3, QuietUses DEF Early
<1> QED
  BY <1>1, <1>4 DEF Uses

\* A child of the method's node ends.
LEMMA EndChildUses == ASSUME UseInv, Typed, NEW f \in Factory, EndChild(f) PROVE Uses
<1>1. pc[f] = "idle" /\ call[f].at = "close" /\ plan' = plan
  BY DEF EndChild, AtStage
<1>2. CASE call' = Fails(f, "parsed") /\ UNCHANGED registryVars
  <2>1. CallIs(f, "parsed", call[f].opened, call[f].reply) /\ \E S : call[f].opened \in Seq(S)
    BY <1>2, GotoIs DEF UseInv, CallTypes
  <2>2. pc' = pc /\ req' = req /\ said' = said /\ held' = held
    BY <1>2 DEF registryVars
  <2>3. UseInv'
    BY <1>1, <2>1, <2>2, QuietUses DEF Early
  <2> QED
    BY <1>2, <2>3 DEF Uses
<1>3. ASSUME Return(f, 2), NEW k, NEW v, call' = [Goto(f, "element") EXCEPT ![f].opened[k].value = v]
      PROVE  Uses
  <2>1. PICK s, S : s = call[f].opened /\ s \in Seq(S)
    BY DEF UseInv, CallTypes
  <2>2. PICK t, w : w = [s[k] EXCEPT !.value = v] /\ t = [s EXCEPT ![k] = w]
    OBVIOUS
  <2>3. call' = [Goto(f, "element") EXCEPT ![f].opened = t]
    BY <1>3, <2>1, <2>2 DEF UseInv, CallTypes, Goto, Fields
  <2>4. CallIs(f, "element", t, call[f].reply)
    BY <2>3 DEF UseInv, CallTypes, CallIs, Goto, Fields
  <2>5. \E T : t \in Seq(T)
    <3>1. s \in [1..Len(s) -> S] /\ Len(s) \in Nat
      BY <2>1
    <3>2. t \in [1..Len(s) -> S \cup {w}]
      BY <2>2, <3>1
    <3>3. PICK n, T : n = Len(s) /\ T = S \cup {w}
      OBVIOUS
    <3>4. t \in [1..n -> T] /\ n \in Nat
      BY <3>1, <3>2, <3>3
    <3>5. t \in Seq(T)
      BY <3>4
    <3> QED
      BY <3>5
  <2>6. call[f].reply.cut # 0 /\ Len(held[f]) >= 2 /\ Len(held[f]) \in Nat /\ 2 \in DOMAIN held[f]
    <3>1. StageInv(f) /\ held[f] \in Seq(ToSet(held[f]))
      BY DEF UseInv, Typed
    <3>2. call[f].reply.cut # 0 /\ Len(held[f]) >= 2
      BY <1>1, <3>1 DEF StageInv, ReplyInv, HeldInv, Has
    <3> QED
      BY <3>1, <3>2
  <2>7. /\ pc' = pc /\ req' = req /\ said' = said /\ Len(held'[f]) = Len(held[f]) - 1
        /\ \A g \in Factory \ {f} : held'[g] = held[g]
    BY <1>3, <2>6, ReturnSeen
  <2>8. CallTypes'
    <3>1. said' \in [Factory -> {said'[g] : g \in Factory}]
      BY <2>7 DEF Typed
    <3> QED
      BY <1>1, <2>4, <2>5, <3>1, TypesStay DEF UseInv
  <2>9. WorkInv(f)'
    BY <1>1, <2>7 DEF WorkInv
  <2>10. HeldInv(f)'
    BY <2>4, <2>6, <2>7 DEF HeldInv, Has, Open_, CallIs
  <2>11. ReplyInv(f)'
    BY <2>4, <2>6 DEF ReplyInv, CallIs, Early
  <2>12. \A g \in Factory \ {f} : Seen(g)' = Seen(g)
    BY <2>4, <2>7 DEF Seen, CallIs
  <2>13. UseInv'
    BY <2>8, <2>9, <2>10, <2>11, <2>12, OthersStay DEF StageInv
  <2>14. RegistryNext
    BY <1>3, <2>6 DEF RegistryNext
  <2> QED
    BY <2>13, <2>14 DEF Uses
<1> QED
  BY <1>2, <1>3 DEF EndChild

\* The method's node ends.
LEMMA EndRootUses == ASSUME UseInv, Typed, NEW f \in Factory, EndRoot(f) PROVE Uses
<1>1. pc[f] = "idle" /\ call[f].at = "element" /\ plan' = plan /\ Return(f, 1)
  BY DEF EndRoot, AtStage
<1>2. CallIs(f, "parsed", call[f].opened, call[f].reply) /\ \E S : call[f].opened \in Seq(S)
  BY GotoIs DEF EndRoot, UseInv, CallTypes
<1>3. 1 \in DOMAIN held[f]
  <2>1. StageInv(f) /\ held[f] \in Seq(ToSet(held[f]))
    BY DEF UseInv, Typed
  <2>2. call[f].opened # <<>>
    <3>1. Len(call[f].opened) = call[f].reply.cut /\ call[f].reply.cut # 0
      BY <1>1, <2>1 DEF EndRoot, AllOpened, StageInv, ReplyInv
    <3> QED
      BY <3>1
  <2>3. Len(held[f]) >= 1
    BY <1>1, <2>1, <2>2 DEF StageInv, HeldInv, Has, Open_
  <2> QED
    BY <2>1, <2>3
<1>4. pc' = pc /\ req' = req /\ said' = said /\ \A g \in Factory \ {f} : held'[g] = held[g]
  BY <1>1, <1>3, ReturnSeen
<1>5. UseInv'
  BY <1>1, <1>2, <1>4, QuietUses DEF Early
<1>6. RegistryNext
  BY <1>1, <1>3 DEF RegistryNext
<1> QED
  BY <1>5, <1>6 DEF Uses

\* The parser is done, and the pool is emptied.
LEMMA ResetPoolUses == ASSUME UseInv, Typed, NEW f \in Factory, ResetPool(f) PROVE Uses
<1>1. pc[f] = "idle" /\ plan' = plan /\ ClearPool(f)
  BY DEF ResetPool, AtStage
<1>2. CallIs(f, "leave", call[f].opened, call[f].reply) /\ \E S : call[f].opened \in Seq(S)
  BY GotoIs DEF ResetPool, UseInv, CallTypes
<1>3. pc' = pc /\ req' = req /\ said' = said /\ held' = held
  BY <1>1 DEF ClearPool, callVars
<1>4. UseInv'
  BY <1>1, <1>2, <1>3, QuietUses DEF Early
<1>5. RegistryNext
  BY <1>1 DEF RegistryNext
<1> QED
  BY <1>4, <1>5 DEF Uses

\* What is still held is dropped at the end of a call, and of get_ValueAs.
LEMMA EndUses ==
    ASSUME UseInv, Typed, NEW f \in Factory, NEW at \in {"as", "over"}, Drop(f), plan' = plan,
           CallIs(f, at, call[f].opened, call[f].reply)
    PROVE  Uses
<1>1. pc[f] = "idle"
  BY DEF Drop
<1>2. \E S : call[f].opened \in Seq(S)
  BY DEF UseInv, CallTypes
<1>3. pc' = pc /\ req' = req /\ said' = said /\ \A g \in Factory \ {f} : held'[g] = held[g]
  BY DropSeen
<1>4. UseInv'
  BY <1>1, <1>2, <1>3, QuietUses DEF Early
<1>5. RegistryNext
  BY DEF RegistryNext
<1> QED
  BY <1>4, <1>5 DEF Uses

\* Parse returns.
LEMMA LeaveUses == ASSUME UseInv, Typed, NEW f \in Factory, Leave(f) PROVE Uses
<1>1. Drop(f) /\ plan' = plan
  BY SMTT(30) DEF Leave
<1>2. PICK at \in {"as", "over"} : \E o : call' = [Goto(f, at) EXCEPT ![f].outcome = o]
  BY DEF Leave
<1>3. CallIs(f, at, call[f].opened, call[f].reply)
  <2>0. CallTypes
    BY DEF UseInv
  <2>1. PICK o : call' = [Goto(f, at) EXCEPT ![f].outcome = o]
    BY <1>2
  <2>2. PICK c : c = [call[f] EXCEPT !.at = at, !.outcome = o]
    OBVIOUS
  <2>3. DOMAIN call = Factory /\ DOMAIN call[f] = Fields
    BY <2>0 DEF CallTypes
  <2>4. call' = [call EXCEPT ![f] = c]
    BY <2>1, <2>2, <2>3 DEF Goto, Fields
  <2>5. DOMAIN c = Fields /\ c.at = at /\ c.opened = call[f].opened /\ c.reply = call[f].reply
    BY <2>2, <2>3 DEF Fields
  <2> QED
    BY <2>0, <2>4, <2>5, UpdateIs
<1> QED
  BY <1>1, <1>3, EndUses

\* get_ValueAs.
LEMMA ValueAsUses == ASSUME UseInv, Typed, NEW f \in Factory, ValueAs(f) PROVE Uses
<1>1. CASE TakeAsIs(f)
  <2>1. pc[f] = "idle" /\ plan' = plan /\ UNCHANGED registryVars
    BY <1>1 DEF TakeAsIs, AtStage
  <2>2. CallIs(f, "over", call[f].opened, call[f].reply) /\ \E S : call[f].opened \in Seq(S)
    BY <1>1, GotoIs DEF TakeAsIs, UseInv, CallTypes
  <2>3. pc' = pc /\ req' = req /\ said' = said /\ held' = held
    BY <2>1 DEF registryVars
  <2>4. UseInv'
    BY <2>1, <2>2, <2>3, QuietUses DEF Early
  <2> QED
    BY <2>1, <2>4 DEF Uses
<1>2. CASE AskAs(f)
  <2>1. PICK q : q = TypeQuestion(call[f].message.label)
    OBVIOUS
  <2>2. IsQuestion(q) /\ q.kind # "AreEqualComTypes"
    BY <2>1 DEF IsQuestion, TypeQuestion
  <2>3. Start(f, [kind |-> "ask", q |-> q]) /\ call' = Goto(f, "asRead") /\ plan' = plan
    BY <1>2, <2>1 DEF AskAs
  <2> QED
    BY <2>2, <2>3, AskUses DEF Asking
<1>3. CASE ReadAs(f)
  <2>1. Drop(f) /\ plan' = plan
    BY <1>3 DEF ReadAs
  <2>2. PICK o : call' = [Goto(f, "over") EXCEPT ![f].outcome = o]
    <3>1. PICK v : call' = [Goto(f, "over") EXCEPT ![f].outcome.value = IF v = Failed THEN @ ELSE v]
      BY <1>3 DEF ReadAs
    <3>2. PICK o : o = [call[f].outcome EXCEPT !.value = IF v = Failed THEN @ ELSE v]
      OBVIOUS
    <3> QED
      BY <3>1, <3>2 DEF UseInv, CallTypes, Goto, Fields
  <2>3. CallIs(f, "over", call[f].opened, call[f].reply)
    BY <2>2 DEF UseInv, CallTypes, CallIs, Goto, Fields
  <2> QED
    BY <2>1, <2>3, EndUses
<1> QED
  BY <1>1, <1>2, <1>3 DEF ValueAs

\* The next round begins.
LEMMA NextRoundUses == ASSUME UseInv, Typed, NEW f \in Factory, NextRound(f) PROVE Uses
<1>1. pc[f] = "idle" /\ plan' = plan
  BY DEF NextRound, AtStage
<1>2. CallIs(f, "tune", <<>>, NoReply)
  <2>1. PICK round, envelope : call' = [call EXCEPT ![f] = NewCall(round, envelope)]
    BY DEF NextRound
  <2>2. /\ DOMAIN NewCall(round, envelope) = Fields /\ NewCall(round, envelope).at = "tune"
        /\ NewCall(round, envelope).opened = <<>> /\ NewCall(round, envelope).reply = NoReply
    BY DEF NewCall, Fields
  <2>3. PICK c : c = NewCall(round, envelope)
    OBVIOUS
  <2> QED
    BY <2>1, <2>2, <2>3, UpdateIs DEF UseInv
<1>3. \E S : <<>> \in Seq(S)
  OBVIOUS
<1>4. CASE UNCHANGED registryVars
  <2>1. pc' = pc /\ req' = req /\ said' = said /\ held' = held
    BY <1>4 DEF registryVars
  <2>2. UseInv'
    BY <1>1, <1>2, <1>3, <2>1, QuietUses DEF Early
  <2> QED
    BY <1>4, <2>2 DEF Uses
<1>5. CASE Replace(f)
  <2>1. /\ pc' = pc /\ req' = req /\ said' \in [Factory -> {said'[g] : g \in Factory}]
        /\ \A g \in Factory \ {f} : said'[g] = said[g] /\ held'[g] = held[g]
    BY <1>5 DEF Replace, callVars, Typed
  <2>2. CallTypes'
    BY <1>1, <1>2, <1>3, <2>1, TypesStay DEF UseInv
  <2>3. StageInv(f)'
    BY <1>1, <1>2, <2>1 DEF StageInv, WorkInv, HeldInv, ReplyInv, CallIs, Early
  <2>4. \A g \in Factory \ {f} : Seen(g)' = Seen(g)
    BY <1>2, <2>1 DEF Seen, CallIs
  <2>5. RegistryNext
    BY <1>5 DEF RegistryNext
  <2> QED
    BY <2>2, <2>3, <2>4, <2>5, OthersStay DEF Uses
<1> QED
  BY <1>4, <1>5 DEF NextRound
-----------------------------------------------------------------------------
(* The factories are used as TypeRegistry says.                            *)

\* The calls begin with nothing.
LEMMA UseInvInit == Init => UseInv
<1>1. SUFFICES ASSUME Init PROVE UseInv
  OBVIOUS
<1>2. plan \in Scenarios /\ call = [f \in Factory |-> NewCall(1, NewEnvelope)]
  BY <1>1 DEF Init
<1>3. pc = [f \in Factory |-> "idle"] /\ said \in [Factory -> {said[f] : f \in Factory}]
  BY <1>1 DEF Init, RegistryInit
<1>4. ASSUME NEW f \in Factory
      PROVE  /\ DOMAIN call[f] = Fields /\ call[f].at = "tune" /\ call[f].opened = <<>> /\ call[f].reply = NoReply
             /\ pc[f] = "idle"
  BY <1>2, <1>3 DEF NewCall, Fields
<1>5. \E S : <<>> \in Seq(S)
  OBVIOUS
<1>6. CallTypes
  BY <1>2, <1>3, <1>4, <1>5 DEF CallTypes
<1>7. ASSUME NEW f \in Factory PROVE StageInv(f)
  BY <1>4 DEF StageInv, WorkInv, HeldInv, ReplyInv, Early
<1> QED
  BY <1>6, <1>7 DEF UseInv

\* Every step of a call is one of the factory's, or none.
LEMMA NextUses ==
    ASSUME UseInv, RegistryInv, PoolInv, [Next]_vars
    PROVE  Uses
<1>1. Typed
  BY TypedIs DEF UseInv
<1>2. CASE UNCHANGED vars
  BY <1>2 DEF vars, registryVars, callVars, poolVars, sharedVars, Uses, UseInv, CallTypes, StageInv, WorkInv,
              HeldInv, ReplyInv, Has, Got, Open_
<1>3. ASSUME NEW f \in Factory, Work(f) /\ UNCHANGED callStateVars PROVE Uses
  BY <1>1, <1>3, WorkUses
<1>4. ASSUME NEW f \in Factory, Tune(f) \/ Begin(f) PROVE Uses
  BY <1>1, <1>4, TuneUses, BeginUses
<1>5. ASSUME NEW f \in Factory, Write(f) PROVE Uses
  BY <1>1, <1>5, WriteRootUses, AskRootUses, WriteValueUses, CannotWriteUses, ReturnWrittenUses DEF Write
<1>6. ASSUME NEW f \in Factory, Send(f) \/ SendTcp(f) \/ Serve(f) \/ Receive(f) PROVE Uses
  BY <1>1, <1>6, SendUses, SendTcpUses, ServeUses, ReceiveUses
<1>7. ASSUME NEW f \in Factory, StartElement(f) PROVE Uses
  BY <1>1, <1>7, StartNilUses, StartNamedUses, OpenStepUses, CutShortUses DEF StartElement
<1>8. ASSUME NEW f \in Factory, EndElement(f) PROVE Uses
  BY <1>1, <1>8, EndChildUses, EndRootUses DEF EndElement
<1>9. ASSUME NEW f \in Factory, ResetPool(f) \/ Leave(f) \/ ValueAs(f) \/ NextRound(f) PROVE Uses
  BY <1>1, <1>9, ResetPoolUses, LeaveUses, ValueAsUses, NextRoundUses
<1> QED
  BY <1>2, <1>3, <1>4, <1>5, <1>6, <1>7, <1>8, <1>9 DEF Next

\* The calls of the threads drive the registry as its specification says: what no application may do
\* with a factory (a second call during a call, an addition that is no addition, a serializer returned
\* that it has not) the envelopes and parsers do not do either.
THEOREM CallsUseRegistry == Spec => RegistrySpec
<1>1. Init => UseInv /\ RegistryInv /\ PoolInv /\ RegistryInit
  BY UseInvInit, RegistryInvInit, PoolInvInit DEF Init
<1>2. UseInv /\ RegistryInv /\ PoolInv /\ [Next]_vars => UseInv' /\ RegistryInv' /\ PoolInv' /\ [RegistryNext]_registryVars
  BY NextUses, RegistryInvStep, PoolInvStep DEF Uses
<1> QED
  BY <1>1, <1>2, PTL DEF Spec, RegistrySpec

\* In whole calls too, a serializer that the pool would hand out is nobody's, in no other pool, and
\* an object of the class it is pooled under.
THEOREM OneOwnerInCalls == Spec => []OneOwner
BY CallsUseRegistry, OneOwnerEach, PTL

\* And every answer a writer or a parser gets is the answer of a factory that the thread has for itself.
THEOREM CallsImplementRegistry == Spec => ImplementsRegistry
BY CallsUseRegistry, RegistryImplemented, PTL
-----------------------------------------------------------------------------
(* The requests are labelled as what they are.  Their headers are made     *)
(* before the envelope is written, so that they have to stay right while   *)
(* it is: from Send to the server the version does not change.             *)

\* The stages of a stream that is sent, from its headers on
Labelling == {"make", "root", "value", "write", "written", "server"}
Headers == {"type", "parameter", "soapAction", "action", "actionSet"}
EnvelopeFields == {"soap12", "made", "prefixes"}

LabelIs(h, soap12) ==
    IF soap12
    THEN /\ h.type = "application/soap+xml"
         /\ h.soapAction = NoHeader
         /\ h.parameter = IF h.actionSet THEN h.action ELSE NoHeader
    ELSE h.type = "text/xml" /\ h.parameter = NoHeader /\ h.soapAction = h.action

LabelInv(f) ==
    /\ DOMAIN http[f] = Headers
    /\ DOMAIN call[f].envelope = EnvelopeFields
    /\ This(f).via = "stream" /\ call[f].at \in Labelling => LabelIs(http[f], call[f].envelope.soap12)
    /\ This(f).via = "stream" /\ call[f].at \in {"written", "server"} =>
          call[f].message.soap12 = call[f].envelope.soap12
LabelsInv == http \in [Factory -> {http[f] : f \in Factory}] /\ \A f \in Factory : LabelInv(f)

\* What Send makes of the headers.
LEMMA LabelsAre ==
    ASSUME NEW h, DOMAIN h = Headers, NEW isEnvelope, NEW soap12
    PROVE  /\ DOMAIN Labels(h, isEnvelope, soap12) = Headers
           /\ isEnvelope = TRUE => LabelIs(Labels(h, isEnvelope, soap12), soap12)
<1>1. CASE isEnvelope /\ soap12
  <2>1. PICK p, t : /\ p = (IF h.actionSet THEN h.action ELSE NoHeader)
                    /\ t = [h EXCEPT !.type = "application/soap+xml", !.parameter = p]
    OBVIOUS
  <2>2. Labels(h, isEnvelope, soap12) = [t EXCEPT !.soapAction = NoHeader]
    BY <1>1, <2>1 DEF Labels, ClearSoapAction
  <2> QED
    BY <1>1, <2>1, <2>2 DEF Headers, LabelIs
<1>2. CASE ~(isEnvelope /\ soap12)
  <2>1. PICK t : t = [h EXCEPT !.type = "text/xml", !.parameter = NoHeader]
    OBVIOUS
  <2>2. Labels(h, isEnvelope, soap12) = [t EXCEPT !.soapAction = t.action]
    BY <1>2, <2>1 DEF Labels, SetSoapAction
  <2> QED
    BY <1>2, <2>1, <2>2 DEF Headers, LabelIs
<1> QED
  BY <1>1, <1>2

\* A step of one thread labels nothing of another's.
LEMMA LabelStep ==
    ASSUME LabelsInv, NEW f \in Factory, plan' = plan, LabelInv(f)',
           http' \in [Factory -> {http'[g] : g \in Factory}],
           \A g \in Factory \ {f} : call'[g] = call[g] /\ http'[g] = http[g]
    PROVE  LabelsInv'
<1>1. ASSUME NEW g \in Factory \ {f} PROVE LabelInv(g)'
  <2>1. LabelInv(g) /\ call'[g] = call[g] /\ http'[g] = http[g]
    BY DEF LabelsInv
  <2> QED
    BY <2>1 DEF LabelInv, This
<1> QED
  BY <1>1 DEF LabelsInv

\* Where no stream is on its way, there is nothing to label.
LEMMA AwayStep ==
    ASSUME LabelsInv, NEW f \in Factory, plan' = plan, http' = http,
           DOMAIN call'[f].envelope = EnvelopeFields,
           call'[f].at \notin Labelling \/ This(f)'.via # "stream",
           \A g \in Factory \ {f} : call'[g] = call[g]
    PROVE  LabelsInv'
<1>1. LabelInv(f)'
  BY DEF LabelsInv, LabelInv, Labelling
<1> QED
  BY <1>1, LabelStep DEF LabelsInv

\* What the next stage leaves alone.
LEMMA GotoKeeps ==
    ASSUME CallTypes, NEW f \in Factory, NEW stage, call' = Goto(f, stage) \/ call' = Fails(f, stage)
    PROVE  /\ call'[f].at = stage /\ call'[f].envelope = call[f].envelope /\ call'[f].message = call[f].message
           /\ call'[f].round = call[f].round /\ \A g \in Factory \ {f} : call'[g] = call[g]
BY DEF CallTypes, Goto, Fails, Fields

\* The next stage of a stream that is labelled, and of a call that is none.
LEMMA GotoLabels ==
    ASSUME CallTypes, LabelsInv, NEW f \in Factory, NEW stage, call' = Goto(f, stage) \/ call' = Fails(f, stage),
           plan' = plan, http' = http,
           \/ stage \notin Labelling
           \/ This(f).via # "stream"
           \/ call[f].at \in Labelling /\ (stage = "server" => call[f].at = "written") /\ stage # "written"
    PROVE  LabelsInv'
<1>1. /\ call'[f].at = stage /\ call'[f].envelope = call[f].envelope /\ call'[f].message = call[f].message
      /\ call'[f].round = call[f].round /\ \A g \in Factory \ {f} : call'[g] = call[g]
  BY GotoKeeps
<1>2. LabelInv(f) /\ This(f)' = This(f)
  BY <1>1 DEF LabelsInv, This
<1>3. LabelInv(f)'
  BY <1>1, <1>2, SMTT(30) DEF LabelInv, Labelling
<1> QED
  BY <1>1, <1>3, LabelStep DEF LabelsInv

\* The settings come before the request.
LEMMA TuneLabels == ASSUME CallTypes, LabelsInv, NEW f \in Factory, Tune(f) PROVE LabelsInv'
<1> DEFINE tune == This(f).tunes[call[f].k]
<1>1. call[f].at = "tune" /\ plan' = plan
  BY DEF Tune, AtStage
<1>2. LabelInv(f)
  BY DEF LabelsInv
<1>3. /\ call'[f].at = "tune" /\ DOMAIN call'[f].envelope = EnvelopeFields
      /\ \A g \in Factory \ {f} : call'[g] = call[g]
  <2>1. PICK t : t = [call EXCEPT ![f].k = @ + 1]
    OBVIOUS
  <2>2. /\ t \in [Factory -> {t[g] : g \in Factory}] /\ \A g \in Factory \ {f} : t[g] = call[g]
        /\ DOMAIN t[f] = Fields /\ t[f].at = "tune" /\ DOMAIN t[f].envelope = EnvelopeFields
    BY <1>1, <1>2, <2>1 DEF CallTypes, LabelInv, Fields
  <2>3. CASE call' = t
    BY <2>2, <2>3
  <2>4. ASSUME NEW e, DOMAIN e = EnvelopeFields, call' = [t EXCEPT ![f].envelope = e] PROVE <1>3!:
    BY <2>2, <2>4 DEF Fields
  <2>5. \/ call' = t
        \/ call' = [t EXCEPT ![f].envelope = [@ EXCEPT !.soap12 = tune.soap12]]
        \/ call' = [t EXCEPT ![f].envelope = [@ EXCEPT !.prefixes = WithPrefix(@, tune.uri, tune.prefix)]]
        \/ call' = [t EXCEPT ![f].envelope = [@ EXCEPT !.made = TRUE]]
    BY <2>1 DEF Tune
  <2>6. PICK e : DOMAIN e = EnvelopeFields /\ (call' = t \/ call' = [t EXCEPT ![f].envelope = e])
    BY <2>2, <2>5
  <2> QED
    BY <2>3, <2>4, <2>6
<1>4. CASE http' = http
  BY <1>1, <1>3, <1>4, AwayStep DEF Labelling
<1>5. CASE http' = [http EXCEPT ![f] = PutSoapAction(@, tune.action)]
  <2>1. PICK a : http' = [http EXCEPT ![f] = [@ EXCEPT !.action = a, !.actionSet = TRUE]]
    BY <1>5 DEF PutSoapAction
  <2>2. DOMAIN http'[f] = Headers /\ \A g \in Factory \ {f} : http'[g] = http[g]
    BY <1>2, <2>1 DEF LabelsInv, LabelInv
  <2>3. http' \in [Factory -> {http'[g] : g \in Factory}]
    BY <2>1 DEF LabelsInv
  <2>4. LabelInv(f)'
    BY <1>3, <2>2 DEF LabelInv, Labelling
  <2> QED
    BY <1>1, <1>3, <2>2, <2>3, <2>4, LabelStep
<1> QED
  BY <1>4, <1>5 DEF Tune

\* The envelope is begun.
LEMMA WriteRootLabels == ASSUME CallTypes, LabelsInv, NEW f \in Factory, WriteRoot(f) PROVE LabelsInv'
<1>1. call[f].at = "make" /\ plan' = plan /\ http' = http
  BY DEF WriteRoot, AtStage
<1>2. LabelInv(f)
  BY DEF LabelsInv
<1>3. PICK p : call' = [Goto(f, "root") EXCEPT ![f].envelope.made = TRUE, ![f].envelope.prefixes = p]
  <2>1. PICK env : call' = [Goto(f, "root") EXCEPT
                  ![f].envelope.made = TRUE,
                  ![f].envelope.prefixes = Prefixed(Prefixed(@, env), MethodName[2])]
    BY DEF WriteRoot
  <2> QED
    BY <2>1 DEF CallTypes, Goto, Fields
<1>4. /\ call'[f].at = "root" /\ call'[f].round = call[f].round
      /\ call'[f].envelope = [call[f].envelope EXCEPT !.made = TRUE, !.prefixes = p]
      /\ \A g \in Factory \ {f} : call'[g] = call[g]
  <2>1. PICK e : e = [call[f].envelope EXCEPT !.made = TRUE, !.prefixes = p]
    OBVIOUS
  <2>2. call' = [Goto(f, "root") EXCEPT ![f].envelope = e]
    BY <1>3, <2>1 DEF CallTypes, Goto, Fields
  <2> QED
    BY <2>1, <2>2 DEF CallTypes, Goto, Fields
<1>5. DOMAIN call'[f].envelope = EnvelopeFields /\ call'[f].envelope.soap12 = call[f].envelope.soap12
  BY <1>2, <1>4 DEF LabelInv, EnvelopeFields
<1>6. LabelInv(f)'
  BY <1>1, <1>2, <1>4, <1>5 DEF LabelInv, Labelling, This
<1> QED
  BY <1>1, <1>4, <1>6, LabelStep DEF LabelsInv

\* The value is written, and the message is of the envelope's version.
LEMMA WriteValueLabels == ASSUME CallTypes, LabelsInv, NEW f \in Factory, WriteValue(f) PROVE LabelsInv'
<1>1. call[f].at = "write" /\ plan' = plan /\ http' = http
  BY DEF WriteValue, AtStage
<1>2. LabelInv(f)
  BY DEF LabelsInv
<1>3. PICK p, m : /\ call' = [Goto(f, "written") EXCEPT ![f].envelope.prefixes = p, ![f].message = m]
                  /\ m.soap12 = call[f].envelope.soap12
  <2>1. PICK p, label, nil, text, prefixes :
           call' = [Goto(f, "written") EXCEPT ![f].envelope.prefixes = p,
                        ![f].message = Message(call[f].envelope.soap12, label, nil, text, prefixes)]
    BY DEF WriteValue
  <2>2. PICK m : m = Message(call[f].envelope.soap12, label, nil, text, prefixes)
    OBVIOUS
  <2>3. m.soap12 = call[f].envelope.soap12
    BY <2>2 DEF Message
  <2> QED
    BY <2>1, <2>2, <2>3
<1>4. /\ call'[f].at = "written" /\ call'[f].round = call[f].round /\ call'[f].message = m
      /\ call'[f].envelope = [call[f].envelope EXCEPT !.prefixes = p]
      /\ \A g \in Factory \ {f} : call'[g] = call[g]
  BY <1>3 DEF CallTypes, Goto, Fields
<1>5. DOMAIN call'[f].envelope = EnvelopeFields /\ call'[f].envelope.soap12 = call[f].envelope.soap12
  BY <1>2, <1>4 DEF LabelInv, EnvelopeFields
<1>6. LabelInv(f)'
  BY <1>1, <1>2, <1>3, <1>4, <1>5 DEF LabelInv, Labelling, This
<1> QED
  BY <1>1, <1>4, <1>6, LabelStep DEF LabelsInv

\* The rest of what is written.
LEMMA WriteLabels == ASSUME CallTypes, LabelsInv, NEW f \in Factory, Write(f) PROVE LabelsInv'
<1>1. CASE AskRoot(f)
  BY <1>1, GotoLabels DEF AskRoot, AtStage, Labelling
<1>2. CASE AskValue(f)
  BY <1>2, GotoLabels DEF AskValue, AtStage, Labelling
<1>3. CASE CannotWrite(f)
  <2>1. PICK stage \in {"send", "over"} : call' = Goto(f, stage) \/ call' = Fails(f, stage)
    BY <1>3 DEF CannotWrite
  <2> QED
    BY <1>3, <2>1, GotoLabels DEF CannotWrite, Labelling
<1>4. CASE ReturnWritten(f)
  <2>1. call[f].at = "written" /\ plan' = plan /\ http' = http
    BY <1>4 DEF ReturnWritten, AtStage
  <2>2. CASE call' = call
    BY <2>1, <2>2 DEF LabelsInv, LabelInv, This
  <2>3. CASE call' = Goto(f, "server")
    BY <2>1, <2>3, GotoLabels DEF Labelling
  <2>4. CASE call' = Goto(f, "send")
    BY <2>1, <2>4, GotoLabels DEF Labelling
  <2> QED
    BY <1>4, <2>2, <2>3, <2>4 DEF ReturnWritten
<1> QED
  BY <1>1, <1>2, <1>3, <1>4, WriteRootLabels, WriteValueLabels DEF Write

\* Send makes the labels.
LEMMA SendLabels == ASSUME CallTypes, LabelsInv, NEW f \in Factory, Send(f) PROVE LabelsInv'
<1>1. PICK via, soap12, before :
         /\ via = This(f).via /\ soap12 = call[f].envelope.soap12
         /\ before = (IF via = "proxy" THEN PutSoapAction(http[f], "expanded") ELSE http[f])
  OBVIOUS
<1>2. /\ plan' = plan /\ http' = [http EXCEPT ![f] = Labels(before, via = "stream", soap12)]
      /\ \E m : call' = [call EXCEPT ![f].at = IF via = "stream" THEN "make" ELSE "server", ![f].message = m]
  BY <1>1 DEF Send
<1>3. LabelInv(f)
  BY DEF LabelsInv
<1>4. DOMAIN before = Headers
  BY <1>1, <1>3 DEF LabelInv, PutSoapAction
<1>5. PICK h : h = Labels(before, via = "stream", soap12)
  OBVIOUS
<1>6. DOMAIN h = Headers /\ (via = "stream" => LabelIs(h, soap12))
  BY <1>4, <1>5, LabelsAre
<1>7. /\ http'[f] = h /\ http' \in [Factory -> {http'[g] : g \in Factory}]
      /\ \A g \in Factory \ {f} : http'[g] = http[g]
  BY <1>2, <1>5 DEF LabelsInv
<1>8. /\ call'[f].at = (IF via = "stream" THEN "make" ELSE "server") /\ call'[f].round = call[f].round
      /\ call'[f].envelope = call[f].envelope /\ \A g \in Factory \ {f} : call'[g] = call[g]
  BY <1>2 DEF CallTypes, Fields
<1>9. This(f)' = This(f)
  BY <1>2, <1>8 DEF This
<1>10. LabelInv(f)'
  BY <1>1, <1>3, <1>6, <1>7, <1>8, <1>9 DEF LabelInv, Labelling
<1> QED
  BY <1>2, <1>7, <1>8, <1>10, LabelStep

\* The request goes out, and is answered.
LEMMA ServerLabels ==
    ASSUME CallTypes, LabelsInv, NEW f \in Factory, SendTcp(f) \/ Serve(f) \/ Receive(f) PROVE LabelsInv'
<1>1. plan' = plan /\ http' = http
  BY DEF SendTcp, Serve, Receive
<1>2. LabelInv(f)
  BY DEF LabelsInv
<1>3. CASE SendTcp(f) /\ call' # [Goto(f, "receive") EXCEPT ![f].reply.kind = "page"]
  <2>1. PICK stage \in {"over", "server"} : call' = Goto(f, stage) \/ call' = Fails(f, stage)
    BY <1>3 DEF SendTcp
  <2>2. This(f).via # "stream"
    BY <1>3 DEF SendTcp
  <2> QED
    BY <1>1, <2>1, <2>2, GotoLabels
<1>4. ASSUME NEW r, call' = [Goto(f, "receive") EXCEPT ![f].reply = r] PROVE LabelsInv'
  <2>1. /\ call'[f].at = "receive" /\ call'[f].envelope = call[f].envelope
        /\ \A g \in Factory \ {f} : call'[g] = call[g]
    BY <1>4 DEF CallTypes, Goto, Fields
  <2> QED
    BY <1>1, <1>2, <2>1, AwayStep DEF LabelInv, Labelling
<1>5. CASE call' = [Goto(f, "receive") EXCEPT ![f].reply.kind = "page"]
  <2>1. PICK r : r = [call[f].reply EXCEPT !.kind = "page"]
    OBVIOUS
  <2>2. call' = [Goto(f, "receive") EXCEPT ![f].reply = r]
    BY <1>5, <2>1 DEF CallTypes, Goto, Fields
  <2> QED
    BY <1>4, <2>2
<1>6. CASE Serve(f)
  BY <1>4, <1>6 DEF Serve
<1>7. CASE Receive(f) /\ call' = Fails(f, "leave")
  BY <1>1, <1>7, GotoLabels DEF Labelling
<1>8. ASSUME NEW s, call' = [Goto(f, "element") EXCEPT ![f].envelope.soap12 = s, ![f].envelope.made = TRUE]
      PROVE  LabelsInv'
  <2>1. PICK e : e = [call[f].envelope EXCEPT !.soap12 = s, !.made = TRUE]
    OBVIOUS
  <2>2. call' = [Goto(f, "element") EXCEPT ![f].envelope = e]
    BY <1>8, <2>1 DEF CallTypes, Goto, Fields
  <2>3. DOMAIN e = EnvelopeFields
    BY <1>2, <2>1 DEF LabelInv
  <2>4. /\ call'[f].at = "element" /\ call'[f].envelope = e /\ \A g \in Factory \ {f} : call'[g] = call[g]
    BY <2>2 DEF CallTypes, Goto, Fields
  <2> QED
    BY <1>1, <2>3, <2>4, AwayStep DEF Labelling
<1> QED
  BY <1>3, <1>5, <1>6, <1>7, <1>8 DEF Receive

\* Nothing that follows the answer is labelled.
LEMMA ReadLabels ==
    ASSUME CallTypes, LabelsInv, NEW f \in Factory, plan' = plan, http' = http,
           NEW at, at \notin Labelling, call'[f].at = at, call'[f].envelope = call[f].envelope,
           \A g \in Factory \ {f} : call'[g] = call[g]
    PROVE  LabelsInv'
<1>1. LabelInv(f)
  BY DEF LabelsInv
<1> QED
  BY <1>1, AwayStep DEF LabelInv

\* The parser leaves the envelope's version alone.
LEMMA ParseLabels ==
    ASSUME CallTypes, LabelsInv, NEW f \in Factory, StartElement(f) \/ EndElement(f) \/ ResetPool(f)
    PROVE  LabelsInv'
<1>1. plan' = plan /\ http' = http
  BY DEF StartElement, StartNil, StartTyped, StartNamed, Open, CutShort, EndElement, EndChild, EndRoot, ResetPool
<1>2. CASE StartNil(f) \/ Open(f)
  <2>1. PICK reader, type : call' = Opened(f, reader, type)
    BY <1>2 DEF StartNil, Open
  <2>2. PICK x, at : /\ at \in {"element", "close"}
                     /\ call' = [call EXCEPT ![f].opened = Append(@, x), ![f].at = at]
    BY <2>1 DEF Opened
  <2>3. call'[f].at = at /\ call'[f].envelope = call[f].envelope /\ \A g \in Factory \ {f} : call'[g] = call[g]
    BY <2>2 DEF CallTypes, Fields
  <2> QED
    BY <1>1, <2>2, <2>3, ReadLabels DEF Labelling
<1>3. CASE StartTyped(f) \/ StartNamed(f) \/ CutShort(f) \/ EndRoot(f) \/ ResetPool(f)
  <2>1. PICK stage \in {"typed", "named", "parsed", "leave"} : call' = Goto(f, stage) \/ call' = Fails(f, stage)
    BY <1>3, SMTT(30) DEF StartTyped, StartNamed, CutShort, EndRoot, ResetPool
  <2> QED
    BY <1>1, <2>1, GotoLabels DEF Labelling
<1>4. CASE EndChild(f)
  <2>1. CASE call' = Fails(f, "parsed")
    BY <1>1, <2>1, GotoLabels DEF Labelling
  <2>2. ASSUME NEW k, NEW v, call' = [Goto(f, "element") EXCEPT ![f].opened[k].value = v] PROVE LabelsInv'
    <3>1. PICK t : t = [call[f].opened EXCEPT ![k].value = v]
      OBVIOUS
    <3>2. call' = [Goto(f, "element") EXCEPT ![f].opened = t]
      BY <2>2, <3>1 DEF CallTypes, Goto, Fields
    <3>3. /\ call'[f].at = "element" /\ call'[f].envelope = call[f].envelope
          /\ \A g \in Factory \ {f} : call'[g] = call[g]
      BY <3>2 DEF CallTypes, Goto, Fields
    <3> QED
      BY <1>1, <3>3, ReadLabels DEF Labelling
  <2> QED
    BY <1>4, <2>1, <2>2 DEF EndChild
<1> QED
  BY <1>2, <1>3, <1>4, SMTT(30) DEF StartElement, EndElement

\* And so does what follows it.
LEMMA LeaveLabels ==
    ASSUME CallTypes, LabelsInv, NEW f \in Factory, Leave(f) \/ ValueAs(f)
    PROVE  LabelsInv'
<1>1. plan' = plan /\ http' = http
  BY DEF Leave, ValueAs, TakeAsIs, AskAs, ReadAs
<1>2. CASE TakeAsIs(f) \/ AskAs(f)
  <2>1. PICK stage \in {"over", "asRead"} : call' = Goto(f, stage)
    BY <1>2 DEF TakeAsIs, AskAs
  <2> QED
    BY <1>1, <2>1, GotoLabels DEF Labelling
<1>3. ASSUME NEW at \in {"as", "over"}, NEW o, call' = [Goto(f, at) EXCEPT ![f].outcome = o] PROVE LabelsInv'
  <2>1. call'[f].at = at /\ call'[f].envelope = call[f].envelope /\ \A g \in Factory \ {f} : call'[g] = call[g]
    BY <1>3 DEF CallTypes, Goto, Fields
  <2> QED
    BY <1>1, <2>1, ReadLabels DEF Labelling
<1>4. CASE Leave(f)
  <2>1. \E at \in {"as", "over"} : \E o : call' = [Goto(f, at) EXCEPT ![f].outcome = o]
    BY <1>4 DEF Leave
  <2> QED
    BY <1>3, <2>1
<1>5. CASE ReadAs(f)
  <2>1. PICK v : call' = [Goto(f, "over") EXCEPT ![f].outcome.value = IF v = Failed THEN @ ELSE v]
    BY <1>5 DEF ReadAs
  <2>2. PICK o : o = [call[f].outcome EXCEPT !.value = IF v = Failed THEN @ ELSE v]
    OBVIOUS
  <2>3. call' = [Goto(f, "over") EXCEPT ![f].outcome = o]
    BY <2>1, <2>2 DEF CallTypes, Goto, Fields
  <2> QED
    BY <1>3, <2>3
<1> QED
  BY <1>2, <1>4, <1>5, SMTT(30) DEF ValueAs

\* The next call has its own headers, or those of the last one, to be made anew.
LEMMA NextRoundLabels == ASSUME CallTypes, LabelsInv, NEW f \in Factory, NextRound(f) PROVE LabelsInv'
<1>1. plan' = plan /\ LabelInv(f)
  BY DEF NextRound, LabelsInv
<1>2. PICK round, envelope : /\ envelope \in {NewEnvelope, call[f].envelope}
                             /\ call' = [call EXCEPT ![f] = NewCall(round, envelope)]
  BY DEF NextRound
<1>3. DOMAIN envelope = EnvelopeFields
  BY <1>1, <1>2 DEF LabelInv, NewEnvelope, EnvelopeFields
<1>4. /\ call'[f].at = "tune" /\ call'[f].envelope = envelope /\ \A g \in Factory \ {f} : call'[g] = call[g]
  BY <1>2 DEF CallTypes, NewCall
<1>5. PICK h : h \in {NewTransport, http[f]} /\ http' = [http EXCEPT ![f] = h]
  BY DEF NextRound
<1>6. DOMAIN h = Headers
  BY <1>1, <1>5 DEF LabelInv, NewTransport, Headers
<1>7. /\ http'[f] = h /\ http' \in [Factory -> {http'[g] : g \in Factory}]
      /\ \A g \in Factory \ {f} : http'[g] = http[g]
  BY <1>5 DEF LabelsInv
<1>8. LabelInv(f)'
  BY <1>3, <1>4, <1>6, <1>7 DEF LabelInv, Labelling
<1> QED
  BY <1>1, <1>4, <1>7, <1>8, LabelStep

\* The labels stay right.
LEMMA LabelsInvStep == ASSUME CallTypes, LabelsInv, [Next]_vars PROVE LabelsInv'
<1>1. CASE UNCHANGED vars
  BY <1>1 DEF vars, LabelsInv, LabelInv, This
<1>2. ASSUME NEW f \in Factory, UNCHANGED callStateVars PROVE LabelsInv'
  BY <1>2 DEF callStateVars, LabelsInv, LabelInv, This
<1>3. ASSUME NEW f \in Factory, Begin(f) PROVE LabelsInv'
  <2>1. PICK stage : /\ stage = (IF This(f).via \in {"stream", "raw"} THEN "send" ELSE "make")
                     /\ call' = Goto(f, stage)
    BY <1>3 DEF Begin
  <2>2. stage \notin Labelling \/ This(f).via # "stream"
    BY <2>1 DEF Labelling
  <2> QED
    BY <1>3, <2>1, <2>2, GotoLabels DEF Begin
<1>4. ASSUME NEW f \in Factory, Tune(f) \/ Write(f) \/ Send(f) \/ SendTcp(f) \/ Serve(f) \/ Receive(f)
      PROVE  LabelsInv'
  BY <1>4, TuneLabels, WriteLabels, SendLabels, ServerLabels
<1>5. ASSUME NEW f \in Factory,
             StartElement(f) \/ EndElement(f) \/ ResetPool(f) \/ Leave(f) \/ ValueAs(f) \/ NextRound(f)
      PROVE  LabelsInv'
  BY <1>5, ParseLabels, LeaveLabels, NextRoundLabels
<1> QED
  BY <1>1, <1>2, <1>3, <1>4, <1>5 DEF Next

\* A thread begins with a transport that is new.
LEMMA LabelsInvInit == Init => LabelsInv
<1>1. SUFFICES ASSUME Init PROVE LabelsInv
  OBVIOUS
<1>2. call = [f \in Factory |-> NewCall(1, NewEnvelope)] /\ http = [f \in Factory |-> NewTransport]
  BY <1>1 DEF Init
<1>3. ASSUME NEW f \in Factory PROVE LabelInv(f)
  BY <1>2, <1>3 DEF LabelInv, NewCall, NewEnvelope, NewTransport, Headers, EnvelopeFields, Labelling
<1> QED
  BY <1>2, <1>3 DEF LabelsInv

\* What a server gets as a stream is labelled as the version of SOAP it is, whatever was sent over the
\* transport before, although the labels are made before the envelope is written.
THEOREM RequestsLabelled == Spec => []Labelled
<1>1. Init => UseInv /\ RegistryInv /\ PoolInv /\ LabelsInv
  BY UseInvInit, RegistryInvInit, PoolInvInit, LabelsInvInit DEF Init
<1>2. UseInv /\ RegistryInv /\ PoolInv /\ LabelsInv /\ [Next]_vars => UseInv' /\ RegistryInv' /\ PoolInv' /\ LabelsInv'
  BY NextUses, RegistryInvStep, PoolInvStep, LabelsInvStep DEF Uses, UseInv
<1>3. LabelsInv => Labelled
  BY DEF LabelsInv, LabelInv, Labelling, LabelIs, Labelled
<1> QED
  BY <1>1, <1>2, <1>3, PTL DEF Spec
-----------------------------------------------------------------------------
(* What comes of a call is no better than its answer.                      *)

\* The stages in which an answer is read, and those in which there is one
Reading == {"element", "typed", "named", "close"}
Answers == {"receive", "parsed", "leave"} \cup Reading
Bad == {"refused", "page", "broken"}
IsAnswer(reply) == \E message, kind : reply = Answered(message, kind)

\* An answer that is whole, and was read to its end without an error
Whole(c) == c.failed = FALSE /\ c.reply.kind \notin Bad /\ Len(c.opened) = c.reply.cut

\* What NeverMistaken says of a call that is over
EndsWell(c) ==
    /\ c.outcome.kind = "value" =>
          /\ ~c.failed /\ c.reply.kind \notin {"refused", "page", "broken", "fault"}
          /\ Len(c.opened) = Len(c.reply.elements)
          /\ c.reply.kind = "void" => c.outcome.value = EmptyValue
    /\ c.outcome.kind = "fault" => ~c.failed /\ c.reply.kind = "fault"
    /\ c.outcome.kind = "none" => c.failed /\ c.reply = NoReply

\* A call that has no answer has no outcome; one whose answer is read has no error yet; one that was
\* read was read whole, or has failed
OutcomeInv(c) ==
    /\ c.at \in Early => c.failed = FALSE /\ c.outcome = [kind |-> "none"]
    /\ c.at \in Answers => IsAnswer(c.reply)
    /\ c.at \in Reading => c.failed = FALSE /\ c.reply.kind \notin {"refused", "page"}
    /\ c.at = "receive" => c.failed = FALSE
    /\ c.at \in {"parsed", "leave"} => c.failed = TRUE \/ Whole(c)
    /\ c.at \in {"as", "asRead"} =>
          /\ c.failed = FALSE /\ c.reply.kind = "untyped" /\ Len(c.opened) = Len(c.reply.elements)
          /\ \E v : c.outcome = [kind |-> "value", value |-> v]
    /\ c.at = "over" => EndsWell(c)
OutcomesInv == \A f \in Factory : OutcomeInv(call[f])

\* What a step of f makes of its call, and that it is nobody else's
OutcomeIs(f, at, opened, reply, failed, outcome) ==
    /\ call'[f].at = at /\ call'[f].opened = opened /\ call'[f].reply = reply
    /\ call'[f].failed = failed /\ call'[f].outcome = outcome
    /\ \A g \in Factory \ {f} : call'[g] = call[g]

\* A call of which some fields are new.
LEMMA NewOutcome ==
    ASSUME CallTypes, NEW f \in Factory, NEW c, DOMAIN c = Fields, call' = [call EXCEPT ![f] = c]
    PROVE  OutcomeIs(f, c.at, c.opened, c.reply, c.failed, c.outcome)
BY DEF CallTypes, OutcomeIs

\* The next stage, with or without an error.
LEMMA GotoOutcome ==
    ASSUME CallTypes, NEW f \in Factory, NEW stage
    PROVE  /\ call' = Goto(f, stage) =>
                  OutcomeIs(f, stage, call[f].opened, call[f].reply, call[f].failed, call[f].outcome)
           /\ call' = Fails(f, stage) =>
                  OutcomeIs(f, stage, call[f].opened, call[f].reply, TRUE, call[f].outcome)
BY ZenonT(60) DEF CallTypes, OutcomeIs, Goto, Fails, Fields

\* A step of one thread makes nothing of another's call.
LEMMA OutcomeStep ==
    ASSUME OutcomesInv, NEW f \in Factory, OutcomeInv(call'[f]), \A g \in Factory \ {f} : call'[g] = call[g]
    PROVE  OutcomesInv'
<1>1. ASSUME NEW g \in Factory PROVE OutcomeInv(call'[g])
  BY DEF OutcomesInv
<1> QED
  BY <1>1 DEF OutcomesInv

\* A request on its way has come to nothing, and so has one that goes no further.
LEMMA EarlyOutcome ==
    ASSUME UseInv, OutcomesInv, NEW f \in Factory, call[f].at \in Early, NEW stage \in Early,
           \/ OutcomeIs(f, stage, call[f].opened, call[f].reply, call[f].failed, call[f].outcome)
           \/ OutcomeIs(f, "over", call[f].opened, call[f].reply, TRUE, call[f].outcome)
    PROVE  OutcomesInv'
<1>1. OutcomeInv(call[f]) /\ call[f].reply = NoReply
  BY DEF OutcomesInv, UseInv, StageInv, ReplyInv
<1>2. call[f].failed = FALSE /\ call[f].outcome = [kind |-> "none"]
  BY <1>1 DEF OutcomeInv
<1>3. CASE OutcomeIs(f, stage, call[f].opened, call[f].reply, call[f].failed, call[f].outcome)
  <2>1. OutcomeInv(call'[f])
    BY <1>2, <1>3 DEF OutcomeIs, OutcomeInv, Early, Answers, Reading
  <2> QED
    BY <1>3, <2>1, OutcomeStep DEF OutcomeIs
<1>4. CASE OutcomeIs(f, "over", call[f].opened, call[f].reply, TRUE, call[f].outcome)
  <2>1. EndsWell(call'[f])
    BY <1>1, <1>2, <1>4 DEF OutcomeIs, EndsWell
  <2>2. OutcomeInv(call'[f])
    BY <1>4, <2>1 DEF OutcomeIs, OutcomeInv, Early, Answers, Reading
  <2> QED
    BY <1>4, <2>2, OutcomeStep DEF OutcomeIs
<1> QED
  BY <1>3, <1>4

\* The settings.
LEMMA TuneOutcome == ASSUME UseInv, OutcomesInv, NEW f \in Factory, Tune(f) PROVE OutcomesInv'
<1> DEFINE tune == This(f).tunes[call[f].k]
<1>1. call[f].at = "tune" /\ CallTypes
  BY DEF Tune, AtStage, UseInv
<1>2. PICK t : t = [call EXCEPT ![f].k = @ + 1]
  OBVIOUS
<1>3. /\ t \in [Factory -> {t[g] : g \in Factory}] /\ DOMAIN t[f] = Fields
      /\ t[f].at = call[f].at /\ t[f].opened = call[f].opened /\ t[f].reply = call[f].reply
      /\ t[f].failed = call[f].failed /\ t[f].outcome = call[f].outcome
      /\ \A g \in Factory \ {f} : t[g] = call[g]
  BY <1>1, <1>2 DEF CallTypes, Fields
<1>4. \/ call' = t
      \/ call' = [t EXCEPT ![f].envelope = [@ EXCEPT !.soap12 = tune.soap12]]
      \/ call' = [t EXCEPT ![f].envelope = [@ EXCEPT !.prefixes = WithPrefix(@, tune.uri, tune.prefix)]]
      \/ call' = [t EXCEPT ![f].envelope = [@ EXCEPT !.made = TRUE]]
  BY <1>2 DEF Tune
<1>5. PICK e : call' = t \/ call' = [t EXCEPT ![f].envelope = e]
  BY <1>3, <1>4
<1>6. OutcomeIs(f, call[f].at, call[f].opened, call[f].reply, call[f].failed, call[f].outcome)
  BY <1>3, <1>5 DEF OutcomeIs, Fields
<1> QED
  BY <1>1, <1>6, EarlyOutcome DEF Early

\* The writer and the transport.
LEMMA RequestOutcome ==
    ASSUME UseInv, OutcomesInv, NEW f \in Factory, Begin(f) \/ Write(f) \/ Send(f)
    PROVE  OutcomesInv'
<1>0. CallTypes
  BY DEF UseInv
<1>1. CASE Begin(f) \/ AskRoot(f) \/ AskValue(f) \/ CannotWrite(f) \/ ReturnWritten(f)
  <2>1. \/ \E stage \in Early : call' = Goto(f, stage)
        \/ call' = Fails(f, "over")
        \/ call' = call /\ call[f].at = "written"
    BY <1>1 DEF Begin, AskRoot, AskValue, CannotWrite, ReturnWritten, Early, AtStage
  <2>2. call[f].at \in Early
    BY <1>1 DEF Begin, AskRoot, AskValue, CannotWrite, ReturnWritten, Early, AtStage
  <2>3. CASE call' = call
    BY <2>3 DEF OutcomesInv
  <2>4. ASSUME NEW stage \in Early, call' = Goto(f, stage) PROVE OutcomesInv'
    BY <1>0, <2>2, <2>4, GotoOutcome, EarlyOutcome
  <2>5. CASE call' = Fails(f, "over")
    BY <1>0, <2>2, <2>5, GotoOutcome, EarlyOutcome
  <2> QED
    BY <2>1, <2>3, <2>4, <2>5
<1>2. ASSUME NEW stage \in Early, NEW e, NEW m, call[f].at \in Early,
             call' = [call EXCEPT ![f].at = stage, ![f].envelope = e, ![f].message = m]
      PROVE  OutcomesInv'
  <2>1. OutcomeIs(f, stage, call[f].opened, call[f].reply, call[f].failed, call[f].outcome)
    BY <1>0, <1>2 DEF CallTypes, OutcomeIs, Fields
  <2> QED
    BY <1>2, <2>1, EarlyOutcome
<1>3. CASE WriteRoot(f)
  <2>1. PICK env : call' = [Goto(f, "root") EXCEPT
                  ![f].envelope.made = TRUE,
                  ![f].envelope.prefixes = Prefixed(Prefixed(@, env), MethodName[2])]
    BY <1>3 DEF WriteRoot
  <2>2. PICK e : e = [call[f].envelope EXCEPT !.made = TRUE, !.prefixes = Prefixed(Prefixed(@, env), MethodName[2])]
    OBVIOUS
  <2>3. call' = [call EXCEPT ![f].at = "root", ![f].envelope = e, ![f].message = call[f].message]
    BY <1>0, <2>1, <2>2 DEF CallTypes, Goto, Fields
  <2>4. "root" \in Early /\ call[f].at \in Early
    BY <1>3 DEF WriteRoot, AtStage, Early
  <2> QED
    BY <1>2, <2>3, <2>4
<1>4. CASE WriteValue(f)
  <2>1. PICK p, m : call' = [Goto(f, "written") EXCEPT ![f].envelope.prefixes = p, ![f].message = m]
    BY <1>4 DEF WriteValue
  <2>2. PICK e : e = [call[f].envelope EXCEPT !.prefixes = p]
    OBVIOUS
  <2>3. call' = [call EXCEPT ![f].at = "written", ![f].envelope = e, ![f].message = m]
    BY <1>0, <2>1, <2>2 DEF CallTypes, Goto, Fields
  <2>4. "written" \in Early /\ call[f].at \in Early
    BY <1>4 DEF WriteValue, AtStage, Early
  <2> QED
    BY <1>2, <2>3, <2>4
<1>5. CASE Send(f)
  <2>1. PICK via, m : call' = [call EXCEPT ![f].at = IF via = "stream" THEN "make" ELSE "server", ![f].message = m]
    BY <1>5 DEF Send
  <2>2. PICK stage \in Early : stage = IF via = "stream" THEN "make" ELSE "server"
    BY DEF Early
  <2>3. call' = [call EXCEPT ![f].at = stage, ![f].envelope = call[f].envelope, ![f].message = m]
    BY <1>0, <2>1, <2>2 DEF CallTypes, Fields
  <2>4. call[f].at \in Early
    BY <1>5 DEF Send, AtStage, Early
  <2> QED
    BY <1>2, <2>3, <2>4
<1> QED
  BY <1>1, <1>3, <1>4, <1>5 DEF Write

\* The answer, or none.
LEMMA ServerOutcome ==
    ASSUME UseInv, OutcomesInv, NEW f \in Factory, SendTcp(f) \/ Serve(f)
    PROVE  OutcomesInv'
<1>0. CallTypes
  BY DEF UseInv
<1>1. call[f].at \in Early
  BY DEF SendTcp, Serve, AtStage, Early
<1>2. call[f].failed = FALSE /\ call[f].reply = NoReply
  BY <1>1 DEF OutcomesInv, OutcomeInv, UseInv, StageInv, ReplyInv
<1>3. ASSUME NEW r, IsAnswer(r), call' = [Goto(f, "receive") EXCEPT ![f].reply = r] PROVE OutcomesInv'
  <2>1. OutcomeIs(f, "receive", call[f].opened, r, call[f].failed, call[f].outcome)
    BY <1>0, <1>3 DEF CallTypes, OutcomeIs, Goto, Fields
  <2>2. OutcomeInv(call'[f])
    BY <1>2, <1>3, <2>1 DEF OutcomeIs, OutcomeInv, Early, Answers, Reading
  <2> QED
    BY <2>1, <2>2, OutcomeStep DEF OutcomeIs
<1>4. CASE call' = [Goto(f, "receive") EXCEPT ![f].reply.kind = "page"]
  <2>1. PICK r : r = [NoReply EXCEPT !.kind = "page"]
    OBVIOUS
  <2>2. call' = [Goto(f, "receive") EXCEPT ![f].reply = r]
    BY <1>0, <1>2, <1>4, <2>1 DEF CallTypes, Goto, Fields
  <2>3. r = Answered(call[f].message, "page")
    BY <2>1 DEF Answered
  <2> QED
    BY <1>3, <2>2, <2>3 DEF IsAnswer
<1>5. CASE Serve(f)
  <2>1. PICK kind : call' = [Goto(f, "receive") EXCEPT ![f].reply = Answered(call[f].message, kind)]
    BY <1>5 DEF Serve
  <2>2. PICK r : r = Answered(call[f].message, kind)
    OBVIOUS
  <2> QED
    BY <1>3, <2>1, <2>2 DEF IsAnswer
<1>6. CASE call' = Goto(f, "server") \/ call' = Fails(f, "over")
  BY <1>0, <1>1, <1>6, GotoOutcome, EarlyOutcome DEF Early
<1> QED
  BY <1>4, <1>5, <1>6 DEF SendTcp

\* What an answer says of itself.
LEMMA AnswerIs ==
    ASSUME NEW reply, IsAnswer(reply), reply.kind \notin Bad
    PROVE  /\ reply.cut = Len(reply.elements)
           /\ reply.elements[1].name = FaultName <=> reply.kind = "fault"
           /\ reply.kind = "void" => reply.cut = 1
<1>1. PICK message, kind : reply = Answered(message, kind)
  BY DEF IsAnswer
<1>2. CASE kind \in {"refused", "page"}
  BY <1>1, <1>2 DEF Answered, NoReply, Answer, Bad
<1>3. CASE kind = "fault"
  BY <1>1, <1>3 DEF Answered, FaultReply, Answer, Element
<1>4. CASE kind = "void"
  <2>1. reply = Answer(kind, message.soap12, <<Element(ReplyName, NoType, FALSE, NoText)>>, 1, <<>>)
    BY <1>1, <1>4 DEF Answered
  <2> QED
    BY <1>4, <2>1 DEF Answer, Element, ReplyName, FaultName
<1>5. CASE kind \notin {"refused", "page", "fault", "void"}
  <2>1. PICK soap12, x, scopes :
           reply = Answer(kind, soap12, <<Element(ReplyName, NoType, FALSE, NoText), x>>,
                          IF kind = "broken" THEN 1 ELSE 2, scopes)
    BY <1>1, <1>5 DEF Answered, Reply
  <2> QED
    BY <1>5, <2>1 DEF Answer, Element, ReplyName, FaultName, Bad
<1> QED
  BY <1>2, <1>3, <1>4, <1>5

\* The parser: an error of its own, or of a deserializer, is not forgotten.
LEMMA ParseOutcome ==
    ASSUME UseInv, OutcomesInv, NEW f \in Factory, Receive(f) \/ StartElement(f) \/ EndElement(f) \/ ResetPool(f)
    PROVE  OutcomesInv'
<1>0. CallTypes /\ OutcomeInv(call[f])
  BY SMTT(30) DEF UseInv, OutcomesInv
<1>1. call[f].at \in {"receive", "parsed"} \cup Reading
  BY DEF Receive, StartElement, StartNil, StartTyped, StartNamed, Open, CutShort, EndElement, EndChild, EndRoot,
         ResetPool, AtStage, Reading
<1>2. IsAnswer(call[f].reply) /\ (call[f].at \in Reading => call[f].reply.kind \notin {"refused", "page"})
  BY <1>0, <1>1 DEF OutcomeInv, Answers
<1>3. call[f].at # "parsed" => call[f].failed = FALSE
  BY <1>0, <1>1 DEF OutcomeInv
\* the parse goes on
<1>4. ASSUME call[f].at # "parsed", call[f].reply.kind \notin {"refused", "page"}, NEW at \in Reading, NEW opened,
             OutcomeIs(f, at, opened, call[f].reply, call[f].failed, call[f].outcome)
      PROVE  OutcomesInv'
  <2>1. OutcomeInv(call'[f])
    BY <1>2, <1>3, <1>4 DEF OutcomeIs, OutcomeInv, Early, Answers, Reading
  <2> QED
    BY <1>4, <2>1, OutcomeStep DEF OutcomeIs
\* it ends
<1>5. ASSUME NEW at \in {"parsed", "leave"}, NEW failed,
             OutcomeIs(f, at, call[f].opened, call[f].reply, failed, call[f].outcome),
             failed = TRUE \/ (failed = FALSE /\ call[f].reply.kind \notin Bad /\ Len(call[f].opened) = call[f].reply.cut)
      PROVE  OutcomesInv'
  <2>1. call'[f].failed = TRUE \/ Whole(call'[f])
    BY <1>5 DEF OutcomeIs, Whole
  <2>2. OutcomeInv(call'[f])
    BY <1>2, <1>5, <2>1 DEF OutcomeIs, OutcomeInv, Early, Answers, Reading
  <2> QED
    BY <1>5, <2>2, OutcomeStep DEF OutcomeIs
<1>6. CASE call' = Fails(f, "parsed") \/ call' = Fails(f, "leave")
  BY <1>0, <1>5, <1>6, GotoOutcome
<1>7. CASE Receive(f) /\ call' # Fails(f, "leave")
  <2>1. PICK s : call' = [Goto(f, "element") EXCEPT ![f].envelope.soap12 = s, ![f].envelope.made = TRUE]
    BY <1>7 DEF Receive
  <2>2. PICK e : e = [call[f].envelope EXCEPT !.soap12 = s, !.made = TRUE]
    OBVIOUS
  <2>3. call' = [Goto(f, "element") EXCEPT ![f].envelope = e]
    BY <1>0, <2>1, <2>2 DEF CallTypes, Goto, Fields
  <2>4. OutcomeIs(f, "element", call[f].opened, call[f].reply, call[f].failed, call[f].outcome)
    BY <1>0, <2>3 DEF CallTypes, OutcomeIs, Goto, Fields
  <2>5. call[f].at = "receive" /\ call[f].reply.kind \notin {"refused", "page"}
    BY <1>7 DEF Receive, AtStage
  <2> QED
    BY <1>4, <2>4, <2>5 DEF Reading
<1>8. CASE StartNil(f) \/ Open(f)
  <2>1. PICK reader, type : call' = Opened(f, reader, type)
    BY <1>8 DEF StartNil, Open
  <2>2. PICK opened, at : at \in Reading /\ call' = [call EXCEPT ![f].opened = opened, ![f].at = at]
    BY <2>1 DEF Opened, Reading
  <2>3. OutcomeIs(f, at, opened, call[f].reply, call[f].failed, call[f].outcome)
    BY <1>0, <2>2 DEF CallTypes, OutcomeIs, Fields
  <2>4. call[f].at \in Reading
    BY <1>8 DEF StartNil, Open, AtStage, Reading
  <2> QED
    BY <1>2, <1>4, <2>2, <2>3, <2>4 DEF Reading
<1>9. CASE StartTyped(f) \/ StartNamed(f)
  <2>1. PICK stage \in Reading : call' = Goto(f, stage)
    BY <1>9 DEF StartTyped, StartNamed, Reading
  <2>2. call[f].at \in Reading
    BY <1>9 DEF StartTyped, StartNamed, AtStage, Reading
  <2>3. OutcomeIs(f, stage, call[f].opened, call[f].reply, call[f].failed, call[f].outcome)
    BY <1>0, <2>1, GotoOutcome
  <2> QED
    BY <1>2, <1>4, <2>2, <2>3 DEF Reading
<1>10. CASE EndChild(f) /\ call' # Fails(f, "parsed")
  <2>1. PICK k, v : call' = [Goto(f, "element") EXCEPT ![f].opened[k].value = v]
    BY <1>10 DEF EndChild
  <2>2. PICK opened : opened = [call[f].opened EXCEPT ![k].value = v]
    OBVIOUS
  <2>3. call' = [Goto(f, "element") EXCEPT ![f].opened = opened]
    BY <1>0, <2>1, <2>2 DEF CallTypes, Goto, Fields
  <2>4. OutcomeIs(f, "element", opened, call[f].reply, call[f].failed, call[f].outcome)
    BY <1>0, <2>3 DEF CallTypes, OutcomeIs, Goto, Fields
  <2>5. call[f].at \in Reading
    BY <1>10 DEF EndChild, AtStage, Reading
  <2> QED
    BY <1>2, <1>4, <2>4, <2>5 DEF Reading
<1>11. CASE EndRoot(f)
  <2>1. /\ call[f].at \in Reading /\ call[f].reply.kind # "broken" /\ Len(call[f].opened) = call[f].reply.cut
        /\ call[f].at # "parsed" /\ call' = Goto(f, "parsed")
    BY <1>11 DEF EndRoot, AllOpened, AtStage, Reading
  <2>2. OutcomeIs(f, "parsed", call[f].opened, call[f].reply, call[f].failed, call[f].outcome)
    BY <1>0, <2>1, GotoOutcome
  <2> QED
    BY <1>2, <1>3, <1>5, <2>1, <2>2 DEF Bad
<1>12. CASE ResetPool(f)
  <2>1. call[f].at = "parsed" /\ call' = Goto(f, "leave")
    BY <1>12 DEF ResetPool, AtStage
  <2>2. OutcomeIs(f, "leave", call[f].opened, call[f].reply, call[f].failed, call[f].outcome)
    BY <1>0, <2>1, GotoOutcome
  <2>3. call[f].failed = TRUE \/ Whole(call[f])
    BY <1>0, <2>1 DEF OutcomeInv
  <2> QED
    BY <1>5, <2>2, <2>3 DEF Whole
<1> QED
  BY <1>6, <1>7, <1>8, <1>9, <1>10, <1>11, <1>12 DEF StartElement, CutShort, EndElement

\* What Parse says of the answer.
LEMMA LeaveOutcome ==
    ASSUME UseInv, OutcomesInv, NEW f \in Factory, Leave(f)
    PROVE  OutcomesInv'
<1>0. CallTypes /\ OutcomeInv(call[f]) /\ call[f].at = "leave"
  BY DEF UseInv, OutcomesInv, Leave, AtStage
<1>1. IsAnswer(call[f].reply) /\ (call[f].failed = TRUE \/ Whole(call[f]))
  BY <1>0 DEF OutcomeInv, Answers
<1>2. PICK at, outcome :
         /\ (at = "as" /\ call[f].reply.kind = "untyped" /\ ~call[f].failed) \/ at = "over"
         /\ outcome = IF call[f].failed THEN [kind |-> "error"]
                      ELSE IF IsFault(f) THEN FaultOutcome(f) ELSE ParamOutcome(f)
         /\ call' = [Goto(f, at) EXCEPT ![f].outcome = outcome]
  BY DEF Leave
<1>3. OutcomeIs(f, at, call[f].opened, call[f].reply, call[f].failed, outcome)
  BY <1>0, <1>2 DEF CallTypes, OutcomeIs, Goto, Fields
<1>4. CASE call[f].failed = TRUE
  <2>1. at = "over" /\ outcome = [kind |-> "error"]
    BY <1>2, <1>4
  <2>2. EndsWell(call'[f])
    BY <1>3, <2>1 DEF OutcomeIs, EndsWell
  <2> QED
    BY <1>3, <2>1, <2>2, OutcomeStep DEF OutcomeIs, OutcomeInv, Early, Answers, Reading
<1>5. CASE Whole(call[f])
  <2>1. /\ call[f].failed = FALSE /\ call[f].reply.kind \notin Bad
        /\ Len(call[f].opened) = call[f].reply.cut
    BY <1>5 DEF Whole
  <2>2. /\ Len(call[f].opened) = Len(call[f].reply.elements)
        /\ call[f].reply.elements[1].name = FaultName <=> call[f].reply.kind = "fault"
        /\ call[f].reply.kind = "void" => Len(call[f].opened) = 1
    BY <1>1, <2>1, AnswerIs
  <2>3. CASE IsFault(f)
    <3>1. outcome \in {[kind |-> "error"]} \/ outcome.kind = "fault"
      BY <1>2, <2>1, <2>3 DEF FaultOutcome
    <3>2. call[f].reply.kind = "fault" /\ at = "over"
      BY <1>2, <2>2, <2>3 DEF IsFault
    <3>3. EndsWell(call'[f])
      BY <1>3, <2>1, <3>1, <3>2 DEF OutcomeIs, EndsWell
    <3> QED
      BY <1>3, <3>2, <3>3, OutcomeStep DEF OutcomeIs, OutcomeInv, Early, Answers, Reading
  <2>4. CASE ~IsFault(f)
    <3>1. PICK v : /\ v = (IF Len(call[f].opened) = 1 THEN EmptyValue ELSE call[f].opened[2].value)
                   /\ outcome = [kind |-> "value", value |-> v]
      BY <1>2, <2>1, <2>4 DEF ParamOutcome
    <3>2. call[f].reply.kind # "fault"
      BY <2>2, <2>4 DEF IsFault
    <3>3. EndsWell(call'[f])
      BY <1>3, <2>1, <2>2, <3>1, <3>2 DEF OutcomeIs, EndsWell, Bad
    <3>4. OutcomeInv(call'[f])
      BY <1>2, <1>3, <2>1, <2>2, <3>1, <3>3 DEF OutcomeIs, OutcomeInv, Early, Answers, Reading
    <3> QED
      BY <1>3, <3>4, OutcomeStep DEF OutcomeIs
  <2> QED
    BY <2>3, <2>4
<1> QED
  BY <1>1, <1>4, <1>5

\* A value that is read once more is a value still.
LEMMA ValueAsOutcome ==
    ASSUME UseInv, OutcomesInv, NEW f \in Factory, ValueAs(f)
    PROVE  OutcomesInv'
<1>0. CallTypes /\ OutcomeInv(call[f]) /\ call[f].at \in {"as", "asRead"}
  BY DEF UseInv, OutcomesInv, ValueAs, TakeAsIs, AskAs, ReadAs, AtStage
<1>1. PICK v : /\ call[f].failed = FALSE /\ call[f].reply.kind = "untyped"
               /\ Len(call[f].opened) = Len(call[f].reply.elements)
               /\ call[f].outcome = [kind |-> "value", value |-> v]
  BY <1>0 DEF OutcomeInv
<1>2. ASSUME NEW at \in {"over", "asRead"}, NEW w,
             OutcomeIs(f, at, call[f].opened, call[f].reply, call[f].failed, [kind |-> "value", value |-> w])
      PROVE  OutcomesInv'
  <2>1. EndsWell(call'[f])
    BY <1>1, <1>2 DEF OutcomeIs, EndsWell
  <2>2. OutcomeInv(call'[f])
    BY <1>1, <1>2, <2>1 DEF OutcomeIs, OutcomeInv, Early, Answers, Reading
  <2> QED
    BY <1>2, <2>2, OutcomeStep DEF OutcomeIs
<1>3. CASE TakeAsIs(f) \/ AskAs(f)
  <2>1. PICK at \in {"over", "asRead"} : call' = Goto(f, at)
    BY <1>3 DEF TakeAsIs, AskAs
  <2>2. OutcomeIs(f, at, call[f].opened, call[f].reply, call[f].failed, call[f].outcome)
    BY <1>0, <2>1, GotoOutcome
  <2> QED
    BY <1>1, <1>2, <2>2
<1>4. CASE ReadAs(f)
  <2>1. PICK x : call' = [Goto(f, "over") EXCEPT ![f].outcome.value = IF x = Failed THEN @ ELSE x]
    BY <1>4 DEF ReadAs
  <2>2. PICK w : w = IF x = Failed THEN call[f].outcome.value ELSE x
    OBVIOUS
  <2>3. PICK o : o = [call[f].outcome EXCEPT !.value = w]
    OBVIOUS
  <2>4. call' = [Goto(f, "over") EXCEPT ![f].outcome = o]
    BY <1>0, <2>1, <2>2, <2>3 DEF CallTypes, Goto, Fields
  <2>5. OutcomeIs(f, "over", call[f].opened, call[f].reply, call[f].failed, o)
    BY <1>0, <2>4 DEF CallTypes, OutcomeIs, Goto, Fields
  <2>6. o = [kind |-> "value", value |-> w]
    BY <1>1, <2>3
  <2> QED
    BY <1>2, <2>5, <2>6
<1> QED
  BY <1>3, <1>4 DEF ValueAs

\* The next call comes to nothing yet.
LEMMA NextRoundOutcome ==
    ASSUME UseInv, OutcomesInv, NEW f \in Factory, NextRound(f)
    PROVE  OutcomesInv'
<1>1. PICK round, envelope : call' = [call EXCEPT ![f] = NewCall(round, envelope)]
  BY DEF NextRound
<1>2. call'[f] = NewCall(round, envelope) /\ \A g \in Factory \ {f} : call'[g] = call[g]
  BY <1>1 DEF UseInv, CallTypes
<1>3. OutcomeInv(call'[f])
  BY <1>2 DEF NewCall, OutcomeInv, Early, Answers, Reading
<1> QED
  BY <1>2, <1>3, OutcomeStep

\* No step makes a call look better than it was.
LEMMA OutcomesInvStep == ASSUME UseInv, OutcomesInv, [Next]_vars PROVE OutcomesInv'
<1>1. CASE UNCHANGED vars
  BY <1>1 DEF vars, OutcomesInv
<1>2. ASSUME UNCHANGED callStateVars PROVE OutcomesInv'
  BY <1>2 DEF callStateVars, OutcomesInv
<1>3. ASSUME NEW f \in Factory, Tune(f) \/ Begin(f) \/ Write(f) \/ Send(f) \/ SendTcp(f) \/ Serve(f) PROVE OutcomesInv'
  BY <1>3, TuneOutcome, RequestOutcome, ServerOutcome
<1>4. ASSUME NEW f \in Factory, \/ Receive(f) \/ StartElement(f) \/ EndElement(f) \/ ResetPool(f)
                               \/ Leave(f) \/ ValueAs(f) \/ NextRound(f)
      PROVE  OutcomesInv'
  BY <1>4, ParseOutcome, LeaveOutcome, ValueAsOutcome, NextRoundOutcome
<1> QED
  BY <1>1, <1>2, <1>3, <1>4 DEF Next

\* A thread begins with a call that came to nothing yet.
LEMMA OutcomesInvInit == Init => OutcomesInv
<1>1. SUFFICES ASSUME Init PROVE OutcomesInv
  OBVIOUS
<1>2. call = [f \in Factory |-> NewCall(1, NewEnvelope)]
  BY <1>1 DEF Init
<1>3. ASSUME NEW f \in Factory PROVE OutcomeInv(call[f])
  BY <1>2, <1>3 DEF NewCall, OutcomeInv, Early, Answers, Reading
<1> QED
  BY <1>3 DEF OutcomesInv

\* Whatever the threads do at the same time, whatever is written and whatever comes back or does not,
\* a call never looks better than its answer was.
THEOREM CallsNeverMistaken == Spec => []NeverMistaken
<1>1. Init => UseInv /\ RegistryInv /\ PoolInv /\ OutcomesInv
  BY UseInvInit, RegistryInvInit, PoolInvInit, OutcomesInvInit DEF Init
<1>2. UseInv /\ RegistryInv /\ PoolInv /\ OutcomesInv /\ [Next]_vars
         => UseInv' /\ RegistryInv' /\ PoolInv' /\ OutcomesInv'
  BY NextUses, RegistryInvStep, PoolInvStep, OutcomesInvStep DEF Uses
<1>3. OutcomesInv => NeverMistaken
  BY DEF OutcomesInv, OutcomeInv, EndsWell, NeverMistaken
<1> QED
  BY <1>1, <1>2, <1>3, PTL DEF Spec
-----------------------------------------------------------------------------
(* The conversions: a value that is written, and read from what a server   *)
(* makes of it, is the value it was.  First base64.                        *)

Byte == 0..255

\* seqs are n sequences of c elements each.
Blocks(seqs, c, n, S) == n \in Nat /\ seqs \in Seq(Seq(S)) /\ Len(seqs) = n /\ \A k \in 1..n : Len(seqs[k]) = c

\* Where they are in their sum.
LEMMA BlocksStand ==
    ASSUME NEW S, NEW c \in {1, 2, 4}, NEW n, NEW seqs, Blocks(seqs, c, n, S)
    PROVE  /\ FlattenSeq(seqs) \in Seq(S) /\ Len(FlattenSeq(seqs)) = c * n
           /\ \A k \in 1..n : Stands(seqs[k], FlattenSeq(seqs), c * (k - 1))
<1>1. n \in Nat /\ seqs \in Seq(Seq(S)) /\ Len(seqs) = n /\ \A k \in 1..n : Len(seqs[k]) = c
  BY DEF Blocks
<1>2. PICK s \in [0..n -> Seq(S)] : Sums(s, seqs)
  BY <1>1, FlattenSums
<1>3. s[0] = <<>> /\ FlattenSeq(seqs) = s[n]
  BY <1>1, <1>2 DEF Sums
<1>4. ASSUME NEW i \in 1..n PROVE Stands(seqs[i], FlattenSeq(seqs), Len(s[i - 1])) /\ Len(s[i]) = Len(s[i - 1]) + c
  <2>1. i \in 0..Len(seqs) /\ i > 0
    BY <1>1
  <2>2. seqs \in Seq(Seq(S)) /\ s \in [0..Len(seqs) -> Seq(S)] /\ Sums(s, seqs) /\ i \in 0..Len(seqs)
    BY <1>1, <1>2, <2>1
  <2>3. /\ FlattenSeq(seqs) \in Seq(S)
        /\ Stands(s[i], FlattenSeq(seqs), 0)
        /\ i > 0 => /\ Stands(seqs[i], FlattenSeq(seqs), Len(s[i - 1]))
                    /\ Len(s[i]) = Len(s[i - 1]) + Len(seqs[i])
    BY <2>2, SumsStand, Zenon
  <2> QED
    BY <1>1, <2>1, <2>3
<1> DEFINE T == {i \in Nat : i <= n => Len(s[i]) = c * i}
<1>5. 0 \in T
  BY <1>3
<1>6. ASSUME NEW i \in T PROVE i + 1 \in T
  <2> SUFFICES ASSUME i + 1 <= n PROVE Len(s[i + 1]) = c * (i + 1)
    OBVIOUS
  <2>1. Len(s[i]) = c * i /\ i + 1 \in 1..n /\ (i + 1) - 1 = i /\ i \in Nat
    BY <1>1
  <2>2. Len(s[i + 1]) = c * i + c
    BY <1>4, <2>1
  <2> QED
    BY <2>1, <2>2
<1>7. T = Nat
  <2>1. T \in SUBSET Nat
    OBVIOUS
  <2> HIDE DEF T
  <2> QED
    BY <1>5, <1>6, <2>1, Induction
<1>8. \A i \in 0..n : Len(s[i]) = c * i
  <2> TAKE i \in 0..n
  <2>1. i \in Nat /\ i <= n
    BY <1>1
  <2>2. i \in T
    BY <1>7, <2>1, Zenon
  <2> QED
    BY <2>1, <2>2
<1>9. ASSUME NEW k \in 1..n PROVE Stands(seqs[k], FlattenSeq(seqs), c * (k - 1))
  <2>1. k - 1 \in 0..n
    BY <1>1
  <2> QED
    BY <1>4, <1>8, <2>1
<1>10. n \in 0..n
  BY <1>1
<1> QED
  BY <1>2, <1>3, <1>8, <1>9, <1>10

\* A part of a sequence, by its elements.
LEMMA PartIs ==
    ASSUME NEW S, NEW w \in Seq(S), NEW a \in 0..Len(w), NEW b \in a..Len(w)
    PROVE  /\ SubSeq(w, a + 1, b) \in Seq(S) /\ Len(SubSeq(w, a + 1, b)) = b - a
           /\ \A j \in 1..b - a : SubSeq(w, a + 1, b)[j] = w[a + j]
<1>1. PICK m \in 1..Len(w) + 1 : m = a + 1
  OBVIOUS
<1>2. b \in m - 1..Len(w)
  BY <1>1
<1>3. SubSeq(w, m, b) \in Seq(S) /\ Len(SubSeq(w, m, b)) = b - m + 1
  BY <1>1, <1>2
<1>4. \A j \in 1..b - m + 1 : SubSeq(w, m, b)[j] = w[m + j - 1]
  BY <1>1, <1>2
<1>5. ASSUME NEW j \in 1..b - a PROVE SubSeq(w, a + 1, b)[j] = w[a + j]
  <2>1. a + j = m + j - 1 /\ j \in 1..b - m + 1
    BY <1>1
  <2> QED
    BY <1>1, <1>4, <2>1
<1>6. b - m + 1 = b - a
  BY <1>1
<1> QED
  BY <1>1, <1>3, <1>5, <1>6

\* The k-th group of a sequence that is made of groups of four.
LEMMA BlockIsGroup ==
    ASSUME NEW S, NEW n, NEW seqs, Blocks(seqs, 4, n, S), NEW k \in 1..n
    PROVE  Groups(FlattenSeq(seqs), 4) = n /\ Group(FlattenSeq(seqs), 4, k) = seqs[k]
<1>1. PICK w : w = FlattenSeq(seqs)
  OBVIOUS
<1>2. w \in Seq(S) /\ Len(w) = 4 * n /\ Stands(seqs[k], w, 4 * (k - 1))
  BY <1>1, BlocksStand
<1>3. n \in Nat /\ k \in Nat /\ k <= n /\ seqs[k] \in Seq(S) /\ Len(seqs[k]) = 4
  BY DEF Blocks
<1>4. Groups(w, 4) = n
  BY <1>2, <1>3 DEF Groups
<1>5. Group(w, 4, k) = SubSeq(w, (k - 1) * 4 + 1, 4 * k)
  BY <1>2, <1>3 DEF Group
<1>6. PICK a, b : a = (k - 1) * 4 /\ b = 4 * k
  OBVIOUS
<1>7. a \in Nat /\ b = a + 4 /\ b <= Len(w) /\ a = 4 * (k - 1)
  BY <1>2, <1>3, <1>6
<1>8. PICK g : g = SubSeq(w, a + 1, b)
  OBVIOUS
<1>9. g \in Seq(S) /\ Len(g) = 4 /\ \A j \in 1..4 : g[j] = w[a + j]
  <2>1. w \in Seq(S) /\ a \in 0..Len(w) /\ b \in a..Len(w) /\ b - a = 4
    BY <1>2, <1>7
  <2> QED
    BY <1>8, <2>1, PartIs
<1>10. \A j \in 1..4 : seqs[k][j] = w[a + j]
  BY <1>2, <1>3, <1>7 DEF Stands
<1>11. g = seqs[k]
  BY <1>3, <1>9, <1>10
<1> QED
  BY <1>1, <1>4, <1>5, <1>6, <1>8, <1>11

\* The letters p, q, r and s of the bytes x, y and z.
SixBits(x, y, z, p, q, r, s) ==
    p = x \div 4 /\ q = (x % 4) * 16 + y \div 16 /\ r = (y % 16) * 4 + z \div 64 /\ s = z % 64

\* The two parts of a number.
LEMMA TwoParts ==
    ASSUME NEW q, NEW k \in Nat, NEW c \in Nat
    PROVE  /\ q = 16 * k + c /\ c <= 15 => q \div 16 = k /\ q % 16 = c
           /\ q = 4 * k + c /\ c <= 3 => q \div 4 = k /\ q % 4 = c
<1>1. ASSUME q = 16 * k + c, c <= 15 PROVE q \div 16 = k /\ q % 16 = c
  BY <1>1
<1>2. ASSUME q = 4 * k + c, c <= 3 PROVE q \div 4 = k /\ q % 4 = c
  BY <1>2
<1> QED
  BY <1>1, <1>2

\* Eight bits in six, and back.
LEMMA EightBits ==
    ASSUME NEW x \in Byte, NEW y \in Byte, NEW z \in Byte, NEW p, NEW q, NEW r, NEW s, SixBits(x, y, z, p, q, r, s)
    PROVE  /\ p \in 0..63 /\ q \in 0..63 /\ r \in 0..63 /\ s \in 0..63
           /\ p * 4 + q \div 16 = x /\ (q % 16) * 16 + r \div 4 = y /\ (r % 4) * 64 + s = z
<1>1. PICK a \in 0..63, b \in 0..3 : x = 4 * a + b /\ a = x \div 4 /\ b = x % 4
  BY DEF Byte
<1>2. PICK c \in 0..15, d \in 0..15 : y = 16 * c + d /\ c = y \div 16 /\ d = y % 16
  BY DEF Byte
<1>3. PICK e \in 0..3, f \in 0..63 : z = 64 * e + f /\ e = z \div 64 /\ f = z % 64
  BY DEF Byte
<1>4. p = a /\ q = 16 * b + c /\ r = 4 * d + e /\ s = f
  BY <1>1, <1>2, <1>3 DEF SixBits
<1>5. q \div 16 = b /\ q % 16 = c
  <2>1. b \in Nat /\ c \in Nat /\ q = 16 * b + c /\ c <= 15
    BY <1>4
  <2> QED
    BY <2>1, TwoParts
<1>6. r \div 4 = d /\ r % 4 = e
  <2>1. d \in Nat /\ e \in Nat /\ r = 4 * d + e /\ e <= 3
    BY <1>4
  <2> QED
    BY <2>1, TwoParts
<1>7. p * 4 + b = x /\ c * 16 + d = y /\ e * 64 + s = z
  <2>1. p * 4 + b = x
    <3>1. a * 4 + b = x
      BY <1>1
    <3>2. p = a
      BY <1>4
    <3> QED
      BY <3>1, <3>2
  <2>2. c * 16 + d = y
    BY <1>2
  <2>3. e * 64 + s = z
    BY <1>3, <1>4
  <2> QED
    BY <2>1, <2>2, <2>3
<1>8. p \in 0..63 /\ q \in 0..63 /\ r \in 0..63 /\ s \in 0..63
  BY <1>4
<1> QED
  BY <1>5, <1>6, <1>7, <1>8

\* What Encode64 writes of a group: n + 1 letters, and padding.
Encoded(e, l, n) ==
    /\ e \in Seq(Nat) /\ Len(e) = 4 /\ l \in Seq(Nat) /\ Len(l) = n + 1
    /\ \A i \in 1..n + 1 : e[i] = l[i] /\ l[i] <= 63
    /\ \A i \in 1..4 : i >= n + 2 => e[i] = Pad

\* What Letters takes of that.
LEMMA LettersAre ==
    ASSUME NEW e, NEW l, NEW n \in 1..3, Encoded(e, l, n)
    PROVE  Letters(e) = l
<1>0. n \in Nat /\ 1 <= n /\ n <= 3
  OBVIOUS
<1>1. /\ e \in Seq(Nat) /\ Len(e) = 4 /\ l \in Seq(Nat) /\ Len(l) = n + 1
      /\ \A i \in 1..n + 1 : e[i] = l[i] /\ l[i] <= 63
      /\ \A i \in 1..4 : i >= n + 2 => e[i] = 64
  BY DEF Encoded, Pad
<1>2. \A i \in 1..4 : e[i] = 64 <=> i >= n + 2
  <2> TAKE i \in 1..4
  <2>1. CASE i >= n + 2
    BY <1>1, <2>1
  <2>2. CASE ~(i >= n + 2)
    <3>1. i \in 1..n + 1
      BY <1>0, <2>2
    <3>2. e[i] <= 63 /\ e[i] \in Nat
      BY <1>1, <3>1
    <3> QED
      BY <2>2, <3>2
  <2> QED
    BY <2>1, <2>2
<1>3. PICK pads : pads = {i \in DOMAIN e : e[i] = Pad}
  OBVIOUS
<1>4. \A i : i \in pads <=> i \in 1..4 /\ i >= n + 2
  <2>1. DOMAIN e = 1..4
    BY <1>1
  <2> QED
    BY <1>2, <1>3, <2>1 DEF Pad
<1>5. CASE n = 3
  <2>1. pads = {}
    BY <1>0, <1>4, <1>5
  <2>2. Letters(e) = e
    BY <1>3, <2>1 DEF Letters
  <2>3. Len(l) = 4 /\ \A i \in 1..4 : e[i] = l[i]
    BY <1>1, <1>5
  <2>4. e = l
    BY <1>1, <2>3, SMTT(30)
  <2> QED
    BY <2>2, <2>4
<1>6. CASE n # 3
  <2>0. n + 2 \in 1..4
    BY <1>0, <1>6
  <2>1. pads # {} /\ n + 2 \in pads /\ \A j \in pads : n + 2 <= j /\ j \in Nat
    BY <1>0, <1>4, <2>0
  <2>2. PICK m : m = CHOOSE i \in pads : \A j \in pads : i <= j
    OBVIOUS
  <2>3. m \in pads /\ \A j \in pads : m <= j
    BY <2>1, <2>2
  <2>4. m = n + 2
    BY <1>0, <2>1, <2>3
  <2>5. Letters(e) = SubSeq(e, 1, n + 1)
    <3>1. Letters(e) = SubSeq(e, 1, m - 1)
      BY <1>3, <2>1, <2>2 DEF Letters
    <3>2. m - 1 = n + 1
      BY <1>0, <2>4
    <3> QED
      BY <3>1, <3>2
  <2>6. n + 1 \in 0..Len(e) /\ 0 \in 0..Len(e)
    BY <1>0, <1>1
  <2>7. /\ SubSeq(e, 0 + 1, n + 1) \in Seq(Nat) /\ Len(SubSeq(e, 0 + 1, n + 1)) = (n + 1) - 0
        /\ \A j \in 1..(n + 1) - 0 : SubSeq(e, 0 + 1, n + 1)[j] = e[0 + j]
    BY <1>1, <2>6, PartIs
  <2>8. PICK g : g = SubSeq(e, 1, n + 1)
    OBVIOUS
  <2>9. g \in Seq(Nat) /\ Len(g) = n + 1 /\ \A j \in 1..n + 1 : g[j] = e[j]
    BY <2>7, <2>8
  <2>10. \A j \in 1..n + 1 : g[j] = l[j]
    BY <1>1, <2>9
  <2>11. g = l
    BY <1>1, <2>9, <2>10
  <2> QED
    BY <2>5, <2>8, <2>11
<1> QED
  BY <1>5, <1>6

\* A group comes back.
LEMMA GroupComesBack ==
    ASSUME NEW b \in Seq(Byte), Len(b) \in 1..3
    PROVE  /\ Encode64(b) \in Seq(Nat) /\ Len(Encode64(b)) = 4 /\ \A i \in 1..4 : Encode64(b)[i] # Blank
           /\ Decodable(Encode64(b)) /\ Decode64(Encode64(b)) = b
           /\ Pad \in ToSet(Encode64(b)) <=> Len(b) < 3
<1>1. PICK n \in 1..3 : n = Len(b)
  OBVIOUS
<1>0. n \in Nat /\ 1 <= n /\ n <= 3
  OBVIOUS
<1>2. PICK x, y, z : /\ x = b[1] /\ y = (IF n >= 2 THEN b[2] ELSE 0) /\ z = (IF n >= 3 THEN b[3] ELSE 0)
  OBVIOUS
<1>3. x \in Byte /\ y \in Byte /\ z \in Byte
  <2>1. \A i \in 1..n : b[i] \in Byte
    BY <1>1
  <2>2. 0 \in Byte
    BY DEF Byte
  <2> QED
    BY <1>0, <1>2, <2>1, <2>2
<1>4. PICK p, q, r, s : p = x \div 4 /\ q = (x % 4) * 16 + y \div 16 /\ r = (y % 16) * 4 + z \div 64 /\ s = z % 64
  OBVIOUS
<1>5. /\ p \in 0..63 /\ q \in 0..63 /\ r \in 0..63 /\ s \in 0..63
      /\ p * 4 + q \div 16 = x /\ (q % 16) * 16 + r \div 4 = y /\ (r % 4) * 64 + s = z
  <2>1. SixBits(x, y, z, p, q, r, s)
    BY <1>4 DEF SixBits
  <2> QED
    BY <1>3, <2>1, EightBits
<1>6. PICK six : six = <<p, q, r, s>>
  OBVIOUS
<1>7. PICK e : e = [i \in 1..4 |-> IF i <= n + 1 THEN six[i] ELSE Pad]
  OBVIOUS
<1>8. Encode64(b) = e
  BY <1>1, <1>2, <1>4, <1>6, <1>7 DEF Encode64
<1>9. PICK l : l = [i \in 1..n + 1 |-> six[i]]
  OBVIOUS
<1>10. /\ Len(six) = 4 /\ six[1] = p /\ six[2] = q /\ six[3] = r /\ six[4] = s
       /\ \A i \in 1..4 : six[i] \in Nat /\ six[i] <= 63
  BY <1>5, <1>6
<1>11. l \in Seq(Nat) /\ Len(l) = n + 1 /\ \A i \in 1..n + 1 : l[i] = six[i] /\ l[i] \in Nat /\ l[i] <= 63
  <2>1. \A i \in 1..n + 1 : i \in 1..4
    BY <1>0
  <2> QED
    BY <1>0, <1>9, <1>10, <2>1
<1>12. e \in Seq(Nat) /\ Len(e) = 4 /\ \A i \in 1..4 : e[i] = IF i <= n + 1 THEN six[i] ELSE 64
  <2>1. \A i \in 1..4 : e[i] = (IF i <= n + 1 THEN six[i] ELSE 64) /\ e[i] \in Nat
    BY <1>7, <1>10 DEF Pad
  <2> QED
    BY <1>7, <2>1
<1>13. Encoded(e, l, n)
  <2>1. \A i \in 1..n + 1 : i \in 1..4 /\ i <= n + 1
    BY <1>0
  <2>2. \A i \in 1..4 : i >= n + 2 => ~(i <= n + 1)
    BY <1>0
  <2>3. \A i \in 1..n + 1 : e[i] = l[i] /\ l[i] <= 63
    BY <1>11, <1>12, <2>1
  <2>4. \A i \in 1..4 : i >= n + 2 => e[i] = Pad
    BY <1>12, <2>2 DEF Pad
  <2> QED
    BY <1>11, <1>12, <2>3, <2>4 DEF Encoded
<1>14. Letters(e) = l
  BY <1>1, <1>13, LettersAre
<1>15. Decodable(e)
  <2>1. Blank \notin ToSet(l)
    <3>1. DOMAIN l = 1..n + 1
      BY <1>11
    <3>2. \A i \in 1..n + 1 : l[i] # 65
      BY <1>11
    <3> QED
      BY <3>1, <3>2 DEF ToSet, Blank
  <2>2. Len(l) >= 2
    BY <1>0, <1>11
  <2> QED
    BY <1>12, <1>14, <2>1, <2>2 DEF Decodable
<1>16. \A i \in 1..4 : e[i] # Blank
  <2> TAKE i \in 1..4
  <2>1. six[i] # 65
    BY <1>10
  <2> QED
    BY <1>12, <2>1 DEF Blank
<1>17. Pad \in ToSet(e) <=> n < 3
  <2>0. DOMAIN e = 1..4
    BY <1>12
  <2>1. CASE n < 3
    <3>1. e[4] = 64 /\ 4 \in DOMAIN e
      BY <1>0, <1>12, <2>0, <2>1
    <3> QED
      BY <2>1, <3>1 DEF ToSet, Pad
  <2>2. CASE ~(n < 3)
    <3>1. \A i \in 1..4 : e[i] # 64
      <4> TAKE i \in 1..4
      <4>1. i <= n + 1 /\ six[i] # 64
        BY <1>0, <1>10, <2>2
      <4> QED
        BY <1>12, <4>1
    <3> QED
      BY <2>0, <2>2, <3>1 DEF ToSet, Pad
  <2> QED
    BY <2>1, <2>2
<1>18. PICK t, u, v, w : /\ t = l[1] /\ u = l[2] /\ v = (IF n >= 2 THEN l[3] ELSE 0) /\ w = (IF n >= 3 THEN l[4] ELSE 0)
  OBVIOUS
<1>19. PICK bytes : bytes = <<t * 4 + u \div 16, (u % 16) * 16 + v \div 4, (v % 4) * 64 + w>>
  OBVIOUS
<1>20. Decode64(e) = SubSeq(bytes, 1, n)
  <2>1. PICK at : at = [i \in 1..4 |-> IF i <= Len(l) THEN l[i] ELSE 0]
    OBVIOUS
  <2>2. at[1] = t /\ at[2] = u /\ at[3] = v /\ at[4] = w
    BY <1>0, <1>11, <1>18, <2>1
  <2>3. /\ t = (IF 1 <= Len(l) THEN l[1] ELSE 0) /\ u = (IF 2 <= Len(l) THEN l[2] ELSE 0)
        /\ v = (IF 3 <= Len(l) THEN l[3] ELSE 0) /\ w = (IF 4 <= Len(l) THEN l[4] ELSE 0)
    BY <2>1, <2>2
  <2>4. Len(l) - 1 = n
    BY <1>0, <1>11
  <2> QED
    BY <1>14, <1>19, <2>3, <2>4 DEF Decode64
<1>21. bytes \in Seq(Int) /\ Len(bytes) = 3 /\ bytes[1] = x /\ (n >= 2 => bytes[2] = y) /\ (n >= 3 => bytes[3] = z)
  <2>1. t = p /\ u = q /\ (n >= 2 => v = r) /\ (n >= 3 => w = s)
    <3>1. \A i \in 1..n + 1 : l[i] = six[i]
      BY <1>11
    <3>2. 1 \in 1..n + 1 /\ 2 \in 1..n + 1 /\ (n >= 2 => 3 \in 1..n + 1) /\ (n >= 3 => 4 \in 1..n + 1)
      BY <1>0
    <3> QED
      BY <1>10, <1>18, <3>1, <3>2
  <2>2. p \in Int /\ q \in Int /\ r \in Int /\ s \in Int /\ v \in Int /\ w \in Int
    <3>1. p \in Int /\ q \in Int /\ r \in Int /\ s \in Int
      BY <1>5
    <3>2. (n >= 2 => v \in Int) /\ (~(n >= 2) => v = 0) /\ (n >= 3 => w \in Int) /\ (~(n >= 3) => w = 0)
      BY <1>18, <2>1, <3>1
    <3> QED
      BY <3>1, <3>2
  <2>3. PICK b1, b2, b3 : b1 = t * 4 + u \div 16 /\ b2 = (u % 16) * 16 + v \div 4 /\ b3 = (v % 4) * 64 + w
    OBVIOUS
  <2>4. b1 \in Int /\ b2 \in Int /\ b3 \in Int
    BY <2>1, <2>2, <2>3
  <2>5. b1 = x
    BY <1>5, <2>1, <2>3
  <2>6. n >= 2 => b2 = y
    BY <1>5, <2>1, <2>3
  <2>7. n >= 3 => b3 = z
    <3>1. n >= 3 => n >= 2
      BY <1>0
    <3> QED
      BY <1>5, <2>1, <2>3, <3>1
  <2> QED
    BY <1>19, <2>3, <2>4, <2>5, <2>6, <2>7
<1>22. SubSeq(bytes, 1, n) = b
  <2>1. n \in 0..Len(bytes) /\ 0 \in 0..Len(bytes)
    BY <1>0, <1>21
  <2>2. /\ SubSeq(bytes, 0 + 1, n) \in Seq(Int) /\ Len(SubSeq(bytes, 0 + 1, n)) = n - 0
        /\ \A j \in 1..n - 0 : SubSeq(bytes, 0 + 1, n)[j] = bytes[0 + j]
    BY <1>21, <2>1, PartIs
  <2>3. PICK g : g = SubSeq(bytes, 1, n)
    OBVIOUS
  <2>4. g \in Seq(Int) /\ Len(g) = n /\ \A j \in 1..n : g[j] = bytes[j]
    BY <1>1, <2>2, <2>3
  <2>5. \A j \in 1..n : bytes[j] = b[j]
    <3>1. \A j \in 1..n : j = 1 \/ (j = 2 /\ n >= 2) \/ (j = 3 /\ n >= 3)
      BY <1>0
    <3> QED
      BY <1>2, <1>21, <3>1
  <2>6. g = b
    BY <1>1, <2>4, <2>5
  <2> QED
    BY <2>3, <2>6
<1> QED
  BY <1>1, <1>8, <1>12, <1>15, <1>16, <1>17, <1>20, <1>22

\* A function on the first numbers is a sequence.
LEMMA FunctionIsSeq ==
    ASSUME NEW S, NEW n \in Nat, NEW f \in [1..n -> S]
    PROVE  f \in Seq(S) /\ Len(f) = n /\ DOMAIN f = 1..n
<1>1. f \in Seq(S)
  OBVIOUS
<1>2. DOMAIN f = 1..n
  OBVIOUS
<1>3. Len(f) = n
  BY <1>1, <1>2
<1> QED
  BY <1>1, <1>2, <1>3

\* Sequences of c elements each, one after the other: what they make.
LEMMA BlocksMake ==
    ASSUME NEW S, NEW c \in {1, 2}, NEW n, NEW seqs, Blocks(seqs, c, n, S), NEW t \in Seq(S), Len(t) = c * n,
           \A k \in 1..n : \A j \in 1..c : seqs[k][j] = t[c * (k - 1) + j]
    PROVE  FlattenSeq(seqs) = t
<1>1. n \in Nat /\ \A k \in 1..n : Len(seqs[k]) = c
  BY DEF Blocks
<1>2. PICK w : w = FlattenSeq(seqs)
  OBVIOUS
<1>3. w \in Seq(S) /\ Len(w) = c * n /\ \A k \in 1..n : Stands(seqs[k], w, c * (k - 1))
  BY <1>2, BlocksStand
<1>4. \A k \in 1..n : \A j \in 1..c : w[c * (k - 1) + j] = t[c * (k - 1) + j]
  BY <1>1, <1>3 DEF Stands
<1>5. ASSUME NEW i \in 1..Len(w) PROVE w[i] = t[i]
  <2>1. PICK k \in 1..n, j \in 1..c : i = c * (k - 1) + j
    <3>1. CASE c = 1
      BY <1>1, <1>3, <3>1
    <3>2. CASE c = 2
      <4>1. PICK k : k = (i + 1) \div 2
        OBVIOUS
      <4>2. k \in 1..n /\ (i = 2 * (k - 1) + 1 \/ i = 2 * (k - 1) + 2)
        BY <1>1, <1>3, <3>2, <4>1
      <4> QED
        BY <3>2, <4>2
    <3> QED
      BY <3>1, <3>2
  <2> QED
    BY <1>4, <2>1
<1> QED
  BY <1>2, <1>3, <1>5

\* The k-th group of three bytes has one to three.
LEMMA GroupIs ==
    ASSUME NEW bytes \in Seq(Byte), NEW k \in 1..Groups(bytes, 3)
    PROVE  /\ Groups(bytes, 3) \in Nat /\ Group(bytes, 3, k) \in Seq(Byte) /\ Len(Group(bytes, 3, k)) \in 1..3
           /\ Len(Group(bytes, 3, k)) < 3 => k = Groups(bytes, 3)
<1>1. PICK n : n = Len(bytes) /\ n \in Nat
  OBVIOUS
<1>2. PICK g : g = Groups(bytes, 3)
  OBVIOUS
<1>3. g = (n + 2) \div 3 /\ g \in Nat /\ 3 * g >= n /\ 3 * g <= n + 2 /\ k \in 1..g
  <2>1. g = (n + 3 - 1) \div 3
    BY <1>1, <1>2 DEF Groups
  <2> QED
    BY <1>1, <1>2, <2>1
<1>4. PICK a, b : a = (k - 1) * 3 /\ b = IF k * 3 < n THEN k * 3 ELSE n
  OBVIOUS
<1>5. a \in 0..n /\ b \in a..n /\ b - a \in 1..3 /\ (b - a < 3 => k = g)
  <2>1. k \in Nat /\ 1 <= k /\ k <= g /\ a = 3 * k - 3 /\ a \in Nat
    BY <1>3, <1>4
  <2>2. CASE k * 3 < n
    <3>1. b = 3 * k
      BY <1>4, <2>1, <2>2
    <3> QED
      BY <1>1, <2>1, <2>2, <3>1
  <2>3. CASE ~(k * 3 < n)
    <3>1. b = n /\ n <= 3 * k
      BY <1>1, <1>4, <2>1, <2>3
    <3>2. 3 * g <= 3 * k + 2
      BY <1>1, <1>3, <2>1, <3>1
    <3>3. g <= k
      BY <1>3, <2>1, <3>2
    <3>4. k = g
      BY <1>3, <2>1, <3>3
    <3>5. 3 * k <= n + 2
      BY <1>3, <3>4
    <3> QED
      BY <1>1, <2>1, <3>1, <3>4, <3>5
  <2> QED
    BY <2>2, <2>3
<1>6. Group(bytes, 3, k) = SubSeq(bytes, a + 1, b)
  BY <1>1, <1>4 DEF Group
<1>7. SubSeq(bytes, a + 1, b) \in Seq(Byte) /\ Len(SubSeq(bytes, a + 1, b)) = b - a
  BY <1>1, <1>5, PartIs
<1> QED
  BY <1>2, <1>3, <1>5, <1>6, <1>7

\* What BufferEncode64 returns: groups of four letters.
LEMMA EncodedIs ==
    ASSUME NEW bytes \in Seq(Byte), NEW seqs, seqs = [k \in 1..Groups(bytes, 3) |-> Encode64(Group(bytes, 3, k))]
    PROVE  /\ Blocks(seqs, 4, Groups(bytes, 3), Nat)
           /\ BufferEncode64(bytes) \in Seq(Nat) /\ Len(BufferEncode64(bytes)) = 4 * Groups(bytes, 3)
           /\ \A i \in DOMAIN BufferEncode64(bytes) : BufferEncode64(bytes)[i] # Blank
<1>1. PICK g : g = Groups(bytes, 3)
  OBVIOUS
<1>2. g \in Nat
  <2>1. Len(bytes) \in Nat
    OBVIOUS
  <2>2. g = (Len(bytes) + 3 - 1) \div 3
    BY <1>1 DEF Groups
  <2> QED
    BY <2>1, <2>2
<1>3. \A k \in 1..g : seqs[k] \in Seq(Nat) /\ Len(seqs[k]) = 4 /\ \A i \in 1..4 : seqs[k][i] # Blank
  <2> TAKE k \in 1..g
  <2>1. Group(bytes, 3, k) \in Seq(Byte) /\ Len(Group(bytes, 3, k)) \in 1..3
    BY <1>1, GroupIs
  <2>2. seqs[k] = Encode64(Group(bytes, 3, k))
    BY <1>1
  <2>3. PICK b : b = Group(bytes, 3, k)
    OBVIOUS
  <2> QED
    BY <2>1, <2>2, <2>3, GroupComesBack
<1>4. Blocks(seqs, 4, g, Nat)
  <2>1. seqs = [k \in 1..g |-> seqs[k]]
    BY <1>1
  <2>2. seqs \in [1..g -> Seq(Nat)]
    BY <1>3, <2>1
  <2>3. seqs \in Seq(Seq(Nat)) /\ Len(seqs) = g
    BY <1>2, <2>2, FunctionIsSeq
  <2> QED
    BY <1>2, <1>3, <2>3 DEF Blocks
<1>5. PICK w : w = FlattenSeq(seqs)
  OBVIOUS
<1>6. BufferEncode64(bytes) = w
  BY <1>5 DEF BufferEncode64
<1>7. w \in Seq(Nat) /\ Len(w) = 4 * g /\ \A k \in 1..g : Stands(seqs[k], w, 4 * (k - 1))
  <2>1. 4 \in {1, 2, 4} /\ Blocks(seqs, 4, g, Nat)
    BY <1>4
  <2>2. /\ FlattenSeq(seqs) \in Seq(Nat) /\ Len(FlattenSeq(seqs)) = 4 * g
        /\ \A k \in 1..g : Stands(seqs[k], FlattenSeq(seqs), 4 * (k - 1))
    BY <2>1, BlocksStand, Zenon
  <2> QED
    BY <1>5, <2>2, Zenon
<1>8. ASSUME NEW i \in DOMAIN w PROVE w[i] # Blank
  <2>1. i \in Nat /\ 1 <= i /\ i <= 4 * g
    BY <1>2, <1>7
  <2>2. PICK k \in 1..g, j \in 1..4 : i = 4 * (k - 1) + j
    <3>1. PICK k : k = (i + 3) \div 4
      OBVIOUS
    <3>2. k \in 1..g /\ i - 4 * (k - 1) \in 1..4
      BY <1>2, <2>1, <3>1, SMTT(30)
    <3>3. i = 4 * (k - 1) + (i - 4 * (k - 1))
      BY <2>1, <3>2
    <3> QED
      BY <3>2, <3>3
  <2>3. w[4 * (k - 1) + j] = seqs[k][j]
    BY <1>3, <1>7, <2>2 DEF Stands
  <2> QED
    BY <1>3, <2>2, <2>3
<1> QED
  BY <1>1, <1>4, <1>6, <1>7, <1>8

\* Letters that are no blanks, and those with blanks between them, are the same without blanks.
LEMMA BlanksDropped ==
    ASSUME NEW w \in Seq(Nat), \A i \in DOMAIN w : w[i] # Blank, NEW x,
           x = w \/ x = FlattenSeq([i \in DOMAIN w |-> <<w[i], Blank>>])
    PROVE  WithoutBlanks(x) = w /\ LeadingBlanks(x) = 0 /\ (x = <<>> <=> w = <<>>)
<1>1. PICK n : n = Len(w) /\ n \in Nat
  OBVIOUS
<1>2. DOMAIN w = 1..n /\ \A i \in 1..n : w[i] \in Nat /\ w[i] # Blank
  BY <1>1
<1>3. PICK pieces : pieces = [i \in DOMAIN x |-> IF x[i] = Blank THEN <<>> ELSE <<x[i]>>]
  OBVIOUS
<1>4. WithoutBlanks(x) = FlattenSeq(pieces)
  BY <1>3 DEF WithoutBlanks
<1>5. x \in Seq(Nat) /\ DOMAIN x = 1..Len(x) /\ (n > 0 => Len(x) > 0 /\ x[1] # Blank) /\ (n = 0 => Len(x) = 0)
      /\ WithoutBlanks(x) = w
  <2>1. CASE x = w
    <3>1. pieces = [i \in 1..n |-> <<w[i]>>]
      BY <1>2, <1>3, <2>1
    <3>2. pieces \in [1..n -> Seq(Nat)]
      BY <1>2, <3>1
    <3>3. pieces \in Seq(Seq(Nat)) /\ Len(pieces) = n
      BY <1>1, <3>2, FunctionIsSeq
    <3>4. \A k \in 1..n : Len(pieces[k]) = 1 /\ pieces[k][1] = w[k]
      BY <3>1
    <3>5. Blocks(pieces, 1, n, Nat)
      BY <1>1, <3>3, <3>4 DEF Blocks
    <3>6. \A k \in 1..n : \A j \in 1..1 : pieces[k][j] = w[1 * (k - 1) + j]
      <4> TAKE k \in 1..n
      <4> TAKE j \in 1..1
      <4>1. j = 1 /\ 1 * (k - 1) + j = k
        BY <1>1
      <4> QED
        BY <3>4, <4>1
    <3>7. Len(w) = 1 * n
      BY <1>1
    <3>8. FlattenSeq(pieces) = w
      <4>1. 1 \in {1, 2}
        OBVIOUS
      <4> QED
        BY <3>5, <3>6, <3>7, <4>1, BlocksMake
    <3> QED
      BY <1>1, <1>2, <1>4, <2>1, <3>8
  <2>2. CASE x = FlattenSeq([i \in DOMAIN w |-> <<w[i], Blank>>])
    <3>1. PICK pairs : pairs = [i \in 1..n |-> <<w[i], Blank>>]
      OBVIOUS
    <3>2. Blank \in Nat
      BY DEF Blank
    <3>3. pairs \in [1..n -> Seq(Nat)]
      BY <1>2, <3>1, <3>2
    <3>4. pairs \in Seq(Seq(Nat)) /\ Len(pairs) = n
      BY <1>1, <3>3, FunctionIsSeq
    <3>5. \A k \in 1..n : Len(pairs[k]) = 2 /\ pairs[k][1] = w[k] /\ pairs[k][2] = Blank
      BY <3>1
    <3>6. Blocks(pairs, 2, n, Nat)
      BY <1>1, <3>4, <3>5 DEF Blocks
    <3>7. x = FlattenSeq(pairs)
      BY <1>2, <2>2, <3>1
    <3>8. x \in Seq(Nat) /\ Len(x) = 2 * n /\ \A k \in 1..n : Stands(pairs[k], x, 2 * (k - 1))
      <4>1. 2 \in {1, 2, 4}
        OBVIOUS
      <4>2. /\ FlattenSeq(pairs) \in Seq(Nat) /\ Len(FlattenSeq(pairs)) = 2 * n
            /\ \A k \in 1..n : Stands(pairs[k], FlattenSeq(pairs), 2 * (k - 1))
        BY <3>6, <4>1, BlocksStand, Zenon
      <4> QED
        BY <3>7, <4>2, Zenon
    <3>9. \A k \in 1..n : x[2 * (k - 1) + 1] = w[k] /\ x[2 * (k - 1) + 2] = Blank
      <4> TAKE k \in 1..n
      <4>1. PICK p : p = 2 * (k - 1)
        OBVIOUS
      <4>2. Stands(pairs[k], x, p)
        BY <3>8, <4>1
      <4>3. x[p + 1] = w[k] /\ x[p + 2] = Blank
        <5>1. Len(pairs[k]) = 2 /\ pairs[k][1] = w[k] /\ pairs[k][2] = Blank
          BY <3>5
        <5> QED
          BY <4>2, <5>1 DEF Stands
      <4> QED
        BY <4>1, <4>3
    <3>10. pieces = [i \in 1..2 * n |-> IF x[i] = Blank THEN <<>> ELSE <<x[i]>>]
      BY <1>1, <1>3, <3>8
    <3>11. 2 * n \in Nat
      BY <1>1
    <3>12. pieces \in [1..2 * n -> Seq(Nat)]
      <4>1. \A i \in 1..2 * n : x[i] \in Nat
        BY <1>1, <3>8
      <4>2. \A i \in 1..2 * n : (IF x[i] = Blank THEN <<>> ELSE <<x[i]>>) \in Seq(Nat)
        BY <4>1
      <4> QED
        BY <3>10, <4>2
    <3>13. pieces \in Seq(Seq(Nat)) /\ Len(pieces) = 2 * n
      BY <3>11, <3>12, FunctionIsSeq
    <3>14. PICK ends : ends = [i \in 0..2 * n |-> (i + 1) \div 2]
      OBVIOUS
    <3>15. ends[0] = 0 /\ ends[2 * n] = n
      BY <1>1, <3>11, <3>14
    <3>16. \A i \in 0..2 * n : ends[i] \in 0..n
      BY <1>1, <3>14
    <3>17. \A i \in 1..2 * n : pieces[i] = SubSeq(w, ends[i - 1] + 1, ends[i]) /\ ends[i - 1] <= ends[i]
      <4> TAKE i \in 1..2 * n
      <4>1. ends[i] = (i + 1) \div 2 /\ ends[i - 1] = i \div 2
        <5>1. i - 1 \in 0..2 * n /\ i \in 0..2 * n /\ (i - 1) + 1 = i
          BY <3>11
        <5> QED
          BY <3>14, <5>1
      <4>2. PICK k \in 1..n : i = 2 * (k - 1) + 1 \/ i = 2 * (k - 1) + 2
        <5>1. PICK k : k = (i + 1) \div 2
          OBVIOUS
        <5>2. k \in 1..n /\ (i = 2 * (k - 1) + 1 \/ i = 2 * (k - 1) + 2)
          BY <1>1, <5>1
        <5> QED
          BY <5>2
      <4>3. CASE i = 2 * (k - 1) + 1
        <5>1. x[i] = w[k] /\ w[k] # Blank /\ pieces[i] = <<w[k]>>
          BY <1>2, <3>9, <3>10, <4>3
        <5>2. ends[i] = k /\ ends[i - 1] = k - 1
          BY <1>1, <4>1, <4>3
        <5>3. SubSeq(w, (k - 1) + 1, k) = <<w[k]>>
          <6>1. k - 1 \in 0..Len(w) /\ k \in k - 1..Len(w) /\ k - (k - 1) = 1 /\ (k - 1) + 1 = k
            BY <1>1
          <6>2. PICK g : g = SubSeq(w, (k - 1) + 1, k)
            OBVIOUS
          <6>3. g \in Seq(Nat) /\ Len(g) = 1 /\ g[1] = w[k]
            BY <6>1, <6>2, PartIs
          <6>4. PICK h : h = <<w[k]>>
            OBVIOUS
          <6>5. h \in Seq(Nat) /\ Len(h) = 1 /\ h[1] = w[k]
            BY <1>2, <6>4
          <6>6. g = h
            BY <6>3, <6>5
          <6> QED
            BY <6>2, <6>4, <6>6
        <5> QED
          BY <1>1, <5>1, <5>2, <5>3
      <4>4. CASE i = 2 * (k - 1) + 2
        <5>1. x[i] = Blank /\ pieces[i] = <<>>
          BY <3>9, <3>10, <4>4
        <5>2. ends[i] = k /\ ends[i - 1] = k
          BY <1>1, <4>1, <4>4
        <5>3. SubSeq(w, k + 1, k) = <<>>
          BY <1>1
        <5> QED
          BY <1>1, <5>1, <5>2, <5>3
      <4> QED
        BY <4>2, <4>3, <4>4
    <3>18. FlattenSeq(pieces) = SubSeq(w, 1, ends[Len(pieces)])
      <4>1. \A i \in 0..Len(pieces) : ends[i] \in 0..Len(w)
        BY <1>1, <3>13, <3>16
      <4>2. \A i \in 1..Len(pieces) : pieces[i] = SubSeq(w, ends[i - 1] + 1, ends[i]) /\ ends[i - 1] <= ends[i]
        BY <3>13, <3>17
      <4>3. pieces \in Seq(Seq(Nat))
        BY <3>13
      <4> QED
        BY <3>15, <4>1, <4>2, <4>3, FlattenPieces, Zenon
    <3>19. SubSeq(w, 1, ends[Len(pieces)]) = w
      BY <1>1, <3>13, <3>15
    <3>20. n > 0 => x[1] # Blank
      <4> SUFFICES ASSUME n > 0 PROVE x[1] # Blank
        OBVIOUS
      <4>1. 1 \in 1..n /\ 2 * (1 - 1) + 1 = 1
        BY <1>1
      <4>2. x[2 * (1 - 1) + 1] = w[1] /\ w[1] # Blank
        BY <1>2, <3>9, <4>1
      <4> QED
        BY <4>1, <4>2
    <3> QED
      BY <1>1, <1>4, <3>8, <3>18, <3>19, <3>20
  <2> QED
    BY <2>1, <2>2
<1>6. LeadingBlanks(x) = 0
  <2>1. PICK full : full = {i \in DOMAIN x : x[i] # Blank}
    OBVIOUS
  <2>2. CASE n = 0
    <3>1. full = {}
      BY <1>5, <2>1, <2>2
    <3> QED
      BY <1>5, <2>1, <2>2, <3>1 DEF LeadingBlanks
  <2>3. CASE n > 0
    <3>1. 1 \in full /\ \A j \in full : 1 <= j /\ j \in Nat
      BY <1>5, <2>1, <2>3
    <3>2. PICK m : m = CHOOSE i \in full : \A j \in full : i <= j
      OBVIOUS
    <3>3. m \in full /\ \A j \in full : m <= j
      BY <3>1, <3>2
    <3>4. m = 1
      BY <3>1, <3>3
    <3>5. LeadingBlanks(x) = m - 1
      BY <2>1, <3>1, <3>2 DEF LeadingBlanks
    <3> QED
      BY <3>4, <3>5
  <2> QED
    BY <1>1, <2>2, <2>3
<1>7. x = <<>> <=> w = <<>>
  <2>1. (x = <<>> <=> Len(x) = 0) /\ (w = <<>> <=> n = 0) /\ Len(x) \in Nat
    BY <1>1, <1>5
  <2> QED
    BY <1>1, <1>5, <2>1
<1> QED
  BY <1>5, <1>6, <1>7

\* What was encoded is decoded.
LEMMA BytesComeBack ==
    ASSUME NEW bytes \in Seq(Byte), bytes # <<>>
    PROVE  BufferEncode64(bytes) # <<>> /\ BufferDecode64(BufferEncode64(bytes)) = [ok |-> TRUE, bytes |-> bytes]
<1>1. PICK n : n = Len(bytes) /\ n \in Nat /\ n > 0
  OBVIOUS
<1>2. PICK g : g = Groups(bytes, 3)
  OBVIOUS
<1>3. g \in Nat /\ g > 0 /\ 3 * g >= n /\ 3 * g <= n + 2
  <2>1. g = (n + 3 - 1) \div 3
    BY <1>1, <1>2 DEF Groups
  <2> QED
    BY <1>1, <2>1
<1>4. PICK seqs : seqs = [k \in 1..g |-> Encode64(Group(bytes, 3, k))]
  OBVIOUS
<1>5. PICK w : w = BufferEncode64(bytes)
  OBVIOUS
<1>6. Blocks(seqs, 4, g, Nat) /\ w \in Seq(Nat) /\ Len(w) = 4 * g
  BY <1>2, <1>4, <1>5, EncodedIs
<1>7. w = FlattenSeq(seqs)
  BY <1>2, <1>4, <1>5 DEF BufferEncode64
<1>8. ASSUME NEW k \in 1..g PROVE Groups(w, 4) = g /\ Group(w, 4, k) = Encode64(Group(bytes, 3, k))
  <2>1. Groups(FlattenSeq(seqs), 4) = g /\ Group(FlattenSeq(seqs), 4, k) = seqs[k]
    BY <1>6, BlockIsGroup
  <2>2. seqs[k] = Encode64(Group(bytes, 3, k))
    BY <1>4
  <2> QED
    BY <1>7, <2>1, <2>2
<1>9. 1 \in 1..g /\ g \in 1..g
  BY <1>3
<1>10. Groups(w, 4) = g
  BY <1>8, <1>9
<1>11. ASSUME NEW k \in 1..g
       PROVE  /\ Group(bytes, 3, k) \in Seq(Byte) /\ Decodable(Group(w, 4, k))
              /\ Decode64(Group(w, 4, k)) = Group(bytes, 3, k) /\ (Pad \in ToSet(Group(w, 4, k)) => k = g)
  <2>1. PICK b : b = Group(bytes, 3, k)
    OBVIOUS
  <2>2. b \in Seq(Byte) /\ Len(b) \in 1..3 /\ (Len(b) < 3 => k = g)
    BY <1>2, <2>1, GroupIs
  <2>3. Decodable(Encode64(b)) /\ Decode64(Encode64(b)) = b /\ (Pad \in ToSet(Encode64(b)) <=> Len(b) < 3)
    BY <2>2, GroupComesBack
  <2>4. Group(w, 4, k) = Encode64(b)
    BY <1>8, <2>1
  <2> QED
    BY <2>1, <2>2, <2>3, <2>4
<1>12. PICK short : short = {k \in 1..Groups(w, 4) : Pad \in ToSet(Group(w, 4, k))}
  OBVIOUS
<1>13. \A k \in short : k = g
  BY <1>10, <1>11, <1>12
<1> DEFINE last == IF short = {} THEN Groups(w, 4) ELSE CHOOSE k \in short : \A j \in short : k <= j
<1>15. last = g
  <2>1. CASE short = {}
    BY <1>10, <2>1
  <2>2. CASE short # {}
    <3>1. g \in short /\ \A j \in short : g <= j
      BY <1>3, <1>13, <2>2
    <3>2. last = CHOOSE k \in short : \A j \in short : k <= j
      BY <2>2
    <3>3. last \in short
      BY <3>1, <3>2
    <3> QED
      BY <1>13, <3>3
  <2> QED
    BY <2>1, <2>2
<1>16. PICK parts : parts = [k \in 1..last |-> Decode64(Group(w, 4, k))]
  OBVIOUS
<1>17. BufferDecode64(w) = [ok |-> w # <<>> /\ \A k \in 1..last : Decodable(Group(w, 4, k)), bytes |-> FlattenSeq(parts)]
  BY <1>12, <1>16, Zenon DEF BufferDecode64
<1> HIDE DEF last
<1>18. w # <<>>
  BY <1>3, <1>6
<1>19. \A k \in 1..last : Decodable(Group(w, 4, k))
  BY <1>11, <1>15
<1>20. parts = [k \in 1..g |-> Group(bytes, 3, k)]
  BY <1>11, <1>15, <1>16
<1>21. parts \in [1..g -> Seq(Byte)]
  BY <1>11, <1>20
<1>22. parts \in Seq(Seq(Byte)) /\ Len(parts) = g
  BY <1>3, <1>21, FunctionIsSeq
<1>23. PICK ends : ends = [k \in 0..g |-> IF k * 3 < n THEN k * 3 ELSE n]
  OBVIOUS
<1>24. ends[0] = 0 /\ ends[g] = n
  <2>1. 0 \in 0..g /\ g \in 0..g /\ 0 * 3 = 0 /\ ~(g * 3 < n)
    BY <1>1, <1>3
  <2> QED
    BY <1>1, <1>23, <2>1
<1>25. \A k \in 0..g : ends[k] \in 0..n
  BY <1>1, <1>3, <1>23
<1>26. \A k \in 1..g : parts[k] = SubSeq(bytes, ends[k - 1] + 1, ends[k]) /\ ends[k - 1] <= ends[k]
  <2> TAKE k \in 1..g
  <2>1. k - 1 \in 0..g /\ k \in 0..g /\ k \in Nat
    BY <1>3
  <2>2. (k - 1) * 3 < n
    <3>1. 3 * k <= 3 * g
      BY <1>3, <2>1
    <3>2. 3 * k <= n + 2 /\ (k - 1) * 3 = 3 * k - 3
      BY <1>1, <1>3, <2>1, <3>1
    <3> QED
      BY <1>1, <2>1, <3>2
  <2>3. ends[k - 1] = (k - 1) * 3 /\ ends[k] = (IF k * 3 < n THEN k * 3 ELSE n)
    BY <1>23, <2>1, <2>2
  <2>4. parts[k] = SubSeq(bytes, (k - 1) * 3 + 1, IF k * 3 < n THEN k * 3 ELSE n)
    BY <1>1, <1>20 DEF Group
  <2>5. (k - 1) * 3 <= IF k * 3 < n THEN k * 3 ELSE n
    BY <1>1, <2>1, <2>2
  <2> QED
    BY <2>3, <2>4, <2>5
<1>27. FlattenSeq(parts) = SubSeq(bytes, 1, ends[Len(parts)])
  <2>1. \A i \in 0..Len(parts) : ends[i] \in 0..Len(bytes)
    BY <1>1, <1>22, <1>25
  <2>2. \A i \in 1..Len(parts) : parts[i] = SubSeq(bytes, ends[i - 1] + 1, ends[i]) /\ ends[i - 1] <= ends[i]
    BY <1>22, <1>26
  <2>3. parts \in Seq(Seq(Byte)) /\ ends[0] = 0
    BY <1>22, <1>24
  <2> QED
    BY <2>1, <2>2, <2>3, FlattenPieces, Zenon
<1>28. SubSeq(bytes, 1, ends[Len(parts)]) = bytes
  BY <1>1, <1>22, <1>24
<1>29. (w # <<>> /\ \A k \in 1..last : Decodable(Group(w, 4, k))) = TRUE
  BY <1>18, <1>19
<1> QED
  BY <1>5, <1>17, <1>18, <1>27, <1>28, <1>29

\* So are bytes as they are read, with or without blanks between the letters.
LEMMA Base64ComesBack ==
    ASSUME NEW bytes \in Seq(Byte), NEW x,
           x = BufferEncode64(bytes)
           \/ x = FlattenSeq([i \in DOMAIN BufferEncode64(bytes) |-> <<BufferEncode64(bytes)[i], Blank>>])
    PROVE  Base64Value(x) = IF bytes = <<>> THEN EmptyValue ELSE [com |-> Bytes, bytes |-> bytes]
<1>1. PICK w : w = BufferEncode64(bytes)
  OBVIOUS
<1>2. w \in Seq(Nat) /\ (\A i \in DOMAIN w : w[i] # Blank) /\ Len(w) = 4 * Groups(bytes, 3)
  BY <1>1, EncodedIs
<1>3. WithoutBlanks(x) = w /\ LeadingBlanks(x) = 0 /\ (x = <<>> <=> w = <<>>)
  <2>1. x = w \/ x = FlattenSeq([i \in DOMAIN w |-> <<w[i], Blank>>])
    BY <1>1
  <2> QED
    BY <1>2, <2>1, BlanksDropped, Zenon
<1>4. [i \in 1..LeadingBlanks(x) |-> Blank] \o WithoutBlanks(x) = w
  <2>1. [i \in 1..0 |-> Blank] = <<>>
    OBVIOUS
  <2>2. <<>> \o w = w
    BY <1>2
  <2> QED
    BY <1>3, <2>1, <2>2
<1>5. CASE bytes = <<>>
  <2>1. Groups(bytes, 3) = 0
    BY <1>5 DEF Groups
  <2>2. w = <<>>
    BY <1>2, <2>1
  <2> QED
    BY <1>3, <1>5, <2>2 DEF Base64Value
<1>6. CASE bytes # <<>>
  <2>1. w # <<>> /\ BufferDecode64(w) = [ok |-> TRUE, bytes |-> bytes]
    BY <1>1, <1>6, BytesComeBack
  <2>2. PICK data : data = BufferDecode64(w)
    OBVIOUS
  <2>3. data.ok = TRUE /\ data.bytes = bytes
    BY <2>1, <2>2
  <2>4. Base64Value(x) = IF x = <<>> THEN EmptyValue ELSE Unless(~data.ok, [com |-> Bytes, bytes |-> data.bytes])
    BY <1>4, <2>2 DEF Base64Value
  <2> QED
    BY <1>3, <1>6, <2>1, <2>3, <2>4 DEF Unless
<1> QED
  BY <1>5, <1>6

\* A byte is its two digits.
LEMMA HexComesBack ==
    ASSUME NEW bytes \in Seq(Byte)
    PROVE  HexValue(HexDigits(bytes)) = [com |-> Bytes, bytes |-> bytes]
<1>1. PICK n : n = Len(bytes) /\ n \in Nat
  OBVIOUS
<1>2. DOMAIN bytes = 1..n /\ \A i \in 1..n : bytes[i] \in 0..255
  BY <1>1 DEF Byte
<1>3. PICK pairs : pairs = [i \in 1..n |-> <<bytes[i] \div 16, bytes[i] % 16>>]
  OBVIOUS
<1>4. \A i \in 1..n : /\ bytes[i] \div 16 \in 0..15 /\ bytes[i] % 16 \in 0..15
                      /\ (bytes[i] \div 16) * 16 + (bytes[i] % 16) = bytes[i]
  <2> TAKE i \in 1..n
  <2>1. PICK b \in 0..255 : b = bytes[i]
    BY <1>2
  <2>2. b \div 16 \in 0..15 /\ b % 16 \in 0..15 /\ (b \div 16) * 16 + (b % 16) = b
    OBVIOUS
  <2> QED
    BY <2>1, <2>2
<1>5. pairs \in [1..n -> Seq(Nat)]
  <2>1. \A i \in 1..n : <<bytes[i] \div 16, bytes[i] % 16>> \in Seq(Nat)
    <3> TAKE i \in 1..n
    <3>1. PICK p, q : p = bytes[i] \div 16 /\ q = bytes[i] % 16
      OBVIOUS
    <3>2. p \in 0..15 /\ q \in 0..15
      BY <1>4, <3>1
    <3>4. p \in Nat /\ q \in Nat
      BY <3>2
    <3>3. <<p, q>> \in Seq(Nat)
      BY <3>4
    <3> QED
      BY <3>1, <3>3
  <2> QED
    BY <1>3, <2>1
<1>6. pairs \in Seq(Seq(Nat)) /\ Len(pairs) = n
  BY <1>1, <1>5, FunctionIsSeq
<1>7. \A k \in 1..n : Len(pairs[k]) = 2 /\ pairs[k][1] = bytes[k] \div 16 /\ pairs[k][2] = bytes[k] % 16
  BY <1>3
<1>8. Blocks(pairs, 2, n, Nat)
  BY <1>1, <1>6, <1>7 DEF Blocks
<1>9. PICK w : w = FlattenSeq(pairs)
  OBVIOUS
<1>10. HexDigits(bytes) = w
  BY <1>2, <1>3, <1>9 DEF HexDigits
<1>11. w \in Seq(Nat) /\ Len(w) = 2 * n /\ \A k \in 1..n : Stands(pairs[k], w, 2 * (k - 1))
  <2>1. 2 \in {1, 2, 4}
    OBVIOUS
  <2>2. /\ FlattenSeq(pairs) \in Seq(Nat) /\ Len(FlattenSeq(pairs)) = 2 * n
        /\ \A k \in 1..n : Stands(pairs[k], FlattenSeq(pairs), 2 * (k - 1))
    BY <1>8, <2>1, BlocksStand, Zenon
  <2> QED
    BY <1>9, <2>2, Zenon
<1>12. \A k \in 1..n : w[2 * (k - 1) + 1] = bytes[k] \div 16 /\ w[2 * (k - 1) + 2] = bytes[k] % 16
  <2> TAKE k \in 1..n
  <2>1. PICK p : p = 2 * (k - 1)
    OBVIOUS
  <2>2. Stands(pairs[k], w, p)
    BY <1>11, <2>1
  <2>3. w[p + 1] = bytes[k] \div 16 /\ w[p + 2] = bytes[k] % 16
    BY <1>7, <2>2 DEF Stands
  <2> QED
    BY <2>1, <2>3
<1>13. Blank \notin ToSet(w)
  <2> SUFFICES ASSUME NEW i \in DOMAIN w PROVE w[i] # Blank
    BY DEF ToSet
  <2>1. PICK k : k = (i + 1) \div 2
    OBVIOUS
  <2>2. k \in 1..n /\ (i = 2 * (k - 1) + 1 \/ i = 2 * (k - 1) + 2)
    <3>1. i \in Nat /\ 1 <= i /\ i <= 2 * n
      BY <1>1, <1>11
    <3>2. k \in Nat /\ (i = 2 * k - 1 \/ i = 2 * k)
      BY <2>1, <3>1
    <3> QED
      BY <1>1, <3>1, <3>2
  <2>3. w[i] \in 0..15
    BY <1>4, <1>12, <2>2
  <2> QED
    BY <2>3 DEF Blank
<1>14. [i \in 1..(Len(w) \div 2) |-> w[2 * i - 1] * 16 + w[2 * i]] = bytes
  <2>1. Len(w) \div 2 = n
    BY <1>1, <1>11
  <2>2. \A i \in 1..n : w[2 * i - 1] * 16 + w[2 * i] = bytes[i]
    <3> TAKE i \in 1..n
    <3>1. 2 * i - 1 = 2 * (i - 1) + 1 /\ 2 * i = 2 * (i - 1) + 2
      BY <1>1
    <3>2. w[2 * i - 1] = bytes[i] \div 16 /\ w[2 * i] = bytes[i] % 16
      BY <1>12, <3>1, Zenon
    <3>3. (bytes[i] \div 16) * 16 + (bytes[i] % 16) = bytes[i]
      BY <1>4
    <3> QED
      BY <3>2, <3>3, Zenon
  <2>3. bytes = [i \in 1..n |-> bytes[i]]
    BY <1>1
  <2> QED
    BY <2>1, <2>2, <2>3
<1>15. ~(Len(w) % 2 > 0)
  BY <1>1, <1>11
<1> QED
  BY <1>10, <1>13, <1>14, <1>15 DEF HexValue, Unless

\* A value, how it is written, and how it is read: the kinds of values a method can return as it
\* got them.  The bytes of an array are 0 to 255, a number is in the range of its type, and a
\* long's low half has no sign.  (hexBinary reads nothing as no bytes, where base64 reads EMPTY.)
Convertible(v, by, read, com) ==
    \/ /\ \E a \in {Bytes, ArrayOf("I1")}, bytes \in Seq(Byte) : v = [com |-> a, bytes |-> bytes]
       /\ by = "b64" /\ read = "b64"
    \/ /\ \E a \in {Bytes, ArrayOf("I1")}, bytes \in Seq(Byte) : v = [com |-> a, bytes |-> bytes] /\ bytes # <<>>
       /\ by = "hexbin" /\ read = "hexbin"
    \/ (\E mins \in Int : v = Date(mins)) /\ by = "ds" /\ read = "ds"
    \/ (\E b \in {0, -1} : v = [com |-> One("BOOL"), b |-> b]) /\ by = "bools" /\ read = "bools" /\ com = One("BOOL")
    \/ (\E hi \in Int, lo \in 0..Word - 1 : v = Long(hi, lo)) /\ by = "xsdlong" /\ read = "xsdlong"
    \/ /\ \E vt \in Numbers, n \in Int : v = Number(vt, n) /\ InRange(vt, n) /\ com = One(vt)
       /\ by = "ss" /\ read = "ss"
    \/ /\ v = EmptyValue \/ \E s \in STRING : v = Text([str |-> s])
       /\ by = "ss" /\ ((read = "ss" /\ com = One("BSTR")) \/ read = "ns")

\* Base64 and hexBinary.
LEMMA BytesReturn ==
    ASSUME NEW a \in {Bytes, ArrayOf("I1")}, NEW bytes \in Seq(Byte), NEW v, v = [com |-> a, bytes |-> bytes],
           NEW by, by = "b64" \/ (by = "hexbin" /\ bytes # <<>>),
           NEW label, NEW com, NEW table, NEW scopes, NEW text, text = Serialized(by, label, v, table),
           NEW back \in {text, Reworded(text)}
    PROVE  Characters(by, label, com, back, scopes) = Normal(v, label)
<1>1. v.com = a /\ v.bytes = bytes /\ v.com \in {Bytes, ArrayOf("I1")}
  OBVIOUS
<1>2. Normal(v, label) = IF bytes = <<>> THEN EmptyValue ELSE [com |-> Bytes, bytes |-> bytes]
  <2>1. Normal(v, label) = IF v.bytes = <<>> THEN EmptyValue ELSE [com |-> Bytes, bytes |-> v.bytes]
    BY <1>1 DEF Normal, Bytes, ArrayOf, One, EmptyValue
  <2> QED
    BY <1>1, <2>1, Zenon
<1>3. CASE by = "b64"
  <2>1. PICK w : w = BufferEncode64(bytes)
    OBVIOUS
  <2>2. text = [b64 |-> w]
    BY <1>1, <1>3, <2>1 DEF Serialized
  <2>3. "part" \notin DOMAIN text /\ "word" \notin DOMAIN text /\ "b64" \in DOMAIN text /\ text.b64 = w
    BY <2>2
  <2>4. Reworded(text) = [b64 |-> FlattenSeq([i \in DOMAIN w |-> <<w[i], Blank>>])]
    <3>1. Reworded(text) = [b64 |-> FlattenSeq([i \in DOMAIN text.b64 |-> <<text.b64[i], Blank>>])]
      BY <2>3 DEF Reworded
    <3> QED
      BY <2>3, <3>1, Zenon
  <2>5. PICK x : /\ back = [b64 |-> x]
                 /\ x = w \/ x = FlattenSeq([i \in DOMAIN w |-> <<w[i], Blank>>])
    BY <2>2, <2>4
  <2>6. "b64" \in DOMAIN back /\ back.b64 = x
    BY <2>5
  <2>7. Deserialized(by, label, com, back, scopes) = Base64Value(x)
    BY <1>3, <2>6 DEF Deserialized
  <2>8. Base64Value(x) = IF bytes = <<>> THEN EmptyValue ELSE [com |-> Bytes, bytes |-> bytes]
    <3>1. x = BufferEncode64(bytes)
          \/ x = FlattenSeq([i \in DOMAIN BufferEncode64(bytes) |-> <<BufferEncode64(bytes)[i], Blank>>])
      BY <2>1, <2>5
    <3> QED
      BY <3>1, Base64ComesBack
  <2>9. Characters(by, label, com, back, scopes) = Deserialized(by, label, com, back, scopes)
    BY <1>3 DEF Characters
  <2> QED
    BY <1>2, <2>7, <2>8, <2>9
<1>4. CASE by = "hexbin" /\ bytes # <<>>
  <2>1. PICK w : w = HexDigits(bytes)
    OBVIOUS
  <2>2. text = [hex |-> w]
    BY <1>1, <1>4, <2>1 DEF Serialized
  <2>3. DOMAIN text = {"hex"}
    BY <2>2
  <2>4. "part" \notin DOMAIN text /\ "b64" \notin DOMAIN text /\ "word" \notin DOMAIN text
    BY <2>3
  <2>5. back = text
    BY <2>4 DEF Reworded
  <2>6. "hex" \in DOMAIN back /\ back.hex = w
    BY <2>2, <2>5
  <2>7. Deserialized(by, label, com, back, scopes) = HexValue(w)
    BY <1>4, <2>6 DEF Deserialized
  <2>8. Characters(by, label, com, back, scopes) = Deserialized(by, label, com, back, scopes)
    BY <1>4 DEF Characters
  <2> QED
    BY <1>2, <1>4, <2>1, <2>7, <2>8, HexComesBack
<1> QED
  BY <1>3, <1>4

\* An OLE date stands for one moment, also where it is negative.
LEMMA OleExact ==
    ASSUME NEW mins \in Int
    PROVE  Ole(mins) \in Int /\ Moment(Ole(mins)) = mins
<1>1. CASE mins >= 0
  BY <1>1 DEF Ole, Moment
<1>2. CASE mins < 0
  <2>1. PICK day, min : day = mins \div 1440 /\ min = mins % 1440
    OBVIOUS
  <2>2. day \in Int /\ min \in 0..1439 /\ mins = day * 1440 + min
    BY <2>1
  <2>3. day <= -1
    BY <1>2, <2>2
  <2>4. Ole(mins) = day * 1440 - min /\ Ole(mins) < 0
    BY <1>2, <2>1, <2>2, <2>3 DEF Ole, DayMins
  <2>5. -(day * 1440 - min) = (-day) * 1440 + min
    BY <2>2
  <2>6. PICK x : x = -Ole(mins)
    OBVIOUS
  <2>7. x \in Nat /\ x = (-day) * 1440 + min
    BY <2>2, <2>4, <2>5, <2>6
  <2>8. x \div 1440 = -day /\ x % 1440 = min
    BY <2>2, <2>7
  <2>9. Moment(Ole(mins)) = (x % 1440) - (x \div 1440) * 1440
    <3>1. PICK y : y = Ole(mins)
      OBVIOUS
    <3>2. y \in Int /\ y < 0 /\ -y = x
      BY <2>2, <2>4, <2>6, <3>1
    <3>3. Moment(y) = ((-y) % 1440) - ((-y) \div 1440) * 1440
      BY <3>2 DEF Moment, DayMins
    <3> QED
      BY <3>1, <3>2, <3>3
  <2>10. min - (-day) * 1440 = mins
    BY <2>2
  <2> QED
    BY <2>2, <2>4, <2>8, <2>9, <2>10
<1> QED
  BY <1>1, <1>2

\* An offset, when the moment it leads to is no earlier than the first of OLE's days.
LEMMA OffsetExact ==
    ASSUME NEW mins \in Int, NEW zone \in Nat, zone = 0 \/ mins >= 0
    PROVE  WithOffset(mins + zone, -zone) = mins
<1>1. CASE zone = 0
  <2>1. Ole(mins) \in Int /\ Moment(Ole(mins)) = mins
    BY OleExact
  <2>2. mins + zone = mins /\ Ole(mins) + -zone = Ole(mins)
    BY <1>1, <2>1
  <2> QED
    BY <2>1, <2>2 DEF WithOffset
<1>2. CASE mins >= 0
  <2>1. Ole(mins + zone) = mins + zone
    BY <1>2 DEF Ole
  <2>2. (mins + zone) + -zone = mins
    OBVIOUS
  <2>3. Moment(mins) = mins
    BY <1>2 DEF Moment
  <2> QED
    BY <2>1, <2>2, <2>3 DEF WithOffset
<1> QED
  BY <1>1, <1>2

\* back is a date's text, moved into another time zone.
Moved(back, part, day, min, mins, d, m, z) ==
    /\ back = [part |-> part, day |-> d, min |-> m, zone |-> z] /\ d \in Int /\ m \in Int /\ z \in Nat
    /\ part = "date" => d = day
    /\ part = "time" => (m + -z) % 1440 = min
    /\ part = "dateTime" => d * 1440 + m = mins + z /\ (z = 0 \/ mins >= 0)

\* Dates and times, also written in another time zone unless they are early.
LEMMA DatesReturn ==
    ASSUME NEW mins \in Int, NEW label, NEW com, NEW table, NEW scopes,
           NEW text, text = Serialized("ds", label, Date(mins), table), NEW back \in {text, Reworded(text)},
           back = text \/ ~IsEarly(Date(mins), label)
    PROVE  Characters("ds", label, com, back, scopes) = Normal(Date(mins), label)
<1>1. PICK day, min : day = mins \div 1440 /\ min = mins % 1440
  OBVIOUS
<1>2. day \in Int /\ min \in 0..1439 /\ mins = day * 1440 + min
  BY <1>1
<1>3. PICK name : name = label[1]
  OBVIOUS
<1>4. PICK part : part = IF name \in {"date", "time"} THEN name ELSE "dateTime"
  OBVIOUS
<1>5. text = [part |-> part, day |-> day, min |-> min, zone |-> 0]
  BY <1>1, <1>3, <1>4 DEF Serialized, DateText, DayMins, Date
<1>6. DOMAIN text = {"part", "day", "min", "zone"} /\ text.part = part /\ text.day = day /\ text.min = min /\ text.zone = 0
  BY <1>5
<1>7. Normal(Date(mins), label) = IF name = "date" THEN Date(day * 1440) ELSE IF name = "time" THEN Date(min) ELSE Date(mins)
  <2>1. PICK v : v = Date(mins)
    OBVIOUS
  <2>2. v.com = One("DATE") /\ v.mins = mins
    BY <2>1 DEF Date
  <2>3. v.com \notin {Bytes, ArrayOf("I1")} /\ v # EmptyValue
    BY <2>2 DEF Bytes, ArrayOf, One, EmptyValue
  <2>4. mins - (mins % DayMins) = day * 1440 /\ mins % DayMins = min
    BY <1>1, <1>2 DEF DayMins
  <2> QED
    BY <1>3, <2>1, <2>2, <2>3, <2>4 DEF Normal
<1>8. PICK d, m, z : Moved(back, part, day, min, mins, d, m, z)
  <2>1. CASE back = text
    <3>1. Moved(back, part, day, min, mins, day, min, 0)
      BY <1>2, <1>5, <2>1 DEF Moved
    <3> QED
      BY <3>1, Zenon
  <2>2. CASE back = Reworded(text) /\ back # text
    <3>1. "part" \in DOMAIN text
      BY <1>6
    <3>0. part = "dateTime" => mins >= 0
      <4>1. PICK v : v = Date(mins)
        OBVIOUS
      <4>2. v.com = One("DATE") /\ v.mins = mins
        BY <4>1 DEF Date
      <4>3. ~IsEarly(v, label)
        BY <2>2, <4>1
      <4> QED
        BY <1>3, <1>4, <4>2, <4>3 DEF IsEarly
    <3>2. CASE part = "date"
      <4>1. back = text
        BY <1>6, <2>2, <3>1, <3>2 DEF Reworded
      <4> QED
        BY <2>1, <4>1
    <3>3. CASE part # "date"
      <4>1. PICK m, d : m = (min + 60) % 1440 /\ d = (IF part = "time" THEN day ELSE day + ((min + 60) \div 1440))
        OBVIOUS
      <4>2. back = [text EXCEPT !.zone = 60, !.min = m, !.day = d]
        BY <1>6, <2>2, <3>1, <3>3, <4>1 DEF Reworded, DayMins
      <4>3. back = [part |-> part, day |-> d, min |-> m, zone |-> 60]
        <5>1. DOMAIN back = {"part", "day", "min", "zone"}
          BY <1>6, <4>2
        <5>2. back.part = part /\ back.day = d /\ back.min = m /\ back.zone = 60
          BY <1>6, <4>2
        <5>3. back = [x \in {"part", "day", "min", "zone"} |-> back[x]]
          BY <4>2, <5>1
        <5> QED
          BY <5>1, <5>2, <5>3
      <4>4. (m = min + 60 /\ (min + 60) \div 1440 = 0) \/ (m = min - 1380 /\ (min + 60) \div 1440 = 1)
        BY <1>2, <4>1
      <4>5. m \in Int /\ d \in Int
        BY <1>2, <4>1, <4>4
      <4>6. (m + -60) % 1440 = min
        BY <1>2, <4>4
      <4>7. part = "dateTime" => d * 1440 + m = mins + 60
        <5> SUFFICES ASSUME part = "dateTime" PROVE d * 1440 + m = mins + 60
          OBVIOUS
        <5>1. d = day + ((min + 60) \div 1440)
          BY <4>1
        <5>2. CASE m = min + 60 /\ (min + 60) \div 1440 = 0
          BY <1>2, <5>1, <5>2
        <5>3. CASE m = min - 1380 /\ (min + 60) \div 1440 = 1
          BY <1>2, <5>1, <5>3
        <5> QED
          BY <4>4, <5>2, <5>3
      <4>8. Moved(back, part, day, min, mins, d, m, 60)
        BY <3>0, <3>3, <4>3, <4>5, <4>6, <4>7 DEF Moved
      <4> QED
        BY <4>8, Zenon
    <3> QED
      BY <3>2, <3>3
  <2> QED
    BY <2>1, <2>2
<1>9. "part" \in DOMAIN back /\ back.part = part /\ back.day = d /\ back.min = m /\ back.zone = z
  BY <1>8 DEF Moved
<1>10. Deserialized("ds", label, com, back, scopes) = DateValue(name, back)
  BY <1>3, <1>9 DEF Deserialized
<1>11. Characters("ds", label, com, back, scopes) = DateValue(name, back)
  BY <1>10 DEF Characters
<1>12. DateValue(name, back) = Normal(Date(mins), label)
  <2>1. CASE name = "date"
    <3>1. part = "date" /\ d = day
      BY <1>4, <1>8, <2>1 DEF Moved
    <3> QED
      BY <1>7, <1>9, <2>1, <3>1 DEF DateValue, Unless, DayMins
  <2>2. CASE name = "time"
    <3>1. part = "time" /\ (m + -z) % 1440 = min
      BY <1>4, <1>8, <2>2 DEF Moved
    <3> QED
      BY <1>7, <1>9, <2>2, <3>1 DEF DateValue, Unless, DayMins, OffsetMins
  <2>3. CASE name \notin {"date", "time"}
    <3>1. part = "dateTime" /\ d * 1440 + m = mins + z /\ (z = 0 \/ mins >= 0) /\ z \in Nat
      BY <1>4, <1>8, <2>3 DEF Moved
    <3>2. WithOffset(mins + z, -z) = mins
      BY <3>1, OffsetExact
    <3>3. DateValue(name, back) = Date(WithOffset(back.day * 1440 + back.min, -back.zone))
      BY <1>9, <2>3, <3>1 DEF DateValue, DayMins, OffsetMins
    <3> QED
      BY <1>7, <1>9, <2>3, <3>1, <3>2, <3>3
  <2> QED
    BY <2>1, <2>2, <2>3
<1> QED
  BY <1>11, <1>12

\* Truth values, 64 bit numbers, numbers and strings.
LEMMA OthersReturn ==
    ASSUME NEW v, NEW by, NEW read, NEW com, by \in {"bools", "xsdlong", "ss"}, Convertible(v, by, read, com),
           NEW label, NEW table, NEW scopes,
           NEW text, text = Serialized(by, label, v, table), NEW back \in {text, Reworded(text)}
    PROVE  Characters(read, label, com, back, scopes) = Normal(v, label)
<1>1. CASE by = "bools"
  <2>1. PICK b \in {0, -1} : v = [com |-> One("BOOL"), b |-> b]
    BY <1>1 DEF Convertible
  <2>2. read = "bools" /\ com = One("BOOL")
    BY <1>1 DEF Convertible
  <2>3. v.com = One("BOOL") /\ v.b = b
    BY <2>1
  <2>4. Normal(v, label) = v
    BY <2>3 DEF Normal, Bytes, ArrayOf, One, EmptyValue
  <2>5. text = [word |-> IF b = -1 THEN "true" ELSE "false"]
    BY <1>1, <2>3 DEF Serialized
  <2>6. DOMAIN text = {"word"} /\ text.word = (IF b = -1 THEN "true" ELSE "false")
    BY <2>5
  <2>7. Reworded(text) = [num |-> IF text.word = "true" THEN 1 ELSE 0]
    BY <2>6 DEF Reworded
  <2>8. Deserialized(read, label, com, back, scopes) = Coerced(back, "BOOL")
    BY <2>2 DEF Deserialized, One
  <2>9. Coerced(back, "BOOL") = v
    <3>1. CASE back = text
      <4>1. "word" \in DOMAIN back /\ back.word = (IF b = -1 THEN "true" ELSE "false")
        BY <2>6, <3>1
      <4>2. Coerced(back, "BOOL") = [com |-> One("BOOL"), b |-> IF back.word = "true" THEN -1 ELSE 0]
        BY <4>1 DEF Coerced, Numbers
      <4>3. (IF back.word = "true" THEN -1 ELSE 0) = b
        BY <2>1, <4>1
      <4> QED
        BY <2>1, <4>2, <4>3
    <3>2. CASE back = Reworded(text)
      <4>1. DOMAIN back = {"num"} /\ back.num = (IF b = -1 THEN 1 ELSE 0)
        <5>1. back = [num |-> IF text.word = "true" THEN 1 ELSE 0]
          BY <2>7, <3>2
        <5>2. (IF text.word = "true" THEN 1 ELSE 0) = IF b = -1 THEN 1 ELSE 0
          BY <2>6
        <5> QED
          BY <5>1, <5>2
      <4>2. "word" \notin DOMAIN back /\ "num" \in DOMAIN back
        BY <4>1
      <4>3. Coerced(back, "BOOL") = [com |-> One("BOOL"), b |-> IF back.num = 0 THEN 0 ELSE -1]
        BY <4>2 DEF Coerced, Unless, Numbers
      <4>4. (IF back.num = 0 THEN 0 ELSE -1) = b
        BY <2>1, <4>1
      <4> QED
        BY <2>1, <4>3, <4>4
    <3> QED
      BY <3>1, <3>2
  <2>10. v # Failed
    BY <2>3 DEF Failed, One
  <2> QED
    BY <2>4, <2>8, <2>9, <2>10 DEF Characters
<1>2. CASE by = "xsdlong"
  <2>1. PICK hi \in Int, lo \in 0..15 : v = Long(hi, lo)
    BY <1>2 DEF Convertible, Word
  <2>2. read = "xsdlong"
    BY <1>2 DEF Convertible
  <2>3. v.com = One("XSDLong") /\ v.hi = hi /\ v.lo = lo
    BY <2>1 DEF Long
  <2>4. Normal(v, label) = v
    BY <2>3 DEF Normal, Bytes, ArrayOf, One, EmptyValue
  <2>5. PICK num : num = hi * 16 + lo
    OBVIOUS
  <2>6. num \div 16 = hi /\ num % 16 = lo
    BY <2>5
  <2>7. text = [num |-> num]
    BY <1>2, <2>3, <2>5 DEF Serialized, GetString, Word
  <2>8. DOMAIN text = {"num"} /\ text.num = num
    BY <2>7
  <2>9. back = text
    BY <2>8 DEF Reworded
  <2>10. Deserialized(read, label, com, back, scopes) = PutString(NewLong, back)
    BY <2>2 DEF Deserialized
  <2>11. PutString(NewLong, back) = Long(num \div 16, num % 16)
    BY <2>8, <2>9 DEF PutString, Word
  <2>12. Characters(read, label, com, back, scopes) = Deserialized(read, label, com, back, scopes)
    BY <2>2 DEF Characters
  <2> QED
    BY <2>1, <2>4, <2>6, <2>10, <2>11, <2>12
<1>3. CASE by = "ss"
  <2>1. CASE (\E vt \in Numbers, n \in Int : v = Number(vt, n) /\ InRange(vt, n) /\ com = One(vt)) /\ read = "ss"
    <3>1. PICK vt \in Numbers, n \in Int : v = Number(vt, n) /\ InRange(vt, n) /\ com = One(vt)
      BY <2>1
    <3>2. v.com = One(vt) /\ v.n = n /\ com.of = vt /\ v.com.of = vt
      BY <3>1 DEF Number, One
    <3>3. vt \notin {"BOOL", "BSTR", "DATE", "EMPTY", "nothing"}
      BY DEF Numbers
    <3>4. Normal(v, label) = v
      BY <3>2, <3>3 DEF Normal, Bytes, ArrayOf, One, EmptyValue
    <3>5. text = [num |-> n]
      <4>1. text = ToText(v)
        BY <1>3 DEF Serialized
      <4>2. ToText(v) = [num |-> v.n]
        BY <3>2, <3>3 DEF ToText
      <4> QED
        BY <3>2, <4>1, <4>2
    <3>6. DOMAIN text = {"num"} /\ text.num = n
      BY <3>5
    <3>7. back = text
      BY <3>6 DEF Reworded
    <3>8. Deserialized(read, label, com, back, scopes) = Coerced(back, vt)
      BY <2>1, <3>2 DEF Deserialized
    <3>9. Coerced(back, vt) = v
      BY <3>1, <3>3, <3>6, <3>7 DEF Coerced
    <3>10. v # Failed
      BY <3>2, <3>3 DEF Failed, One
    <3> QED
      BY <3>4, <3>8, <3>9, <3>10 DEF Characters
  <2>2. CASE /\ v = EmptyValue \/ \E s \in STRING : v = Text([str |-> s])
             /\ (read = "ss" /\ com = One("BSTR")) \/ read = "ns"
    <3>1. PICK s : text = [str |-> s] /\ Normal(v, label) = Text([str |-> s])
      <4>1. CASE v = EmptyValue
        <5>1. v.com = One("EMPTY")
          BY <4>1 DEF EmptyValue
        <5>2. Normal(v, label) = Text(NoText)
          BY <4>1, <5>1 DEF Normal, Bytes, ArrayOf, One
        <5>3. text = NoText
          BY <1>3, <5>1 DEF Serialized, ToText, Numbers, One
        <5> QED
          BY <5>2, <5>3 DEF NoText
      <4>2. CASE \E s \in STRING : v = Text([str |-> s])
        <5>1. PICK s : v = Text([str |-> s])
          BY <4>2
        <5>2. v.com = One("BSTR") /\ v.text = [str |-> s]
          BY <5>1 DEF Text
        <5>3. Normal(v, label) = v
          BY <5>2 DEF Normal, Bytes, ArrayOf, One, EmptyValue
        <5>4. text = [str |-> s]
          BY <1>3, <5>2 DEF Serialized, ToText, Numbers, One
        <5> QED
          BY <5>1, <5>3, <5>4
      <4> QED
        BY <2>2, <4>1, <4>2
    <3>2. DOMAIN text = {"str"}
      BY <3>1
    <3>3. back = text
      BY <3>2 DEF Reworded
    <3>4. Deserialized(read, label, com, back, scopes) = Text(back)
      <4>1. CASE read = "ns"
        BY <4>1 DEF Deserialized
      <4>2. CASE read = "ss" /\ com = One("BSTR")
        <5>1. Deserialized(read, label, com, back, scopes) = Coerced(back, "BSTR")
          BY <4>2 DEF Deserialized, One
        <5>2. Coerced(back, "BSTR") = Text(back)
          BY DEF Coerced, Numbers
        <5> QED
          BY <5>1, <5>2
      <4> QED
        BY <2>2, <4>1, <4>2
    <3>5. Text(back) # Failed
      BY DEF Text, Failed, One
    <3> QED
      BY <3>1, <3>3, <3>4, <3>5 DEF Characters
  <2> QED
    BY <1>3, <2>1, <2>2 DEF Convertible
<1> QED
  BY <1>1, <1>2, <1>3

\* A value that a method returns as it got it is the value that was sent, as the serializers keep
\* it (Normal: an empty array of bytes is read as EMPTY, EMPTY as an empty string, and a date that is
\* written as an xsd:date has no time), whatever the value's size, and also when the server writes
\* it another way: with blanks in its base64, in another time zone (but for a day before 1899-12-30
\* with a time, whose zone is taken off the wrong way), a number for a word.
THEOREM ValuesComeBack ==
    ASSUME NEW v, NEW by, NEW read, NEW com, Convertible(v, by, read, com), NEW label, NEW table, NEW scopes,
           NEW text, text = Serialized(by, label, v, table), NEW back \in {text, Reworded(text)},
           back = text \/ ~IsEarly(v, label)
    PROVE  Characters(read, label, com, back, scopes) = Normal(v, label)
<1>1. CASE by \in {"b64", "hexbin"}
  <2>1. PICK a \in {Bytes, ArrayOf("I1")}, bytes \in Seq(Byte) :
            v = [com |-> a, bytes |-> bytes] /\ (by = "b64" \/ (by = "hexbin" /\ bytes # <<>>))
    BY <1>1 DEF Convertible
  <2>2. read = by
    BY <1>1 DEF Convertible
  <2>3. Characters(by, label, com, back, scopes) = Normal(v, label)
    BY <2>1, BytesReturn
  <2> QED
    BY <2>2, <2>3
<1>2. CASE by = "ds"
  <2>1. PICK mins \in Int : v = Date(mins)
    BY <1>2 DEF Convertible
  <2>2. read = "ds"
    BY <1>2 DEF Convertible
  <2>3. text = Serialized("ds", label, Date(mins), table)
    BY <1>2, <2>1
  <2>4. back = text \/ ~IsEarly(Date(mins), label)
    BY <2>1
  <2>5. Characters("ds", label, com, back, scopes) = Normal(Date(mins), label)
    BY <2>3, <2>4, DatesReturn
  <2> QED
    BY <2>1, <2>2, <2>5
<1>3. CASE by \in {"bools", "xsdlong", "ss"}
  BY <1>3, OthersReturn
<1>4. by \in {"b64", "hexbin", "ds", "bools", "xsdlong", "ss"}
  BY DEF Convertible
<1> QED
  BY <1>1, <1>2, <1>3, <1>4
=============================================================================
