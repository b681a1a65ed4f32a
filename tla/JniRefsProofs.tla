----------------------------- MODULE JniRefsProofs -----------------------------
(***************************************************************************)
(* For every number of objects and handles, every depth of calls and       *)
(* frames, and every history of references, crashes and refused calls: the *)
(* tables stay linked, and nobody loses or leaks a local reference; and    *)
(* the copies of elements that are lent out are freed when given back.     *)
(***************************************************************************)
EXTENDS JniRefs, ElementBuffers, SequenceTheorems, TLAPS

(* The functions from a part of D to E. *)
Partial(D, E) == UNION {[S -> E] : S \in SUBSET D}

Tables ==
    [objects : Partial(Nat, Obj),
     handles : Partial(Obj, Nat),
     local : SUBSET Nat, weak : SUBSET Nat, next : Nat,
     globals : Partial(Nat, Nat \ {0})]

HeldBy(t) == t.local \cup DOMAIN t.globals \cup t.weak

(* Handles and objects are inverse to each other, and the next handle is new. *)
Linked(t) ==
    /\ \A r \in DOMAIN t.objects :
          r < t.next /\ t.objects[r] \in DOMAIN t.handles /\ t.handles[t.objects[r]] = r
    /\ \A o \in DOMAIN t.handles :
          t.handles[o] \in DOMAIN t.objects /\ t.objects[t.handles[o]] = o

Sound(t) == t \in Tables /\ Linked(t) /\ DOMAIN t.objects = HeldBy(t)

(* How often the tables hold a reference as a global one. *)
Count(t, r) == IF r \in DOMAIN t.globals THEN t.globals[r] ELSE 0

(* The object of the answer is known by it. *)
Names(t, r, o) == r \in HeldBy(t) /\ r \in DOMAIN t.objects /\ t.objects[r] = o

-----------------------------------------------------------------------------
(* The tables, one operator at a time. *)

(* A table whose fields are functions: what membership in Tables says. *)
LEMMA TableFields ==
    ASSUME NEW t \in Tables
    PROVE  /\ DOMAIN t.objects \in SUBSET Nat /\ t.objects \in [DOMAIN t.objects -> Obj]
           /\ DOMAIN t.handles \in SUBSET Obj /\ t.handles \in [DOMAIN t.handles -> Nat]
           /\ DOMAIN t.globals \in SUBSET Nat /\ t.globals \in [DOMAIN t.globals -> Nat \ {0}]
           /\ t.local \in SUBSET Nat /\ t.weak \in SUBSET Nat /\ t.next \in Nat
<1>1. PICK S \in SUBSET Nat : t.objects \in [S -> Obj]
  BY DEF Tables, Partial
<1>2. PICK H \in SUBSET Obj : t.handles \in [H -> Nat]
  BY DEF Tables, Partial
<1>3. PICK G \in SUBSET Nat : t.globals \in [G -> Nat \ {0}]
  BY DEF Tables, Partial
<1>. QED BY <1>1, <1>2, <1>3 DEF Tables

LEMMA PutIsFunction ==
    ASSUME NEW D, NEW E, NEW f \in Partial(D, E), NEW x \in D, NEW y \in E
    PROVE  Put(f, x, y) \in Partial(D, E)
<1>1. DOMAIN f \in SUBSET D /\ f \in [DOMAIN f -> E]
  BY DEF Partial
<1>2. Put(f, x, y) \in [DOMAIN f \cup {x} -> E]
  BY <1>1 DEF Put
<1>3. DOMAIN f \cup {x} \in SUBSET D
  BY <1>1
<1>. QED BY <1>2, <1>3 DEF Partial

LEMMA WithoutIsFunction ==
    ASSUME NEW D, NEW E, NEW f \in Partial(D, E), NEW R
    PROVE  Without(f, R) \in Partial(D, E)
<1>1. DOMAIN f \in SUBSET D /\ f \in [DOMAIN f -> E]
  BY DEF Partial
<1>2. Without(f, R) \in [DOMAIN f \ R -> E]
  BY <1>1 DEF Without, Restrict
<1>3. DOMAIN f \ R \in SUBSET D
  BY <1>1
<1>. QED BY <1>2, <1>3 DEF Partial

LEMMA WithoutValues ==
    ASSUME NEW f, NEW R
    PROVE  /\ DOMAIN Without(f, R) = DOMAIN f \ R
           /\ \A z \in DOMAIN f \ R : Without(f, R)[z] = f[z]
BY DEF Without, Restrict

LEMMA HandleForSound ==
    ASSUME NEW t, Sound(t), NEW o \in Obj, NEW u, u = HandleFor(t, o)
    PROVE  /\ u \in Tables /\ Linked(u)
           /\ u.local = t.local /\ u.globals = t.globals /\ u.weak = t.weak
           /\ o \in DOMAIN u.handles /\ u.handles[o] \in DOMAIN u.objects /\ u.objects[u.handles[o]] = o
           /\ DOMAIN u.objects = DOMAIN t.objects \cup {u.handles[o]}
<1>1. CASE o \in DOMAIN t.handles
  BY <1>1, TableFields DEF HandleFor, Linked, Sound
<1>2. CASE o \notin DOMAIN t.handles
  <2>. DEFINE h == Put(t.handles, o, t.next)
              ob == Put(t.objects, t.next, o)
  <2>a. t.handles \in Partial(Obj, Nat) /\ t.objects \in Partial(Nat, Obj) /\ t.next \in Nat
    BY DEF Sound, Tables
  <2>1. /\ h \in Partial(Obj, Nat) /\ DOMAIN h = DOMAIN t.handles \cup {o}
        /\ h[o] = t.next /\ \A z \in DOMAIN t.handles : z # o => h[z] = t.handles[z]
    <3>1. h \in Partial(Obj, Nat)
      BY <2>a, PutIsFunction
    <3>. QED BY <3>1, <2>a DEF Put
  <2>2. /\ ob \in Partial(Nat, Obj) /\ DOMAIN ob = DOMAIN t.objects \cup {t.next}
        /\ ob[t.next] = o /\ \A z \in DOMAIN t.objects : z # t.next => ob[z] = t.objects[z]
    <3>1. ob \in Partial(Nat, Obj)
      BY <2>a, PutIsFunction
    <3>. QED BY <3>1, <2>a DEF Put
  <2>3. u = [t EXCEPT !.handles = h, !.objects = ob, !.next = t.next + 1]
    BY <1>2 DEF HandleFor
  <2>. HIDE DEF h, ob
  <2>4. /\ u.handles = h /\ u.objects = ob /\ u.next = t.next + 1
        /\ u.local = t.local /\ u.globals = t.globals /\ u.weak = t.weak
        /\ DOMAIN u = {"objects", "handles", "local", "weak", "next", "globals"}
        /\ u = [f \in DOMAIN u |-> u[f]]
    BY <2>3 DEF Sound, Tables
  <2>5. u \in Tables
    BY <2>a, <2>1, <2>2, <2>4 DEF Sound, Tables
  <2>6. t.next \notin DOMAIN t.objects /\ o \notin DOMAIN t.handles
    BY <1>2, <2>a DEF Sound, Linked
  <2>7. ASSUME NEW r \in DOMAIN u.objects
        PROVE  r < u.next /\ u.objects[r] \in DOMAIN u.handles /\ u.handles[u.objects[r]] = r
    <3>1. CASE r = t.next
      BY <3>1, <2>1, <2>2, <2>4, <2>a
    <3>2. CASE r # t.next
      <4>1. r \in DOMAIN t.objects /\ u.objects[r] = t.objects[r]
        BY <3>2, <2>2, <2>4
      <4>2. t.objects[r] \in DOMAIN t.handles /\ t.handles[t.objects[r]] = r /\ r < t.next
        BY <4>1 DEF Sound, Linked
      <4>3. t.objects[r] # o /\ r \in Nat
        BY <4>1, <4>2, <2>6, TableFields DEF Sound
      <4>. QED BY <4>1, <4>2, <4>3, <2>1, <2>4, <2>a
    <3>. QED BY <3>1, <3>2
  <2>8. ASSUME NEW x \in DOMAIN u.handles
        PROVE  u.handles[x] \in DOMAIN u.objects /\ u.objects[u.handles[x]] = x
    <3>1. CASE x = o
      BY <3>1, <2>1, <2>2, <2>4, <2>a
    <3>2. CASE x # o
      <4>1. x \in DOMAIN t.handles /\ u.handles[x] = t.handles[x]
        BY <3>2, <2>1, <2>4
      <4>2. t.handles[x] \in DOMAIN t.objects /\ t.objects[t.handles[x]] = x
        BY <4>1 DEF Sound, Linked
      <4>. QED BY <4>1, <4>2, <2>2, <2>4, <2>6
    <3>. QED BY <3>1, <3>2
  <2>9. Linked(u)
    BY <2>7, <2>8 DEF Linked
  <2>. QED BY <2>1, <2>2, <2>4, <2>5, <2>9
<1>. QED BY <1>1, <1>2

LEMMA AddLocalSound ==
    ASSUME NEW t, Sound(t), NEW o \in Obj, NEW v, v = AddLocal(t, o)
    PROVE  /\ Sound(v) /\ v.globals = t.globals
           /\ v.local = t.local \cup {v.handles[o]}
           /\ Names(v, v.handles[o], o)
<1>. DEFINE u == HandleFor(t, o)
<1>1. /\ u \in Tables /\ Linked(u)
      /\ u.local = t.local /\ u.globals = t.globals /\ u.weak = t.weak
      /\ o \in DOMAIN u.handles /\ u.handles[o] \in DOMAIN u.objects /\ u.objects[u.handles[o]] = o
      /\ DOMAIN u.objects = DOMAIN t.objects \cup {u.handles[o]}
  BY HandleForSound
<1>2. v = [u EXCEPT !.local = u.local \cup {u.handles[o]}]
  BY DEF AddLocal
<1>. HIDE DEF u
<1>3. u.handles[o] \in Nat
  BY <1>1, TableFields
<1>4. /\ v.objects = u.objects /\ v.handles = u.handles /\ v.next = u.next
      /\ v.globals = u.globals /\ v.weak = u.weak /\ v.local = u.local \cup {u.handles[o]}
  BY <1>1, <1>2 DEF Tables
<1>5. v \in Tables
  BY <1>1, <1>2, <1>3 DEF Tables
<1>6. Linked(v)
  BY <1>1, <1>4 DEF Linked
<1>7. DOMAIN v.objects = HeldBy(v)
  BY <1>1, <1>4 DEF Sound, HeldBy
<1>. QED BY <1>1, <1>4, <1>5, <1>6, <1>7 DEF Sound, Names, HeldBy

LEMMA AddIfAnySound ==
    ASSUME NEW t, Sound(t), NEW o \in Obj \cup {NoObj}, NEW v, v = AddIfAny(t, o)
    PROVE  /\ Sound(v) /\ v.globals = t.globals /\ t.local \subseteq v.local
           /\ o # NoObj => Names(v, Handle(v, o), o)
           /\ Handle(v, o) \in Nat
<1>1. CASE o = NoObj
  BY <1>1 DEF AddIfAny, Handle
<1>2. CASE o # NoObj
  <2>1. v = AddLocal(t, o) /\ o \in Obj /\ Handle(v, o) = v.handles[o]
    BY <1>2 DEF AddIfAny, Handle
  <2>2. /\ Sound(v) /\ v.globals = t.globals
        /\ v.local = t.local \cup {v.handles[o]}
        /\ Names(v, v.handles[o], o)
    BY <2>1, AddLocalSound
  <2>3. v.handles[o] \in Nat
    BY <2>2, TableFields DEF Names, Sound
  <2>. QED BY <2>1, <2>2, <2>3
<1>. QED BY <1>1, <1>2

(* Forgetting mends a table in which only the references R have lost their   *)
(* last holder.                                                              *)
LEMMA ForgetSound ==
    ASSUME NEW t \in Tables, Linked(t), NEW R,
           HeldBy(t) \subseteq DOMAIN t.objects, DOMAIN t.objects \subseteq HeldBy(t) \cup R,
           NEW v, v = Forget(t, R)
    PROVE  /\ Sound(v) /\ v.local = t.local /\ v.globals = t.globals /\ v.weak = t.weak
           /\ \A r \in DOMAIN v.objects : r \in DOMAIN t.objects /\ v.objects[r] = t.objects[r]
<1>. DEFINE gone == (R \ (t.local \cup DOMAIN t.globals \cup t.weak)) \cap DOMAIN t.objects
            missing == {t.objects[r] : r \in gone}
            ob == Without(t.objects, gone)
            h == Without(t.handles, missing)
<1>a. t.handles \in Partial(Obj, Nat) /\ t.objects \in Partial(Nat, Obj)
  BY DEF Tables
<1>1. v = [t EXCEPT !.objects = ob, !.handles = h]
  BY DEF Forget
<1>2. /\ ob \in Partial(Nat, Obj) /\ DOMAIN ob = DOMAIN t.objects \ gone
      /\ \A z \in DOMAIN t.objects \ gone : ob[z] = t.objects[z]
  BY <1>a, WithoutIsFunction, WithoutValues
<1>3. /\ h \in Partial(Obj, Nat) /\ DOMAIN h = DOMAIN t.handles \ missing
      /\ \A z \in DOMAIN t.handles \ missing : h[z] = t.handles[z]
  BY <1>a, WithoutIsFunction, WithoutValues
<1>4. gone = DOMAIN t.objects \ HeldBy(t)
  BY DEF HeldBy
<1>5. \A r \in DOMAIN t.objects : t.objects[r] \in missing <=> r \in gone
  BY DEF Linked
<1>. HIDE DEF gone, missing, ob, h
<1>6. /\ v.objects = ob /\ v.handles = h /\ v.next = t.next
      /\ v.local = t.local /\ v.globals = t.globals /\ v.weak = t.weak
  BY <1>1 DEF Tables
<1>7. v \in Tables
  BY <1>1, <1>2, <1>3 DEF Tables
<1>8. DOMAIN v.objects = HeldBy(v)
  BY <1>2, <1>4, <1>6 DEF HeldBy
<1>9. ASSUME NEW r \in DOMAIN v.objects
      PROVE  r < v.next /\ v.objects[r] \in DOMAIN v.handles /\ v.handles[v.objects[r]] = r
  <2>1. r \in DOMAIN t.objects /\ r \notin gone /\ v.objects[r] = t.objects[r]
    BY <1>2, <1>6
  <2>2. t.objects[r] \in DOMAIN t.handles /\ t.handles[t.objects[r]] = r /\ r < t.next
    BY <2>1 DEF Linked
  <2>3. t.objects[r] \notin missing
    BY <2>1, <1>5
  <2>. QED BY <2>1, <2>2, <2>3, <1>3, <1>6
<1>10. ASSUME NEW x \in DOMAIN v.handles
       PROVE  v.handles[x] \in DOMAIN v.objects /\ v.objects[v.handles[x]] = x
  <2>1. x \in DOMAIN t.handles /\ x \notin missing /\ v.handles[x] = t.handles[x]
    BY <1>3, <1>6
  <2>2. t.handles[x] \in DOMAIN t.objects /\ t.objects[t.handles[x]] = x
    BY <2>1 DEF Linked
  <2>3. t.handles[x] \notin gone
    BY <2>1, <2>2, <1>5
  <2>. QED BY <2>1, <2>2, <2>3, <1>2, <1>6
<1>. QED BY <1>2, <1>6, <1>7, <1>8, <1>9, <1>10 DEF Sound, Linked

LEMMA DropLocalsSound ==
    ASSUME NEW t, Sound(t), NEW R, NEW v, v = DropLocals(t, R)
    PROVE  Sound(v) /\ v.local = t.local \ R /\ v.globals = t.globals
<1>. DEFINE u == [t EXCEPT !.local = t.local \ R]
<1>1. v = Forget(u, R)
  BY DEF DropLocals
<1>2. /\ u \in Tables
      /\ u.local = t.local \ R /\ u.globals = t.globals /\ u.weak = t.weak
      /\ u.objects = t.objects /\ u.handles = t.handles /\ u.next = t.next
  BY DEF Sound, Tables
<1>. HIDE DEF u
<1>3. Linked(u)
  BY <1>2 DEF Sound, Linked
<1>4. HeldBy(u) \subseteq DOMAIN u.objects /\ DOMAIN u.objects \subseteq HeldBy(u) \cup R
  BY <1>2 DEF Sound, HeldBy
<1>. QED BY <1>1, <1>2, <1>3, <1>4, ForgetSound

LEMMA ReleaseSound ==
    ASSUME NEW t, Sound(t), NEW mark, NEW v, v = Release(t, mark)
    PROVE  Sound(v) /\ v.local = t.local \cap mark /\ v.globals = t.globals
BY DropLocalsSound DEF Release

LEMMA AddWeakSound ==
    ASSUME NEW t, Sound(t), NEW r \in DOMAIN t.objects, NEW v, v = AddWeak(t, t.objects[r])
    PROVE  Sound(v) /\ v.local = t.local /\ v.globals = t.globals /\ Names(v, r, t.objects[r])
<1>1. /\ t \in Tables /\ Linked(t) /\ DOMAIN t.objects = HeldBy(t) /\ r \in Nat
      /\ t.objects[r] \in DOMAIN t.handles /\ t.handles[t.objects[r]] = r
  BY TableFields DEF Sound, Linked
<1>2. v = [t EXCEPT !.weak = t.weak \cup {r}]
  BY <1>1 DEF AddWeak, HandleFor
<1>3. /\ v.objects = t.objects /\ v.handles = t.handles /\ v.next = t.next
      /\ v.globals = t.globals /\ v.local = t.local /\ v.weak = t.weak \cup {r}
  BY <1>1, <1>2 DEF Tables
<1>4. v \in Tables
  BY <1>1, <1>2 DEF Tables
<1>5. Linked(v)
  BY <1>1, <1>3 DEF Linked
<1>6. DOMAIN v.objects = HeldBy(v)
  BY <1>1, <1>3 DEF HeldBy
<1>. QED BY <1>3, <1>4, <1>5, <1>6 DEF Sound, Names

LEMMA DropWeakSound ==
    ASSUME NEW t, Sound(t), NEW r, NEW v, v = DropWeak(t, r)
    PROVE  Sound(v) /\ v.local = t.local /\ v.globals = t.globals
<1>. DEFINE u == [t EXCEPT !.weak = t.weak \ {r}]
<1>1. v = Forget(u, {r})
  BY DEF DropWeak
<1>2. /\ u \in Tables
      /\ u.local = t.local /\ u.globals = t.globals /\ u.weak = t.weak \ {r}
      /\ u.objects = t.objects /\ u.handles = t.handles /\ u.next = t.next
  BY DEF Sound, Tables
<1>. HIDE DEF u
<1>3. Linked(u)
  BY <1>2 DEF Sound, Linked
<1>4. HeldBy(u) \subseteq DOMAIN u.objects /\ DOMAIN u.objects \subseteq HeldBy(u) \cup {r}
  BY <1>2 DEF Sound, HeldBy
<1>. QED BY <1>1, <1>2, <1>3, <1>4, ForgetSound

(* Linking looks at neither of the reference sets: a table with other global *)
(* references, and the rest as it was.                                       *)
LEMMA WithGlobals ==
    ASSUME NEW t, Sound(t), NEW g \in Partial(Nat, Nat \ {0}), NEW v, v = [t EXCEPT !.globals = g]
    PROVE  /\ v \in Tables /\ Linked(v) /\ v.globals = g
           /\ v.local = t.local /\ v.weak = t.weak /\ v.objects = t.objects
<1>1. /\ v.objects = t.objects /\ v.handles = t.handles /\ v.next = t.next
      /\ v.globals = g /\ v.local = t.local /\ v.weak = t.weak
  BY DEF Sound, Tables
<1>2. v \in Tables
  BY DEF Sound, Tables
<1>3. Linked(v)
  BY <1>1 DEF Sound, Linked
<1>. QED BY <1>1, <1>2, <1>3

LEMMA AddGlobalSound ==
    ASSUME NEW t, Sound(t), NEW r \in DOMAIN t.objects, NEW v, v = AddGlobal(t, t.objects[r])
    PROVE  /\ Sound(v) /\ v.local = t.local /\ v.handles[t.objects[r]] = r /\ Names(v, r, t.objects[r])
           /\ Count(v, r) = Count(t, r) + 1
           /\ \A x : x # r => Count(v, x) = Count(t, x)
<1>. DEFINE n == IF r \in DOMAIN t.globals THEN t.globals[r] + 1 ELSE 1
            g == Put(t.globals, r, n)
<1>1. /\ r \in Nat /\ t.globals \in Partial(Nat, Nat \ {0})
      /\ t.objects[r] \in DOMAIN t.handles /\ t.handles[t.objects[r]] = r
  <2>1. t \in Tables
    BY DEF Sound
  <2>2. t.globals \in Partial(Nat, Nat \ {0})
    BY <2>1 DEF Tables
  <2>. QED BY <2>1, <2>2, TableFields DEF Sound, Linked
<1>2. n \in Nat \ {0}
  BY TableFields DEF Sound
<1>3. v = [t EXCEPT !.globals = g]
  BY <1>1 DEF AddGlobal, HandleFor
<1>4. g \in Partial(Nat, Nat \ {0})
  <2>. HIDE DEF n
  <2>. QED BY <1>1, <1>2, PutIsFunction
<1>5. DOMAIN g = DOMAIN t.globals \cup {r} /\ g[r] = n /\ \A x \in DOMAIN t.globals : x # r => g[x] = t.globals[x]
  BY DEF Put
<1>6. v.handles = t.handles
  BY <1>3 DEF Sound, Tables
<1>. HIDE DEF g
<1>7. /\ v \in Tables /\ Linked(v) /\ v.globals = g
      /\ v.local = t.local /\ v.weak = t.weak /\ v.objects = t.objects
  BY <1>3, <1>4, WithGlobals
<1>8. DOMAIN v.objects = HeldBy(v)
  BY <1>5, <1>7 DEF Sound, HeldBy
<1>9. Count(v, r) = Count(t, r) + 1
  BY <1>5, <1>7 DEF Count
<1>10. ASSUME NEW x, x # r
       PROVE  Count(v, x) = Count(t, x)
  BY <1>5, <1>7, <1>10 DEF Count
<1>. QED BY <1>1, <1>6, <1>7, <1>8, <1>9, <1>10 DEF Sound, Names

LEMMA DropGlobalSound ==
    ASSUME NEW t, Sound(t), NEW r, NEW v, v = DropGlobal(t, r)
    PROVE  /\ Sound(v) /\ v.local = t.local
           /\ Count(v, r) = IF Count(t, r) > 0 THEN Count(t, r) - 1 ELSE 0
           /\ \A x : x # r => Count(v, x) = Count(t, x)
<1>1. /\ t.globals \in Partial(Nat, Nat \ {0})
      /\ DOMAIN t.globals \in SUBSET Nat /\ t.globals \in [DOMAIN t.globals -> Nat \ {0}]
  <2>1. t \in Tables
    BY DEF Sound
  <2>2. t.globals \in Partial(Nat, Nat \ {0})
    BY <2>1 DEF Tables
  <2>. QED BY <2>1, <2>2, TableFields
<1>2. CASE r \in DOMAIN t.globals /\ t.globals[r] > 1
  <2>. DEFINE g == [t.globals EXCEPT ![r] = t.globals[r] - 1]
  <2>1. v = [t EXCEPT !.globals = g]
    BY <1>2 DEF DropGlobal
  <2>2. g \in [DOMAIN t.globals -> Nat \ {0}] /\ g[r] = t.globals[r] - 1
        /\ \A x \in DOMAIN t.globals : x # r => g[x] = t.globals[x]
    BY <1>1, <1>2
  <2>3. g \in Partial(Nat, Nat \ {0})
    BY <1>1, <2>2 DEF Partial
  <2>. HIDE DEF g
  <2>4. /\ v \in Tables /\ Linked(v) /\ v.globals = g
        /\ v.local = t.local /\ v.weak = t.weak /\ v.objects = t.objects
    BY <2>1, <2>3, WithGlobals
  <2>5. DOMAIN v.objects = HeldBy(v)
    BY <2>2, <2>4 DEF Sound, HeldBy
  <2>6. Count(v, r) = IF Count(t, r) > 0 THEN Count(t, r) - 1 ELSE 0
    BY <1>1, <1>2, <2>2, <2>4 DEF Count
  <2>7. ASSUME NEW x, x # r
        PROVE  Count(v, x) = Count(t, x)
    BY <2>2, <2>4, <2>7 DEF Count
  <2>. QED BY <2>4, <2>5, <2>6, <2>7 DEF Sound
<1>3. CASE ~(r \in DOMAIN t.globals /\ t.globals[r] > 1)
  <2>. DEFINE g == Without(t.globals, {r})
              u == [t EXCEPT !.globals = g]
  <2>1. v = Forget(u, {r})
    BY <1>3 DEF DropGlobal
  <2>2. g \in Partial(Nat, Nat \ {0})
    BY <1>1, WithoutIsFunction
  <2>3. DOMAIN g = DOMAIN t.globals \ {r} /\ \A x \in DOMAIN t.globals \ {r} : g[x] = t.globals[x]
    BY DEF Without, Restrict
  <2>. HIDE DEF g
  <2>4. /\ u \in Tables /\ Linked(u) /\ u.globals = g
        /\ u.local = t.local /\ u.weak = t.weak /\ u.objects = t.objects
    BY <2>2, WithGlobals
  <2>. HIDE DEF u
  <2>5. HeldBy(u) \subseteq DOMAIN u.objects /\ DOMAIN u.objects \subseteq HeldBy(u) \cup {r}
    BY <2>3, <2>4 DEF Sound, HeldBy
  <2>6. Sound(v) /\ v.local = t.local /\ v.globals = g
    BY <2>1, <2>4, <2>5, ForgetSound
  <2>7. Count(v, r) = IF Count(t, r) > 0 THEN Count(t, r) - 1 ELSE 0
    BY <1>1, <1>3, <2>3, <2>6 DEF Count
  <2>8. ASSUME NEW x, x # r
        PROVE  Count(v, x) = Count(t, x)
    BY <2>3, <2>6, <2>8 DEF Count
  <2>. QED BY <2>6, <2>7, <2>8
<1>. QED BY <1>2, <1>3

-----------------------------------------------------------------------------
(* The inductive invariant. *)

Types ==
    /\ frames \in Seq(SUBSET Nat)
    /\ calls \in Seq([mark : SUBSET Nat, frames : Nat, kept : SUBSET Nat])
    /\ pending \in Obj \cup {NoObj}
    /\ host \in [running : BOOLEAN, returned : BOOLEAN, native : BOOLEAN,
                 mark : SUBSET Nat, calls : Nat, frames : Nat]
    /\ owed \in [Ref -> Nat]
    /\ answer \in [ref : Nat, obj : Obj \cup {NoObj}, kept : SUBSET Nat]

(* What an active call (one dispatched in this run) may count on: L, the     *)
(* local references, holds what it keeps; so does every mark that a later    *)
(* call or frame will release to; it pops no frame of its callers.           *)
Call(L, k) ==
    /\ calls[k].kept \subseteq L
    /\ calls[k].kept \subseteq calls[k].mark
    /\ host.frames <= calls[k].frames /\ calls[k].frames <= Len(frames)
    /\ \A j \in (calls[k].frames + 1) .. Len(frames) : calls[k].kept \subseteq frames[j]

Active == (host.calls + 1) .. Len(calls)

Nested(L) ==
    host.running =>
        /\ host.calls <= Len(calls) /\ host.frames <= Len(frames)
        /\ \A k \in Active : Call(L, k)
        /\ \A k, m \in Active :
              k < m => calls[k].kept \subseteq calls[m].mark /\ calls[k].frames <= calls[m].frames

Owes == \A r \in Ref : owed[r] = Count(vm, r)

Answers ==
    /\ answer.obj # NoObj => Names(vm, answer.ref, answer.obj)
    /\ host.running => answer.kept \subseteq vm.local

(* The mark of a native method is what was local outside. *)
Released ==
    IF host.running THEN host.native => host.mark \subseteq outside
    ELSE vm.local \subseteq outside /\ (host.native /\ host.returned => pending = NoObj)

IInv == Types /\ Sound(vm) /\ Nested(vm.local) /\ Owes /\ Answers /\ Released

-----------------------------------------------------------------------------
(* Facts the steps share. *)

LEMMA ObjectIsObject ==
    ASSUME NEW t, Sound(t), NEW r
    PROVE  /\ Object(t, r) \in Obj \cup {NoObj}
           /\ Object(t, r) # NoObj => r \in DOMAIN t.objects /\ Object(t, r) = t.objects[r]
BY TableFields DEF Object, Sound

LEMMA LastAndFront ==
    ASSUME NEW S, NEW s \in Seq(S), Len(s) > 0
    PROVE  /\ Last(s) \in S /\ Last(s) = s[Len(s)]
           /\ Front(s) \in Seq(S) /\ Len(Front(s)) = Len(s) - 1
           /\ \A i \in 1 .. Len(s) - 1 : Front(s)[i] = s[i]
<1>. DEFINE n == Len(s) - 1
<1>1. n \in Nat /\ 1 \in Int /\ n \in Int /\ \A i \in 1 .. n : s[i] \in S
  OBVIOUS
<1>a. n = n - 1 + 1 /\ (IF 1 <= n THEN n - 1 + 1 ELSE 0) = n
      /\ \A i \in 1 .. n : 1 + i - 1 = i
  <2>. HIDE DEF n
  <2>. QED BY <1>1
<1>b. /\ SubSeq(s, 1, n) \in Seq(S) /\ Len(SubSeq(s, 1, n)) = (IF 1 <= n THEN n - 1 + 1 ELSE 0)
      /\ \A i \in 1 .. n - 1 + 1 : SubSeq(s, 1, n)[i] = s[1 + i - 1]
  <2>. HIDE DEF n
  <2>. QED BY <1>1, SubSeqProperties
<1>c. \A i \in 1 .. n : SubSeq(s, 1, n)[i] = s[i]
  <2>. HIDE DEF n
  <2>. QED BY <1>1, <1>a, <1>b
<1>2. s[Len(s)] \in S
  OBVIOUS
<1>. QED BY <1>a, <1>b, <1>c, <1>2 DEF Last, Front

LEMMA EndRunSound ==
    ASSUME NEW t, Sound(t)
    PROVE  /\ Sound(EndRun(t)) /\ EndRun(t).globals = t.globals
           /\ host.native => EndRun(t).local \subseteq host.mark
<1>1. CASE host.native
  <2>1. EndRun(t) = Release(t, host.mark)
    BY <1>1 DEF EndRun
  <2>. QED BY <2>1, ReleaseSound
<1>2. CASE ~host.native
  BY <1>2 DEF EndRun
<1>. QED BY <1>1, <1>2

(* A step that only adds local references disturbs no call. *)
LEMMA NestedGrows ==
    ASSUME Nested(vm.local), UNCHANGED <<frames, calls, host>>, vm.local \subseteq vm'.local
    PROVE  Nested(vm.local)'
BY DEF Nested, Call, Active

(* The JNI functions that neither release nor return. *)
LEMMA FunctionStep ==
    ASSUME IInv, Function(vm'), Sound(vm'), vm.local \subseteq vm'.local,
           pending' \in Obj \cup {NoObj}, owed' \in [Ref -> Nat], Owes',
           answer' \in [ref : Nat, obj : Obj \cup {NoObj}, kept : SUBSET Nat], answer'.kept = {},
           answer'.obj # NoObj => Names(vm', answer'.ref, answer'.obj)
    PROVE  IInv'
<1>1. Types'
  BY DEF IInv, Types, Function
<1>2. Nested(vm.local)'
  BY NestedGrows DEF IInv, Function
<1>3. Answers'
  BY DEF Answers
<1>4. Released'
  BY DEF IInv, Released, Function
<1>. QED BY <1>1, <1>2, <1>3, <1>4 DEF IInv

LEMMA StoppedStep ==
    ASSUME IInv, host.running, NEW t, Sound(t), t.globals = vm.globals,
           host.native => t.local \subseteq host.mark,
           NEW returned \in BOOLEAN, Stopped(t, returned), pending' \in Obj \cup {NoObj},
           returned /\ host.native => pending' = NoObj
    PROVE  IInv'
<1>1. host' = [host EXCEPT !.running = FALSE, !.returned = returned]
  BY DEF Stopped
<1>2. host' \in [running : BOOLEAN, returned : BOOLEAN, native : BOOLEAN,
                 mark : SUBSET Nat, calls : Nat, frames : Nat]
  BY <1>1 DEF IInv, Types
<1>3. ~host'.running /\ host'.native = host.native /\ host'.returned = returned
  BY <1>1 DEF IInv, Types
<1>4. answer' = [ref |-> 0, obj |-> NoObj, kept |-> {}]
  BY DEF Stopped, NoAnswer, Answer
<1>5. Types'
  BY <1>2, <1>4 DEF IInv, Types, Stopped
<1>6. Sound(vm')
  BY DEF Stopped
<1>7. Nested(vm.local)'
  BY <1>3 DEF Nested
<1>8. Owes'
  BY DEF IInv, Owes, Count, Stopped
<1>9. Answers'
  BY <1>3, <1>4 DEF Answers
<1>10. Released'
  <2>1. CASE host.native
    BY <2>1, <1>3 DEF IInv, Released, Stopped
  <2>2. CASE ~host.native
    BY <2>2, <1>3 DEF Released, Stopped
  <2>. QED BY <2>1, <2>2
<1>. QED BY <1>5, <1>6, <1>7, <1>8, <1>9, <1>10 DEF IInv

-----------------------------------------------------------------------------
(* The host's steps. *)

LEMMA InitInv == Init => IInv
<1>. SUFFICES ASSUME Init PROVE IInv
  OBVIOUS
<1>1. Types
  BY DEF Init, Types, NoRun, NoAnswer, Answer
<1>2. <<>> \in Partial(Nat, Obj) /\ <<>> \in Partial(Obj, Nat) /\ <<>> \in Partial(Nat, Nat \ {0})
  <2>. DEFINE e == [x \in {} |-> x]
  <2>1. <<>> = e
    OBVIOUS
  <2>2. \A D, E : e \in Partial(D, E)
    BY DEF Partial
  <2>. QED BY <2>1, <2>2
<1>3. Sound(vm)
  <2>1. vm \in Tables
    BY <1>2 DEF Init, NoVm, Tables
  <2>. QED BY <2>1 DEF Init, NoVm, Sound, Linked, HeldBy
<1>4. Nested(vm.local) /\ Released
  BY DEF Init, NoRun, NoVm, Nested, Released
<1>5. Owes
  BY DEF Init, NoVm, Owes, Count
<1>6. Answers
  BY DEF Init, NoRun, NoAnswer, Answer, Answers
<1>. QED BY <1>1, <1>3, <1>4, <1>5, <1>6 DEF IInv

LEMMA CallNativeStep ==
    ASSUME IInv, NEW receiver \in Obj, NEW arg \in Obj \cup {NoObj}, CallNative(receiver, arg)
    PROVE  IInv'
<1>. DEFINE called == AddLocal(vm, receiver)
<1>1. Sound(called) /\ called.globals = vm.globals
  BY AddLocalSound DEF IInv
<1>2. called.local \subseteq Nat
  BY <1>1, TableFields DEF Sound
<1>. HIDE DEF called
<1>3. vm' = AddIfAny(called, arg) /\ outside' = called.local
      /\ host' = [running |-> TRUE, returned |-> FALSE, native |-> TRUE, mark |-> called.local,
                  calls |-> Len(calls), frames |-> Len(frames)]
      /\ answer' = [ref |-> 0, obj |-> NoObj, kept |-> {}]
      /\ UNCHANGED <<frames, calls, pending, owed>>
  BY DEF CallNative, NoAnswer, Answer, called
<1>4. Sound(vm') /\ vm'.globals = vm.globals
  BY <1>1, <1>3, AddIfAnySound
<1>5. Len(calls) \in Nat /\ Len(frames) \in Nat
  BY DEF IInv, Types
<1>6. Types'
  BY <1>2, <1>3, <1>5 DEF IInv, Types
<1>7. Nested(vm.local)'
  BY <1>3, <1>5 DEF Nested, Active
<1>8. Owes'
  BY <1>3, <1>4 DEF IInv, Owes, Count
<1>9. Answers' /\ Released'
  BY <1>3 DEF Answers, Released
<1>. QED BY <1>4, <1>6, <1>7, <1>8, <1>9 DEF IInv

LEMMA CallRefusedStep ==
    ASSUME IInv, NEW receiver \in Obj, CallRefused(receiver)
    PROVE  IInv'
<1>1. vm' = AddLocal(vm, receiver)
      /\ outside' = (IF host.running THEN outside ELSE vm'.local)
      /\ answer' = [ref |-> 0, obj |-> NoObj, kept |-> {}]
      /\ UNCHANGED <<frames, calls, pending, host, owed>>
  BY DEF CallRefused, NoAnswer, Answer
<1>2. Sound(vm') /\ vm'.globals = vm.globals /\ vm.local \subseteq vm'.local
  BY <1>1, AddLocalSound DEF IInv
<1>3. Types'
  BY <1>1 DEF IInv, Types
<1>4. Nested(vm.local)'
  BY <1>1, <1>2, NestedGrows DEF IInv
<1>5. Owes'
  BY <1>1, <1>2 DEF IInv, Owes, Count
<1>6. Answers' /\ Released'
  BY <1>1 DEF IInv, Answers, Released
<1>. QED BY <1>2, <1>3, <1>4, <1>5, <1>6 DEF IInv

LEMMA CallPlainStep ==
    ASSUME IInv, CallPlain
    PROVE  IInv'
<1>1. host' = [running |-> TRUE, returned |-> FALSE, native |-> FALSE, mark |-> {},
               calls |-> Len(calls), frames |-> Len(frames)]
      /\ answer' = [ref |-> 0, obj |-> NoObj, kept |-> {}]
      /\ UNCHANGED <<vm, frames, calls, pending, owed, outside>>
  BY DEF CallPlain, NoRun, NoAnswer, Answer
<1>2. Len(calls) \in Nat /\ Len(frames) \in Nat
  BY DEF IInv, Types
<1>3. Types'
  BY <1>1, <1>2 DEF IInv, Types
<1>4. Nested(vm.local)'
  BY <1>1, <1>2 DEF Nested, Active
<1>5. Sound(vm') /\ Owes'
  BY <1>1 DEF IInv, Owes, Count
<1>6. Answers' /\ Released'
  BY <1>1 DEF Answers, Released
<1>. QED BY <1>3, <1>4, <1>5, <1>6 DEF IInv

LEMMA EndStep ==
    ASSUME IInv, ReturnToHost \/ Crash \/ \E class \in Obj \cup {NoObj} : DispatchFails(class)
    PROVE  IInv'
<1>1. CASE ReturnToHost
  <2>1. Sound(EndRun(vm)) /\ EndRun(vm).globals = vm.globals
        /\ (host.native => EndRun(vm).local \subseteq host.mark)
    BY EndRunSound DEF IInv
  <2>2. pending' \in Obj \cup {NoObj} /\ (host.native => pending' = NoObj)
    BY <1>1 DEF ReturnToHost, IInv, Types
  <2>3. host.running /\ Stopped(EndRun(vm), TRUE)
    BY <1>1 DEF ReturnToHost
  <2>. HIDE DEF EndRun
  <2>. QED BY <2>1, <2>2, <2>3, StoppedStep
<1>2. CASE Crash
  <2>1. Sound(EndRun(vm)) /\ EndRun(vm).globals = vm.globals
        /\ (host.native => EndRun(vm).local \subseteq host.mark)
    BY EndRunSound DEF IInv
  <2>2. host.running /\ Stopped(EndRun(vm), FALSE) /\ pending' \in Obj \cup {NoObj}
    BY <1>2 DEF Crash, IInv, Types
  <2>. QED BY <2>1, <2>2, StoppedStep
<1>3. ASSUME NEW class \in Obj \cup {NoObj}, DispatchFails(class)
      PROVE  IInv'
  <2>. DEFINE t == AddIfAny(vm, class)
  <2>1. Sound(t) /\ t.globals = vm.globals
    BY AddIfAnySound DEF IInv
  <2>2. host.running /\ Stopped(EndRun(t), FALSE) /\ pending' \in Obj \cup {NoObj}
    BY <1>3 DEF DispatchFails, IInv, Types
  <2>. HIDE DEF t
  <2>3. Sound(EndRun(t)) /\ EndRun(t).globals = vm.globals
        /\ (host.native => EndRun(t).local \subseteq host.mark)
    BY <2>1, EndRunSound
  <2>. QED BY <2>2, <2>3, StoppedStep
<1>. QED BY <1>1, <1>2, <1>3

-----------------------------------------------------------------------------
(* The guest's steps. *)

LEMMA ObtainStep ==
    ASSUME IInv, NEW o \in Obj, Obtain(o)
    PROVE  IInv'
<1>1. Function(vm') /\ vm' = AddLocal(vm, o) /\ UNCHANGED <<pending, owed>>
      /\ answer' = [ref |-> vm'.handles[o], obj |-> o, kept |-> {}]
  BY DEF Obtain, Function, Answer
<1>2. Sound(vm') /\ vm'.globals = vm.globals /\ vm.local \subseteq vm'.local /\ Names(vm', vm'.handles[o], o)
  BY <1>1, AddLocalSound DEF IInv
<1>3. vm'.handles[o] \in Nat
  BY <1>2, TableFields DEF Names, Sound
<1>4. Owes' /\ pending' \in Obj \cup {NoObj} /\ owed' \in [Ref -> Nat]
  BY <1>1, <1>2 DEF IInv, Types, Owes, Count
<1>. QED BY <1>1, <1>2, <1>3, <1>4, FunctionStep

LEMMA GlobalStep ==
    ASSUME IInv, NEW r \in Ref, NewGlobalRef(r) \/ DeleteGlobalRef(r)
    PROVE  IInv'
<1>. r \in Nat
  BY DEF Ref
<1>1. CASE NewGlobalRef(r)
  <2>. DEFINE o == Object(vm, r)
  <2>1. o \in Obj /\ r \in DOMAIN vm.objects /\ o = vm.objects[r]
    BY <1>1, ObjectIsObject DEF IInv, NewGlobalRef
  <2>2. vm' = AddGlobal(vm, vm.objects[r]) /\ Function(vm') /\ UNCHANGED pending
        /\ owed' = [owed EXCEPT ![r] = owed[r] + 1]
        /\ answer' = [ref |-> vm'.handles[vm.objects[r]], obj |-> vm.objects[r], kept |-> {}]
    BY <1>1, <2>1 DEF NewGlobalRef, Function, Answer
  <2>3. /\ Sound(vm') /\ vm'.local = vm.local /\ vm'.handles[vm.objects[r]] = r
        /\ Names(vm', r, vm.objects[r])
        /\ Count(vm', r) = Count(vm, r) + 1
        /\ \A x : x # r => Count(vm', x) = Count(vm, x)
    BY <2>1, <2>2, AddGlobalSound DEF IInv
  <2>4. owed \in [Ref -> Nat] /\ \A x \in Ref : owed[x] = Count(vm, x)
    BY DEF IInv, Types, Owes
  <2>5. owed' \in [Ref -> Nat] /\ \A x \in Ref : owed'[x] = Count(vm', x)
    BY <2>2, <2>3, <2>4
  <2>6. pending' \in Obj \cup {NoObj}
    BY <2>2 DEF IInv, Types
  <2>. QED BY <2>1, <2>2, <2>3, <2>5, <2>6, FunctionStep DEF Owes
<1>2. CASE DeleteGlobalRef(r)
  <2>2. vm' = DropGlobal(vm, r) /\ Function(vm') /\ UNCHANGED pending
        /\ owed' = [owed EXCEPT ![r] = IF owed[r] > 0 THEN owed[r] - 1 ELSE 0]
        /\ answer' = [ref |-> 0, obj |-> NoObj, kept |-> {}]
    BY <1>2 DEF DeleteGlobalRef, Function, NoAnswer, Answer
  <2>3. /\ Sound(vm') /\ vm'.local = vm.local
        /\ Count(vm', r) = IF Count(vm, r) > 0 THEN Count(vm, r) - 1 ELSE 0
        /\ \A x : x # r => Count(vm', x) = Count(vm, x)
    BY <2>2, DropGlobalSound DEF IInv
  <2>4. owed \in [Ref -> Nat] /\ \A x \in Ref : owed[x] = Count(vm, x)
    BY DEF IInv, Types, Owes
  <2>5. owed' \in [Ref -> Nat] /\ \A x \in Ref : owed'[x] = Count(vm', x)
    BY <2>2, <2>3, <2>4
  <2>6. pending' \in Obj \cup {NoObj}
    BY <2>2 DEF IInv, Types
  <2>. QED BY <2>2, <2>3, <2>5, <2>6, FunctionStep DEF Owes
<1>. QED BY <1>1, <1>2

LEMMA WeakStep ==
    ASSUME IInv, NEW r \in Ref, NewWeakGlobalRef(r) \/ DeleteWeakGlobalRef(r)
    PROVE  IInv'
<1>. r \in Nat
  BY DEF Ref
<1>1. CASE NewWeakGlobalRef(r)
  <2>1. Object(vm, r) \in Obj /\ r \in DOMAIN vm.objects /\ Object(vm, r) = vm.objects[r]
    BY <1>1, ObjectIsObject DEF IInv, NewWeakGlobalRef
  <2>2. vm' = AddWeak(vm, vm.objects[r]) /\ Function(vm') /\ UNCHANGED <<pending, owed>>
        /\ answer' = [ref |-> r, obj |-> vm.objects[r], kept |-> {}]
    BY <1>1, <2>1 DEF NewWeakGlobalRef, Function, Answer
  <2>3. Sound(vm') /\ vm'.local = vm.local /\ vm'.globals = vm.globals /\ Names(vm', r, vm.objects[r])
    BY <2>1, <2>2, AddWeakSound DEF IInv
  <2>4. Owes' /\ pending' \in Obj \cup {NoObj} /\ owed' \in [Ref -> Nat]
    BY <2>2, <2>3 DEF IInv, Types, Owes, Count
  <2>. QED BY <2>1, <2>2, <2>3, <2>4, FunctionStep
<1>2. CASE DeleteWeakGlobalRef(r)
  <2>1. vm' = DropWeak(vm, r) /\ Function(vm') /\ UNCHANGED <<pending, owed>>
        /\ answer' = [ref |-> 0, obj |-> NoObj, kept |-> {}]
    BY <1>2 DEF DeleteWeakGlobalRef, Function, NoAnswer, Answer
  <2>2. Sound(vm') /\ vm'.local = vm.local /\ vm'.globals = vm.globals
    BY <2>1, DropWeakSound DEF IInv
  <2>3. Owes' /\ pending' \in Obj \cup {NoObj} /\ owed' \in [Ref -> Nat]
    BY <2>1, <2>2 DEF IInv, Types, Owes, Count
  <2>. QED BY <2>1, <2>2, <2>3, FunctionStep
<1>. QED BY <1>1, <1>2

LEMMA ThrowStep ==
    ASSUME IInv, NEW o \in Obj \cup {NoObj}, Throw(o)
    PROVE  IInv'
<1>1. vm' = vm /\ Function(vm') /\ pending' = o /\ owed' = owed
      /\ answer' = [ref |-> 0, obj |-> NoObj, kept |-> {}]
  BY DEF Throw, Function, NoAnswer, Answer
<1>2. Sound(vm') /\ Owes' /\ owed' \in [Ref -> Nat]
  BY <1>1 DEF IInv, Types, Owes, Count
<1>. QED BY <1>1, <1>2, FunctionStep

LEMMA CallFields ==
    ASSUME Types, NEW k \in 1 .. Len(calls)
    PROVE  /\ calls[k] \in [mark : SUBSET Nat, frames : Nat, kept : SUBSET Nat]
           /\ calls[k].mark \in SUBSET Nat /\ calls[k].frames \in Nat /\ calls[k].kept \in SUBSET Nat
<1>1. calls[k] \in [mark : SUBSET Nat, frames : Nat, kept : SUBSET Nat]
  BY ElementOfSeq DEF Types
<1>. QED BY <1>1

(* Every claim to a deleted reference goes with it. *)
LEMMA DeleteLocalStep ==
    ASSUME IInv, NEW r \in Ref, DeleteLocalRef(r)
    PROVE  IInv'
<1>1. vm' = DropLocals(vm, {r}) /\ host.running
      /\ calls' = [k \in DOMAIN calls |-> [calls[k] EXCEPT !.kept = calls[k].kept \ {r}]]
      /\ answer' = [ref |-> 0, obj |-> NoObj, kept |-> {}]
      /\ UNCHANGED <<frames, host, outside, pending, owed>>
  BY DEF DeleteLocalRef, NoAnswer, Answer
<1>2. Sound(vm') /\ vm'.local = vm.local \ {r} /\ vm'.globals = vm.globals
  BY <1>1, DropLocalsSound DEF IInv
<1>3. Len(calls') = Len(calls) /\ Len(calls) \in Nat
      /\ calls' \in Seq([mark : SUBSET Nat, frames : Nat, kept : SUBSET Nat])
  <2>1. \A k \in 1 .. Len(calls) : [calls[k] EXCEPT !.kept = calls[k].kept \ {r}]
                                     \in [mark : SUBSET Nat, frames : Nat, kept : SUBSET Nat]
    BY CallFields DEF IInv
  <2>. DEFINE c(k) == [calls[k] EXCEPT !.kept = calls[k].kept \ {r}]
  <2>2. Len(calls) \in Nat /\ DOMAIN calls = 1 .. Len(calls)
    BY DEF IInv, Types
  <2>3. calls' = [k \in 1 .. Len(calls) |-> c(k)]
    BY <1>1, <2>2
  <2>. HIDE DEF c
  <2>4. calls' \in Seq([mark : SUBSET Nat, frames : Nat, kept : SUBSET Nat])
    <3>1. \A k \in 1 .. Len(calls) : c(k) \in [mark : SUBSET Nat, frames : Nat, kept : SUBSET Nat]
      BY <2>1 DEF c
    <3>. QED BY <2>2, <2>3, <3>1, IsASeq
  <2>5. Len(calls') = Len(calls)
    BY <2>2, <2>3, <2>4, LenProperties
  <2>. QED BY <2>2, <2>4, <2>5
<1>4. \A k \in 1 .. Len(calls) :
         calls'[k].mark = calls[k].mark /\ calls'[k].frames = calls[k].frames
         /\ calls'[k].kept = calls[k].kept \ {r}
  BY <1>1, CallFields DEF IInv, Types
<1>5. Types'
  BY <1>1, <1>3 DEF IInv, Types
<1>6. Nested(vm.local)'
  <2>1. /\ host.calls \in Nat /\ Active' = Active /\ Active \subseteq 1 .. Len(calls)
        /\ host.calls <= Len(calls) /\ host.frames <= Len(frames)
        /\ \A k \in Active : Call(vm.local, k)
        /\ \A k, m \in Active :
              k < m => calls[k].kept \subseteq calls[m].mark /\ calls[k].frames <= calls[m].frames
    <3>1. host.calls \in Nat /\ Nested(vm.local)
      BY DEF IInv, Types
    <3>2. Active' = Active /\ Active \subseteq 1 .. Len(calls)
      BY <1>1, <1>3, <3>1 DEF Active
    <3>. QED BY <1>1, <3>1, <3>2 DEF Nested
  <2>2. ASSUME NEW k \in Active
        PROVE  Call(vm.local, k)'
    <3>1. calls'[k].mark = calls[k].mark /\ calls'[k].frames = calls[k].frames
          /\ calls'[k].kept = calls[k].kept \ {r} /\ Call(vm.local, k)
      BY <1>4, <2>1
    <3>. QED BY <1>1, <1>2, <3>1 DEF Call
  <2>3. ASSUME NEW k \in Active, NEW m \in Active, k < m
        PROVE  calls'[k].kept \subseteq calls'[m].mark /\ calls'[k].frames <= calls'[m].frames
    <3>1. calls[k].kept \subseteq calls[m].mark /\ calls[k].frames <= calls[m].frames
      BY <2>1, <2>3
    <3>. QED BY <1>4, <2>1, <3>1
  <2>. QED BY <1>1, <1>3, <2>1, <2>2, <2>3 DEF Nested
<1>7. Owes'
  BY <1>1, <1>2 DEF IInv, Owes, Count
<1>8. Answers' /\ Released'
  BY <1>1 DEF IInv, Answers, Released
<1>. QED BY <1>2, <1>5, <1>6, <1>7, <1>8 DEF IInv

LEMMA PushStep ==
    ASSUME IInv, PushLocalFrame
    PROVE  IInv'
<1>1. frames' = Append(frames, vm.local) /\ host.running
      /\ answer' = [ref |-> 0, obj |-> NoObj, kept |-> {}]
      /\ UNCHANGED <<vm, calls, host, outside, pending, owed>>
  BY DEF PushLocalFrame, NoAnswer, Answer
<1>2. vm.local \in SUBSET Nat
  BY TableFields DEF IInv, Sound
<1>3. Len(frames) \in Nat /\ Len(frames') = Len(frames) + 1 /\ frames' \in Seq(SUBSET Nat)
      /\ frames'[Len(frames) + 1] = vm.local
      /\ \A j \in 1 .. Len(frames) : frames'[j] = frames[j]
  BY <1>1, <1>2 DEF IInv, Types
<1>4. Types'
  BY <1>1, <1>3 DEF IInv, Types
<1>5. Nested(vm.local)'
  <2>1. host.calls \in Nat /\ host.frames \in Nat /\ Len(calls) \in Nat
    BY DEF IInv, Types
  <2>2. /\ host.calls <= Len(calls) /\ host.frames <= Len(frames)
        /\ \A k \in Active : Call(vm.local, k)
        /\ \A k, m \in Active :
              k < m => calls[k].kept \subseteq calls[m].mark /\ calls[k].frames <= calls[m].frames
    BY <1>1 DEF IInv, Nested
  <2>3. ASSUME NEW k \in Active
        PROVE  Call(vm.local, k)'
    <3>1. calls[k].frames \in Nat
      BY <2>1, CallFields DEF Active, IInv
    <3>. QED BY <1>1, <1>3, <2>1, <2>2, <3>1 DEF Call
  <2>4. Active' = Active /\ host.frames <= Len(frames')
    BY <1>1, <1>3, <2>1, <2>2 DEF Active
  <2>. QED BY <1>1, <2>2, <2>3, <2>4 DEF Nested
<1>6. Sound(vm') /\ Owes'
  BY <1>1 DEF IInv, Owes, Count
<1>7. Answers' /\ Released'
  BY <1>1 DEF IInv, Answers, Released
<1>. QED BY <1>4, <1>5, <1>6, <1>7 DEF IInv

(* The frame popped is above those of every call, so its mark holds what     *)
(* they keep.                                                                *)
LEMMA PopStep ==
    ASSUME IInv, NEW r \in Ref \cup {0}, PopLocalFrame(r)
    PROVE  IInv'
<1>. DEFINE o == Object(vm, r)
            left == Release(vm, Last(frames))
<1>1. host.running /\ Len(frames) > FramesBefore
      /\ vm' = AddIfAny(left, o) /\ frames' = Front(frames)
      /\ answer' = [ref |-> Handle(vm', o), obj |-> o, kept |-> {}]
      /\ UNCHANGED <<calls, host, outside, pending, owed>>
  BY DEF PopLocalFrame, Answer
<1>2. o \in Obj \cup {NoObj}
  BY ObjectIsObject DEF IInv
<1>3. Sound(left) /\ left.local = vm.local \cap Last(frames) /\ left.globals = vm.globals
  BY ReleaseSound DEF IInv
<1>. HIDE DEF o, left
<1>4. /\ Sound(vm') /\ vm'.globals = vm.globals /\ vm.local \cap Last(frames) \subseteq vm'.local
      /\ (o # NoObj => Names(vm', Handle(vm', o), o)) /\ Handle(vm', o) \in Nat
  BY <1>1, <1>2, <1>3, AddIfAnySound
<1>5. /\ host.calls \in Nat /\ host.frames \in Nat /\ Len(calls) \in Nat /\ Len(frames) \in Nat
      /\ host.calls <= Len(calls) /\ host.frames <= Len(frames)
      /\ \A k \in Active : Call(vm.local, k)
      /\ \A k, m \in Active :
            k < m => calls[k].kept \subseteq calls[m].mark /\ calls[k].frames <= calls[m].frames
  BY <1>1 DEF IInv, Types, Nested
<1>6. host.frames < Len(frames) /\ \A k \in Active : calls[k].frames < Len(frames)
  <2>1. CASE Len(calls) > host.calls
    <3>1. FramesBefore = calls[Len(calls)].frames
      BY <2>1 DEF FramesBefore, Last
    <3>2. Len(calls) \in Active /\ Call(vm.local, Len(calls)) /\ calls[Len(calls)].frames \in Nat
      BY <2>1, <1>5, CallFields DEF Active, IInv
    <3>3. ASSUME NEW k \in Active
          PROVE  calls[k].frames <= calls[Len(calls)].frames /\ calls[k].frames \in Nat
      BY <1>5, <3>2, CallFields DEF Active, IInv
    <3>. QED BY <1>1, <1>5, <3>1, <3>2, <3>3 DEF Call
  <2>2. CASE ~(Len(calls) > host.calls)
    BY <2>2, <1>1, <1>5 DEF FramesBefore, Active
  <2>. QED BY <2>1, <2>2
<1>7. Len(frames) > 0
  BY <1>5, <1>6
<1>8. /\ Last(frames) = frames[Len(frames)]
      /\ frames' \in Seq(SUBSET Nat) /\ Len(frames') = Len(frames) - 1
      /\ \A j \in 1 .. Len(frames) - 1 : frames'[j] = frames[j]
  BY <1>1, <1>7, LastAndFront DEF IInv, Types
<1>9. Types'
  BY <1>1, <1>2, <1>4, <1>8 DEF IInv, Types
<1>10. Nested(vm.local)'
  <2>1. ASSUME NEW k \in Active
        PROVE  Call(vm.local, k)'
    <3>1. calls[k].frames \in Nat /\ Call(vm.local, k) /\ calls[k].frames < Len(frames)
      BY <1>5, <1>6, CallFields DEF Active, IInv
    <3>2. calls[k].kept \subseteq vm.local \cap frames[Len(frames)]
      BY <1>5, <3>1 DEF Call
    <3>3. calls[k].kept \subseteq vm'.local
      BY <1>4, <1>8, <3>2
    <3>4. \A j \in (calls[k].frames + 1) .. Len(frames') : calls[k].kept \subseteq frames'[j]
      BY <1>5, <1>8, <3>1 DEF Call
    <3>. QED BY <1>1, <1>5, <1>8, <3>1, <3>3, <3>4 DEF Call
  <2>2. Active' = Active
    BY <1>1 DEF Active
  <2>. QED BY <1>1, <1>5, <1>6, <1>8, <2>1, <2>2 DEF Nested
<1>11. Owes'
  BY <1>1, <1>4 DEF IInv, Owes, Count
<1>12. Answers' /\ Released'
  BY <1>1, <1>4 DEF IInv, Answers, Released
<1>. QED BY <1>4, <1>9, <1>10, <1>11, <1>12 DEF IInv

(* The new call keeps what it was marked with; its callers' references are    *)
(* among it.                                                                 *)
LEMMA DispatchStep ==
    ASSUME IInv, NEW class \in Obj \cup {NoObj}, NEW arg \in Obj \cup {NoObj}, Dispatch(class, arg)
    PROVE  IInv'
<1>. DEFINE called == AddIfAny(vm, class)
            new == [mark |-> vm.local, frames |-> Len(frames), kept |-> vm.local]
<1>1. host.running /\ vm' = AddIfAny(called, arg) /\ calls' = Append(calls, new)
      /\ answer' = [ref |-> 0, obj |-> NoObj, kept |-> {}]
      /\ UNCHANGED <<frames, host, outside, pending, owed>>
  BY DEF Dispatch, NoAnswer, Answer
<1>2. Sound(called) /\ called.globals = vm.globals /\ vm.local \subseteq called.local
  BY AddIfAnySound DEF IInv
<1>. HIDE DEF called
<1>3. Sound(vm') /\ vm'.globals = vm.globals /\ vm.local \subseteq vm'.local
  BY <1>1, <1>2, AddIfAnySound
<1>4. /\ host.calls \in Nat /\ host.frames \in Nat /\ Len(calls) \in Nat /\ Len(frames) \in Nat
      /\ vm.local \in SUBSET Nat
      /\ host.calls <= Len(calls) /\ host.frames <= Len(frames)
      /\ \A k \in Active : Call(vm.local, k)
      /\ \A k, m \in Active :
            k < m => calls[k].kept \subseteq calls[m].mark /\ calls[k].frames <= calls[m].frames
  BY <1>1, TableFields DEF IInv, Types, Nested, Sound
<1>5. new \in [mark : SUBSET Nat, frames : Nat, kept : SUBSET Nat]
      /\ new.mark = vm.local /\ new.frames = Len(frames) /\ new.kept = vm.local
  BY <1>4
<1>. HIDE DEF new
<1>6. /\ calls' \in Seq([mark : SUBSET Nat, frames : Nat, kept : SUBSET Nat])
      /\ Len(calls') = Len(calls) + 1 /\ calls'[Len(calls) + 1] = new
      /\ \A k \in 1 .. Len(calls) : calls'[k] = calls[k]
  BY <1>1, <1>5 DEF IInv, Types
<1>7. Types'
  BY <1>1, <1>6 DEF IInv, Types
<1>8. Nested(vm.local)'
  <2>1. Active' = Active \cup {Len(calls) + 1} /\ Active \subseteq 1 .. Len(calls)
    BY <1>1, <1>4, <1>6 DEF Active
  <2>2. ASSUME NEW k \in Active'
        PROVE  Call(vm.local, k)'
    <3>1. CASE k \in Active
      <4>1. Call(vm.local, k) /\ calls'[k] = calls[k]
        BY <3>1, <1>4, <1>6, <2>1
      <4>. QED BY <1>1, <1>3, <4>1 DEF Call
    <3>2. CASE k = Len(calls) + 1
      BY <3>2, <1>1, <1>3, <1>4, <1>5, <1>6 DEF Call
    <3>. QED BY <2>1, <3>1, <3>2
  <2>3. ASSUME NEW k \in Active', NEW m \in Active', k < m
        PROVE  calls'[k].kept \subseteq calls'[m].mark /\ calls'[k].frames <= calls'[m].frames
    <3>1. k \in Active /\ calls'[k] = calls[k]
      <4>1. k \in Int /\ m \in Int /\ m <= Len(calls) + 1 /\ k # Len(calls) + 1
        BY <2>1, <2>3, <1>4, <1>6 DEF Active
      <4>. QED BY <4>1, <2>1, <1>6
    <3>2. CASE m \in Active
      <4>1. calls[k].kept \subseteq calls[m].mark /\ calls[k].frames <= calls[m].frames
        BY <1>4, <2>3, <3>1, <3>2
      <4>2. calls'[m] = calls[m]
        BY <1>6, <2>1, <3>2
      <4>. QED BY <3>1, <4>1, <4>2
    <3>3. CASE m = Len(calls) + 1
      <4>1. Call(vm.local, k)
        BY <1>4, <3>1
      <4>. QED BY <3>1, <3>3, <4>1, <1>5, <1>6 DEF Call
    <3>. QED BY <2>1, <3>2, <3>3
  <2>4. host.calls <= Len(calls') /\ host'.calls = host.calls
        /\ host'.frames = host.frames /\ host.frames <= Len(frames')
    BY <1>1, <1>4, <1>6
  <2>. QED BY <2>2, <2>3, <2>4 DEF Nested
<1>9. Owes'
  BY <1>1, <1>3 DEF IInv, Owes, Count
<1>10. Answers' /\ Released'
  BY <1>1 DEF IInv, Answers, Released
<1>. QED BY <1>3, <1>7, <1>8, <1>9, <1>10 DEF IInv

(* The release goes down to the mark of the latest call, which holds what it *)
(* and the calls below it keep.                                              *)
LEMMA ReturnStep ==
    ASSUME IInv, NEW r \in Ref \cup {0}, NativeReturn(r)
    PROVE  IInv'
<1>. DEFINE o == Object(vm, r)
            n == Len(calls)
            left == Release(vm, calls[n].mark)
<1>1. host.running /\ n > host.calls /\ host.calls \in Nat /\ n \in Nat
  BY DEF NativeReturn, IInv, Types
<1>2. /\ n > 0 /\ n \in Active /\ Last(calls) = calls[n]
      /\ Front(calls) \in Seq([mark : SUBSET Nat, frames : Nat, kept : SUBSET Nat])
      /\ Len(Front(calls)) = n - 1
      /\ \A k \in 1 .. n - 1 : Front(calls)[k] = calls[k]
  <2>1. calls \in Seq([mark : SUBSET Nat, frames : Nat, kept : SUBSET Nat]) /\ n > 0 /\ n \in Active
    BY <1>1 DEF IInv, Types, Active
  <2>. QED BY <2>1, LastAndFront
<1>3. vm' = AddIfAny(left, o) /\ calls' = Front(calls)
      /\ answer' = [ref |-> Handle(vm', o), obj |-> o, kept |-> calls[n].kept]
      /\ UNCHANGED <<frames, host, outside, pending, owed>>
  BY <1>2 DEF NativeReturn, Resolved, Returning, Answer
<1>4. o \in Obj \cup {NoObj}
  BY ObjectIsObject DEF IInv
<1>5. Sound(left) /\ left.local = vm.local \cap calls[n].mark /\ left.globals = vm.globals
  BY ReleaseSound DEF IInv
<1>. HIDE DEF o, left
<1>6. /\ Sound(vm') /\ vm'.globals = vm.globals /\ vm.local \cap calls[n].mark \subseteq vm'.local
      /\ (o # NoObj => Names(vm', Handle(vm', o), o)) /\ Handle(vm', o) \in Nat
  BY <1>3, <1>4, <1>5, AddIfAnySound
<1>7. /\ host.calls <= n /\ host.frames <= Len(frames)
      /\ \A k \in Active : Call(vm.local, k)
      /\ \A k, m \in Active :
            k < m => calls[k].kept \subseteq calls[m].mark /\ calls[k].frames <= calls[m].frames
  BY <1>1 DEF IInv, Nested
<1>8. calls[n].kept \in SUBSET Nat /\ calls[n].kept \subseteq vm'.local
  <2>1. Call(vm.local, n)
    BY <1>2, <1>7
  <2>. QED BY <1>1, <1>2, <1>6, <2>1, CallFields DEF Call, IInv
<1>. HIDE DEF n
<1>9. Types'
  BY <1>2, <1>3, <1>4, <1>6, <1>8 DEF IInv, Types
<1>10. Nested(vm.local)'
  <2>1. Active' = (host.calls + 1) .. (n - 1) /\ Active = (host.calls + 1) .. n
        /\ Active' \subseteq Active /\ \A k \in Active' : calls'[k] = calls[k] /\ k < n
    BY SMTT(60), <1>1, <1>2, <1>3 DEF Active, n
  <2>2. ASSUME NEW k \in Active'
        PROVE  Call(vm.local, k)'
    <3>1. Call(vm.local, k) /\ calls'[k] = calls[k] /\ calls[k].kept \subseteq calls[n].mark
      BY <1>2, <1>7, <2>1
    <3>. QED BY <1>3, <1>6, <3>1 DEF Call
  <2>3. ASSUME NEW k \in Active', NEW m \in Active', k < m
        PROVE  calls'[k].kept \subseteq calls'[m].mark /\ calls'[k].frames <= calls'[m].frames
    BY <1>7, <2>1, <2>3
  <2>4. host.calls <= Len(calls')
    BY <1>1, <1>2, <1>3
  <2>. QED BY <1>3, <1>7, <2>2, <2>3, <2>4 DEF Nested
<1>11. Owes'
  BY <1>3, <1>6 DEF IInv, Owes, Count
<1>12. Answers' /\ Released'
  BY <1>1, <1>3, <1>6, <1>8 DEF IInv, Answers, Released
<1>. QED BY <1>6, <1>9, <1>10, <1>11, <1>12 DEF IInv

-----------------------------------------------------------------------------
LEMMA NextInv == IInv /\ [Next]_vars => IInv'
<1>. SUFFICES ASSUME IInv, [Next]_vars PROVE IInv'
  OBVIOUS
<1>1. CASE UNCHANGED vars
  BY <1>1 DEF vars, IInv, Types, Nested, Call, Active, Owes, Answers, Released
<1>2. ASSUME NEW o \in Obj, NEW arg \in Obj \cup {NoObj}, CallNative(o, arg) PROVE IInv'
  BY <1>2, CallNativeStep
<1>3. CASE CallPlain
  BY <1>3, CallPlainStep
<1>4. CASE ReturnToHost \/ Crash \/ \E class \in Obj \cup {NoObj} : DispatchFails(class)
  BY <1>4, EndStep
<1>5. CASE ExceptionOccurred
  <2>1. pending \in Obj /\ Obtain(pending)
    BY <1>5 DEF ExceptionOccurred, IInv, Types
  <2>. QED BY <2>1, ObtainStep
<1>6. CASE PushLocalFrame
  BY <1>6, PushStep
<1>7. ASSUME NEW o \in Obj, CallRefused(o) \/ Obtain(o) PROVE IInv'
  BY <1>7, CallRefusedStep, ObtainStep
<1>8. ASSUME NEW o \in Obj \cup {NoObj}, Throw(o) PROVE IInv'
  BY <1>8, ThrowStep
<1>9. ASSUME NEW class \in Obj \cup {NoObj}, NEW arg \in Obj \cup {NoObj}, Dispatch(class, arg) PROVE IInv'
  BY <1>9, DispatchStep
<1>10. ASSUME NEW r \in Ref, DeleteLocalRef(r) PROVE IInv'
  BY <1>10, DeleteLocalStep
<1>11. ASSUME NEW r \in Ref, NewGlobalRef(r) \/ DeleteGlobalRef(r) PROVE IInv'
  BY <1>11, GlobalStep
<1>12. ASSUME NEW r \in Ref, NewWeakGlobalRef(r) \/ DeleteWeakGlobalRef(r) PROVE IInv'
  BY <1>12, WeakStep
<1>13. ASSUME NEW r \in Ref \cup {0}, PopLocalFrame(r) \/ NativeReturn(r) PROVE IInv'
  BY <1>13, PopStep, ReturnStep
<1>. QED BY <1>1, <1>2, <1>3, <1>4, <1>5, <1>6, <1>7, <1>8, <1>9, <1>10, <1>11, <1>12, <1>13 DEF Next

LEMMA Inductive == Spec => []IInv
BY InitInv, NextInv, PTL DEF Spec

-----------------------------------------------------------------------------
(* A reference means an object exactly while a table holds it, and handles   *)
(* and objects are inverse to each other.                                    *)
THEOREM KnownIffHeldAlways == Spec => []KnownIffHeld
<1>1. IInv => KnownIffHeld
  BY DEF IInv, Sound, Linked, HeldBy, Held, KnownIffHeld
<1>. QED BY <1>1, Inductive, PTL

(* A global reference stays valid until it was deleted as often as it was    *)
(* made.                                                                     *)
THEOREM GlobalsHeldAlways == Spec => []GlobalsHeld
<1>1. ASSUME IInv, NEW r \in Ref, owed[r] > 0
      PROVE  r \in DOMAIN vm.objects /\ r \in DOMAIN vm.globals
  <2>1. Count(vm, r) > 0
    BY <1>1 DEF IInv, Owes
  <2>2. r \in DOMAIN vm.globals
    BY <2>1 DEF Count
  <2>. QED BY <1>1, <2>2 DEF IInv, Sound, HeldBy
<1>2. IInv => GlobalsHeld
  BY <1>1 DEF GlobalsHeld
<1>. QED BY <1>2, Inductive, PTL

(* Whatever dispatched calls do, return or leave behind, their callers lose   *)
(* no local reference they have not deleted.                                 *)
THEOREM CallersKeepLocalsAlways == Spec => []CallersKeepLocals
<1>1. IInv => CallersKeepLocals
  BY DEF IInv, Nested, Active, Call, Answers, CallersKeepLocals
<1>. QED BY <1>1, Inductive, PTL

(* Nothing that was local inside a native method outlives it, and no         *)
(* exception one that returned.                                              *)
THEOREM NothingLeftBehindAlways == Spec => []NothingLeftBehind
<1>1. IInv => NothingLeftBehind
  BY DEF IInv, Released, NothingLeftBehind
<1>. QED BY <1>1, Inductive, PTL

(* A reference just given to the guest means the object it was given for.    *)
THEOREM AnswersAreValidAlways == Spec => []AnswersAreValid
<1>1. IInv => AnswersAreValid
  BY DEF IInv, Answers, Names, HeldBy, Held, Object, AnswersAreValid
<1>. QED BY <1>1, Inductive, PTL

-----------------------------------------------------------------------------
(***************************************************************************)
(* The copies that JNI lends, for every number of arrays and blocks.  What *)
(* BuffersReturned leaves open is that a handle found on file is one of    *)
(* the array that was copied: handles on file are old ones, and none of    *)
(* them is that of another array.                                          *)
(***************************************************************************)
Copies == Partial(Pointers, [ref : Nat, of : PrimitiveArrays])

BTypes ==
    /\ handleOf \in [PrimitiveArrays -> Nat] /\ nextHandle \in Nat \ {0}
    /\ blocks \subseteq Pointers /\ stringPtrs \subseteq Pointers
    /\ arrayPtrs \in Copies
    /\ held \subseteq Pointers /\ lost \subseteq Pointers /\ strayed \in BOOLEAN

HandlesApart ==
    \A a, b \in PrimitiveArrays : handleOf[a] = handleOf[b] /\ handleOf[a] # 0 => a = b

Filed ==
    /\ HandlesApart
    /\ \A a \in PrimitiveArrays : handleOf[a] < nextHandle
    /\ \A p \in DOMAIN arrayPtrs :
          /\ arrayPtrs[p].ref \in 1 .. nextHandle - 1
          /\ \A a \in PrimitiveArrays : handleOf[a] = arrayPtrs[p].ref => arrayPtrs[p].of = a

BInv == BTypes /\ Filed /\ lost \subseteq blocks \ held /\ BuffersReturned

LEMMA BInitInv == BInit => BInv
<1>. SUFFICES ASSUME BInit PROVE BInv
  OBVIOUS
<1>1. arrayPtrs \in Copies /\ DOMAIN arrayPtrs = {}
  <2>1. arrayPtrs = <<>> /\ DOMAIN arrayPtrs = {}
    BY DEF BInit
  <2>2. arrayPtrs \in [{} -> [ref : Nat, of : PrimitiveArrays]]
    BY <2>1
  <2>. QED BY <2>1, <2>2 DEF Copies, Partial
<1>2. BTypes
  <2>1. strayed \in BOOLEAN
    BY Zenon DEF BInit
  <2>. QED BY <1>1, <2>1 DEF BInit, BTypes
<1>3. Filed
  BY <1>1 DEF BInit, Filed, HandlesApart
<1>. QED BY <1>1, <1>2, <1>3 DEF BInit, BInv, BuffersReturned

LEMMA KnownStep == ASSUME BInv, NEW a \in PrimitiveArrays, Known(a) PROVE BInv'
<1>. USE DEF BInv
<1>1. BTypes'
  BY DEF Known, BTypes
<1>2. Filed'
  BY DEF Known, Filed, HandlesApart, BTypes, Copies, Partial
<1>3. OutOfReach \subseteq OutOfReach'
  BY DEF Known, Filed, HandlesApart, BTypes, Copies, Partial, OutOfReach
<1>. QED BY <1>1, <1>2, <1>3 DEF Known, BuffersReturned

LEMMA ForgottenStep == ASSUME BInv, NEW a \in PrimitiveArrays, Forgotten(a) PROVE BInv'
<1>. USE DEF BInv
<1>1. BTypes'
  BY DEF Forgotten, BTypes
<1>2. Filed'
  BY DEF Forgotten, Filed, HandlesApart, BTypes, Copies, Partial
<1>3. OutOfReach \subseteq OutOfReach'
  BY DEF Forgotten, Filed, HandlesApart, BTypes, Copies, Partial, OutOfReach
<1>. QED BY <1>1, <1>2, <1>3 DEF Forgotten, BuffersReturned

LEMMA GetStep ==
    ASSUME BInv, NEW p \in Pointers, GetChars(p) \/ \E a \in PrimitiveArrays : GetElements(a, p)
    PROVE  BInv'
<1>. USE DEF BInv, Lends
<1>1. CASE GetChars(p)
  <2>1. BTypes' /\ Filed'
    BY <1>1 DEF GetChars, BTypes, Filed, HandlesApart
  <2>2. OutOfReach \subseteq OutOfReach' /\ lost' \subseteq OutOfReach'
    BY <1>1 DEF GetChars, OutOfReach
  <2>. QED BY <1>1, <2>1, <2>2 DEF GetChars, BuffersReturned
<1>2. ASSUME NEW a \in PrimitiveArrays, GetElements(a, p) PROVE BInv'
  <2>1. /\ DOMAIN arrayPtrs' = DOMAIN arrayPtrs \cup {p}
        /\ arrayPtrs'[p] = [ref |-> handleOf[a], of |-> a]
        /\ \A q \in DOMAIN arrayPtrs : q # p /\ arrayPtrs'[q] = arrayPtrs[q]
    BY <1>2 DEF GetElements, BuffersReturned
  <2>2. BTypes'
    BY <1>2, <2>1 DEF GetElements, BTypes, Copies, Partial
  <2>3. Filed'
    <3>1. UNCHANGED <<handleOf, nextHandle>> /\ handleOf[a] \in 1 .. nextHandle - 1
      BY <1>2 DEF GetElements, BTypes, Filed, HandlesApart
    <3>2. \A b \in PrimitiveArrays : handleOf[b] = handleOf[a] => b = a
      BY <1>2 DEF GetElements, Filed, HandlesApart
    <3>. QED BY <2>1, <3>1, <3>2 DEF Filed, HandlesApart
  <2>4. OutOfReach \subseteq OutOfReach' /\ lost' \subseteq OutOfReach'
    <3>1. UNCHANGED handleOf /\ lost \subseteq lost'
      BY <1>2 DEF GetElements
    <3>. QED BY <2>1, <3>1 DEF OutOfReach
  <2>. QED BY <1>2, <2>1, <2>2, <2>3, <2>4 DEF GetElements, BuffersReturned
<1>. QED BY <1>1, <1>2

LEMMA ReleaseElementsStep ==
    ASSUME BInv, NEW a \in PrimitiveArrays, NEW p \in Pointers, NEW mode, ReleaseElements(a, p, mode)
    PROVE  BInv'
<1>. USE DEF BInv
<1>1. FiledUnder(p, a) => IsOf(p, a)
  BY DEF FiledUnder, IsOf, Filed, HandlesApart
<1>2. CASE FiledUnder(p, a) /\ mode # "commit"
  <2>1. /\ DOMAIN arrayPtrs' = DOMAIN arrayPtrs \ {p}
        /\ \A q \in DOMAIN arrayPtrs' : arrayPtrs'[q] = arrayPtrs[q]
        /\ blocks' = blocks \ {p} /\ held' = held \ {p} /\ p \in held
        /\ UNCHANGED <<handleOf, nextHandle, stringPtrs, lost, strayed>>
    BY <1>1, <1>2 DEF ReleaseElements, Restrict, GivesBack, BTypes
  <2>2. BTypes'
    BY <1>2, <2>1 DEF BTypes, Copies, Partial, ReleaseElements, Restrict
  <2>3. Filed'
    BY <2>1 DEF Filed, HandlesApart
  <2>4. OutOfReach \ {p} \subseteq OutOfReach'
    BY <2>1 DEF OutOfReach
  <2>5. ~strayed'
    BY <2>1, Zenon DEF BuffersReturned
  <2>6. /\ DOMAIN arrayPtrs' \cap stringPtrs' = {} /\ held' \subseteq blocks'
        /\ lost' \subseteq blocks' \ held' /\ blocks' = DOMAIN arrayPtrs' \cup stringPtrs'
    BY <1>2, <2>1 DEF FiledUnder, BuffersReturned
  <2>7. blocks' \ held' \subseteq OutOfReach'
    BY <2>1, <2>4 DEF BuffersReturned
  <2>. QED BY <2>2, <2>3, <2>5, <2>6, <2>7 DEF BuffersReturned
<1>3. CASE FiledUnder(p, a) /\ mode = "commit"
  BY <1>1, <1>3 DEF ReleaseElements, BTypes, Filed, HandlesApart, BuffersReturned, OutOfReach
<1>4. CASE ~FiledUnder(p, a)
  <2>1. IsOf(p, a) => p \in OutOfReach
    BY <1>4 DEF FiledUnder, IsOf, OutOfReach, ReleaseElements, BTypes
  <2>2. UNCHANGED <<handleOf, nextHandle, blocks, arrayPtrs, stringPtrs, lost, strayed>>
    BY <1>4 DEF ReleaseElements
  <2>3. held' = held \/ (held' = held \ {p} /\ IsOf(p, a))
    BY DEF ReleaseElements, GivesBack
  <2>. QED BY <2>1, <2>2, <2>3 DEF BTypes, Filed, HandlesApart, BuffersReturned, OutOfReach
<1>. QED BY <1>2, <1>3, <1>4

LEMMA ReleaseCharsStep == ASSUME BInv, NEW p \in Pointers, ReleaseChars(p) PROVE BInv'
BY DEF BInv, ReleaseChars, GivesBack, BTypes, Filed, HandlesApart, BuffersReturned, OutOfReach

LEMMA BNextInv == BInv /\ [BNext]_bvars => BInv'
<1>. SUFFICES ASSUME BInv, [BNext]_bvars PROVE BInv'
  OBVIOUS
<1>1. CASE UNCHANGED bvars
  BY <1>1 DEF bvars, BInv, BTypes, Filed, HandlesApart, BuffersReturned, OutOfReach
<1>2. CASE LendsNothing
  BY <1>1, <1>2 DEF LendsNothing
<1>. QED BY <1>1, <1>2, KnownStep, ForgottenStep, GetStep, ReleaseElementsStep, ReleaseCharsStep DEF BNext

(* Copies of arrays and strings stay allocated while the guest holds them,   *)
(* are freed when it gives them back, and go back where they came from.      *)
THEOREM BuffersReturnedAlways == BSpec => []BuffersReturned
<1>1. BInv => BuffersReturned
  BY DEF BInv
<1>. QED BY <1>1, BInitInv, BNextInv, PTL DEF BSpec
=============================================================================
