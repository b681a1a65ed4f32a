----------------------------- MODULE HooksProofs ------------------------------
(***************************************************************************)
(* The hooks on imported functions, and the calls through them.            *)
(*                                                                         *)
(* For every set of hooks and of importing modules, every size of the page *)
(* of trampolines and every history of installations in whichever modules, *)
(* removals, refusals and import slots that are lost: trampolines and      *)
(* hooks match one to one, every import slot that can be written leads to  *)
(* its newest hook, and a failure leaves behind no more than the           *)
(* trampoline for the call of a slot that is lost.                         *)
(*                                                                         *)
(* For hooks in all modules, every depth of calls, whatever the callbacks  *)
(* decide, raise, install and remove: the guest returns to its callers,    *)
(* and a call that returned, without a removal or skew in its run before,  *)
(* ran its hooks, the original and the post_calls in their order.          *)
(***************************************************************************)
EXTENDS HookedCalls, SequenceTheorems, FiniteSetTheorems, WellFoundedInduction, TLAPS

(***************************************************************************)
(* The trampolines of hooks.                                               *)
(***************************************************************************)
(* The trampoline imm is allocated for x.                                    *)
Has(t, imm, x) == imm \in DOMAIN t.slots /\ t.slots[imm] = x

Distinct(s) == \A i, j \in DOMAIN s : s[i] = s[j] => i = j

(* What a handler is for, and the slot it is in.                             *)
Live(r, x) ==
    IF x.got = ENTRY THEN x.kind = "after" /\ x.hook \in ToSet(r.breaks) \ r.stuck
                     ELSE x.hook \in Chained(r, x.got)

SlotOf(r, x) == IF x.kind = "on" THEN r.tramp[x.hook][x.got] ELSE r.after[x.hook][x.got]

Claimed(r, imm, x) == Live(r, x) /\ imm = SlotOf(r, x) /\ (x.kind = "after" => imm # NONE)

(* Trampolines and the hooks they serve match one to one, but that those of  *)
(* import slots that were lost may serve none.                               *)
Exact(r) ==
    /\ \A x \in Handlers, imm \in Slot : Claimed(r, imm, x) => Has(r.trap, imm, x)
    /\ \A x \in Handlers, imm \in Slot : Has(r.trap, imm, x) /\ x.got \notin r.lost => Claimed(r, imm, x)
    /\ \A h \in Hooks, g \in Gots : h \in Chained(r, g) => r.tramp[h][g] # NONE

Sound(r) ==
    /\ r \in Registry
    /\ SoundTable(r.trap)
    /\ Exact(r)
    /\ \A g \in Gots : Distinct(r.chain[g]) /\ (g \notin r.lost => r.got[g] = Newest(r, g))
    /\ Distinct(r.breaks)
    /\ r.stuck \subseteq ToSet(r.breaks)
    /\ ToSet(r.breaks) \ r.stuck # {} => r.watched

(* The handles agree with the registry.                                      *)
HandlesInv ==
    /\ Sound(reg)
    /\ where \in [Hooks -> SUBSET (Gots \cup {ENTRY})]
    /\ \A h \in Hooks : ENTRY \in where[h] => where[h] = {ENTRY}
    /\ Handled(ENTRY) = Replacing \ reg.stuck
    /\ \A g \in Gots : /\ Chained(reg, g) \subseteq Handled(g)
                       /\ Handled(g) \subseteq Chained(reg, g) \/ g \in reg.lost

LEMMA FirstRemoved ==
    ASSUME NEW S, NEW s \in Seq(S), NEW i \in 1 .. Len(s), Distinct(s)
    PROVE  RemoveFirst(s, s[i]) = SubSeq(s, 1, i - 1) \o SubSeq(s, i + 1, Len(s))
<1> DEFINE I == {j \in 1 .. Len(s) : s[j] = s[i]}
<1>1. I = {i}
  BY DEF Distinct
<1>2. SelectInSeq(s, LAMBDA v : v = s[i]) = Min(I)
  BY <1>1 DEF SelectInSeq
<1>3. Min(I) = i
  BY <1>1 DEF Min
<1>. QED BY <1>2, <1>3 DEF RemoveFirst, RemoveAt

LEMMA RemovedFirst ==
    ASSUME NEW S, NEW s \in Seq(S), NEW e \in ToSet(s), Distinct(s)
    PROVE  /\ RemoveFirst(s, e) \in Seq(S)
           /\ Distinct(RemoveFirst(s, e))
           /\ ToSet(RemoveFirst(s, e)) = ToSet(s) \ {e}
<1>1. PICK i \in 1 .. Len(s) : s[i] = e
  BY DEF ToSet
<1>a. PICK t : t = RemoveFirst(s, e)
  OBVIOUS
<1>2. t = SubSeq(s, 1, i - 1) \o SubSeq(s, i + 1, Len(s))
  BY <1>1, <1>a, FirstRemoved
<1>3. /\ t \in Seq(S) /\ Len(t) = Len(s) - 1
      /\ \A j \in 1 .. Len(t) : t[j] = IF j < i THEN s[j] ELSE s[j + 1]
  <2>a. PICK a : a = SubSeq(s, 1, i - 1)
    OBVIOUS
  <2>b. PICK b : b = SubSeq(s, i + 1, Len(s))
    OBVIOUS
  <2>0. Len(s) \in Nat /\ \A j \in 1 .. Len(s) : s[j] \in S
    OBVIOUS
  <2>1. a \in Seq(S) /\ Len(a) = i - 1 /\ \A j \in 1 .. i - 1 : a[j] = s[j]
    <3>1. \A j \in 1 .. i - 1 : s[j] \in S
      BY <1>1, <2>0
    <3>. QED BY <1>1, <2>0, <2>a, <3>1, SubSeqProperties
  <2>2. b \in Seq(S) /\ Len(b) = Len(s) - i /\ \A j \in 1 .. Len(s) - i : b[j] = s[j + i]
    <3>1. \A j \in i + 1 .. Len(s) : s[j] \in S
      BY <1>1, <2>0
    <3>2. /\ b \in Seq(S) /\ Len(b) = IF i + 1 <= Len(s) THEN Len(s) - (i + 1) + 1 ELSE 0
          /\ \A j \in 1 .. Len(s) - (i + 1) + 1 : b[j] = s[i + 1 + j - 1]
      BY <1>1, <2>0, <2>b, <3>1, SubSeqProperties
    <3>. QED BY <1>1, <2>0, <3>2
  <2>3. t \in Seq(S) /\ Len(t) = Len(a) + Len(b)
        /\ \A j \in 1 .. Len(a) + Len(b) : t[j] = IF j <= Len(a) THEN a[j] ELSE b[j - Len(a)]
    <3>1. t = a \o b
      BY <1>2, <2>a, <2>b
    <3>2. a \in Seq(S) /\ b \in Seq(S)
      BY <2>1, <2>2
    <3>. QED BY ONLY <3>1, <3>2, ConcatProperties
  <2>4. Len(t) = Len(s) - 1
    BY <1>1, <2>0, <2>1, <2>2, <2>3
  <2>5. ASSUME NEW j \in 1 .. Len(t) PROVE t[j] = IF j < i THEN s[j] ELSE s[j + 1]
    <3>1. j \in 1 .. Len(a) + Len(b) /\ (j <= Len(a) <=> j < i)
      BY <1>1, <2>0, <2>1, <2>2, <2>3
    <3>2. CASE j < i
      BY <1>1, <2>1, <2>3, <3>1, <3>2
    <3>3. CASE ~(j < i)
      <4>1. j - Len(a) \in 1 .. Len(s) - i /\ j - Len(a) + i = j + 1
        BY <1>1, <2>0, <2>1, <2>4, <3>3
      <4>. QED BY <2>2, <2>3, <3>1, <3>3, <4>1
    <3>. QED BY <3>2, <3>3
  <2>. QED BY <2>3, <2>4, <2>5
<1>4. Distinct(t)
  <2> SUFFICES ASSUME NEW j \in 1 .. Len(t), NEW k \in 1 .. Len(t), t[j] = t[k] PROVE j = k
    BY <1>3 DEF Distinct
  <2>. QED BY <1>3, SMTT(30) DEF Distinct
<1>5. \A x : x \in ToSet(t) <=> x \in ToSet(s) /\ x # e
  <2>1. ASSUME NEW x \in ToSet(t) PROVE x \in ToSet(s) /\ x # e
    <3>1. PICK j \in 1 .. Len(t) : x = t[j]
      BY <1>3 DEF ToSet
    <3>. QED BY <1>1, <1>3, <3>1, SMTT(30) DEF ToSet, Distinct
  <2>2. ASSUME NEW x \in ToSet(s), x # e PROVE x \in ToSet(t)
    <3>1. PICK j \in 1 .. Len(s) : x = s[j]
      BY DEF ToSet
    <3>2. CASE j < i
      BY <1>3, <3>1, <3>2 DEF ToSet
    <3>3. CASE i < j
      <4>1. j - 1 \in 1 .. Len(t) /\ t[j - 1] = s[j]
        BY <1>3, <3>3
      <4>. QED BY <1>3, <3>1, <4>1 DEF ToSet
    <3>. QED BY <1>1, <2>2, <3>1, <3>2, <3>3
  <2>. QED BY <2>1, <2>2
<1>. QED BY <1>a, <1>3, <1>4, <1>5

LEMMA AbsentRemoved ==
    ASSUME NEW S, NEW s \in Seq(S), NEW e, e \notin ToSet(s)
    PROVE  RemoveFirst(s, e) = s
<1>1. DOMAIN s = 1 .. Len(s)
  OBVIOUS
<1>. QED BY <1>1 DEF RemoveFirst, ToSet

LEMMA RemovedAnyway ==
    ASSUME NEW S, NEW s \in Seq(S), NEW e, Distinct(s)
    PROVE  /\ RemoveFirst(s, e) \in Seq(S)
           /\ Distinct(RemoveFirst(s, e))
           /\ ToSet(RemoveFirst(s, e)) = ToSet(s) \ {e}
<1>1. CASE e \in ToSet(s)
  BY <1>1, RemovedFirst
<1>2. CASE e \notin ToSet(s)
  BY <1>2, AbsentRemoved
<1>. QED BY <1>1, <1>2

LEMMA AppendedLast ==
    ASSUME NEW S, NEW s \in Seq(S), NEW e \in S, e \notin ToSet(s), Distinct(s)
    PROVE  /\ Append(s, e) \in Seq(S)
           /\ Distinct(Append(s, e))
           /\ ToSet(Append(s, e)) = ToSet(s) \cup {e}
           /\ RemoveFirst(Append(s, e), e) = s
           /\ Append(s, e) # <<>> /\ Last(Append(s, e)) = e
<1>a. PICK t : t = Append(s, e)
  OBVIOUS
<1>1. /\ t \in Seq(S) /\ Len(t) = Len(s) + 1 /\ Len(s) \in Nat /\ t # <<>>
      /\ \A j \in 1 .. Len(s) : t[j] = s[j] /\ s[j] # e
      /\ t[Len(t)] = e
  BY <1>a, AppendProperties DEF ToSet
<1>2. Distinct(t)
  <2> SUFFICES ASSUME NEW j \in 1 .. Len(t), NEW k \in 1 .. Len(t), t[j] = t[k] PROVE j = k
    BY <1>1 DEF Distinct
  <2>. QED BY <1>1 DEF Distinct
<1>3. ToSet(t) = ToSet(s) \cup {e}
  BY <1>1 DEF ToSet
<1>4. RemoveFirst(t, e) = s
  <2>1. Len(t) \in 1 .. Len(t)
    BY <1>1
  <2>2. RemoveFirst(t, t[Len(t)]) = SubSeq(t, 1, Len(t) - 1) \o SubSeq(t, Len(t) + 1, Len(t))
    BY <1>1, <1>2, <2>1, FirstRemoved
  <2>3. SubSeq(t, Len(t) + 1, Len(t)) = <<>>
    BY <1>1, SubSeqEmpty
  <2>4. SubSeq(t, 1, Len(t) - 1) = s
    <3>1. /\ SubSeq(t, 1, Len(t) - 1) \in Seq(S)
          /\ Len(SubSeq(t, 1, Len(t) - 1)) = Len(s)
          /\ \A j \in 1 .. Len(s) : SubSeq(t, 1, Len(t) - 1)[j] = s[j]
      BY <1>1, SubSeqProperties
    <3>. QED BY <3>1, SeqEqual
  <2>. QED BY <1>1, <2>2, <2>3, <2>4, ConcatEmptySeq
<1>. QED BY <1>a, <1>1, <1>2, <1>3, <1>4 DEF Last

(***************************************************************************)
(* The page of trampolines.                                                *)
(***************************************************************************)
LEMMA AllocKeeps ==
    ASSUME NEW t \in Table, SoundTable(t), CanAlloc(t), NEW x \in Handlers
    PROVE  /\ Alloc(t, x) \in Table /\ SoundTable(Alloc(t, x))
           /\ NewSlot(t) \in Slot
           /\ \A y \in Handlers : ~Has(t, NewSlot(t), y)
           /\ \A imm \in Slot, y \in Handlers :
                 Has(Alloc(t, x), imm, y) <=> Has(t, imm, y) \/ (imm = NewSlot(t) /\ y = x)
<1>1. /\ t = [slots |-> t.slots, free |-> t.free]
      /\ t.slots \in Seq(Handlers \cup {NoHandler}) /\ t.free \in Seq(Slot)
      /\ MAX_SLOTS \in Nat /\ NoHandler \notin Handlers
  BY GotHooksAssumption DEF Table
<1>a. PICK s : s = t.slots
  OBVIOUS
<1>b. PICK f : f = t.free
  OBVIOUS
<1>c. PICK u : u = Alloc(t, x)
  OBVIOUS
<1>d. PICK n : n = NewSlot(t)
  OBVIOUS
<1>2. /\ s \in Seq(Handlers \cup {NoHandler}) /\ f \in Seq(Slot) /\ Len(s) <= MAX_SLOTS
      /\ \A imm \in DOMAIN s : s[imm] = NoHandler <=> \E i \in DOMAIN f : f[i] = imm
      /\ \A i \in DOMAIN f : f[i] \in DOMAIN s
      /\ \A i, j \in DOMAIN f : f[i] = f[j] => i = j
  BY <1>1, <1>a, <1>b DEF SoundTable
<1>3. CASE f # <<>>
  <2>1. Len(f) \in 1 .. Len(f) /\ n = f[Len(f)] /\ n \in 1 .. Len(s) /\ n \in Slot /\ s[n] = NoHandler
    BY <1>1, <1>2, <1>3, <1>b, <1>d DEF NewSlot, Last, Slot
  <2>2. u.slots = [s EXCEPT ![n] = x] /\ u.free = SubSeq(f, 1, Len(f) - 1)
        /\ u = [slots |-> u.slots, free |-> u.free]
    BY <1>3, <1>a, <1>b, <1>c, <1>d DEF Alloc, NewSlot, Front
  <2>a. PICK v : v = u.slots
    OBVIOUS
  <2>b. PICK w : w = u.free
    OBVIOUS
  <2>3. /\ v \in Seq(Handlers \cup {NoHandler}) /\ Len(v) = Len(s)
        /\ \A i \in 1 .. Len(s) : v[i] = IF i = n THEN x ELSE s[i]
    <3>1. x \in Handlers \cup {NoHandler}
      OBVIOUS
    <3>. QED BY <1>2, <2>1, <2>2, <2>a, <3>1, ExceptSeq
  <2>4. /\ w \in Seq(Slot) /\ Len(w) = Len(f) - 1
        /\ \A i \in 1 .. Len(w) : w[i] = f[i]
    <3>1. /\ Len(f) \in Nat \ {0} /\ \A i \in 1 .. Len(f) - 1 : f[i] \in Slot
      BY <1>2, <2>1
    <3>2. /\ w \in Seq(Slot) /\ Len(w) = IF 1 <= Len(f) - 1 THEN Len(f) - 1 - 1 + 1 ELSE 0
          /\ \A i \in 1 .. Len(f) - 1 - 1 + 1 : w[i] = f[1 + i - 1]
      BY <2>2, <2>b, <3>1, SubSeqProperties
    <3>3. (IF 1 <= Len(f) - 1 THEN Len(f) - 1 - 1 + 1 ELSE 0) = Len(f) - 1
      <4>1. \A k \in Nat \ {0} : (IF 1 <= k - 1 THEN k - 1 - 1 + 1 ELSE 0) = k - 1
        OBVIOUS
      <4>. QED BY <3>1, <4>1
    <3>4. ASSUME NEW i \in 1 .. Len(f) - 1 PROVE w[i] = f[i]
      <4>1. i \in 1 .. Len(f) - 1 - 1 + 1 /\ 1 + i - 1 = i
        BY <3>1
      <4>. QED BY <3>2, <4>1
    <3>. QED BY <3>2, <3>3, <3>4
  <2>5. u \in Table
    BY <2>2, <2>3, <2>4, <2>a, <2>b DEF Table
  <2>6. \A imm \in DOMAIN v : v[imm] = NoHandler <=> \E i \in DOMAIN w : w[i] = imm
    <3>1. ASSUME NEW imm \in 1 .. Len(s), v[imm] = NoHandler PROVE \E i \in 1 .. Len(w) : w[i] = imm
      <4>1. imm # n /\ s[imm] = NoHandler
        BY <1>1, <2>3, <3>1
      <4>2. PICK i \in 1 .. Len(f) : f[i] = imm
        BY <1>2, <4>1
      <4>. QED BY <2>1, <2>4, <4>1, <4>2
    <3>2. ASSUME NEW imm \in 1 .. Len(s), NEW i \in 1 .. Len(w), w[i] = imm PROVE v[imm] = NoHandler
      <4>1. i \in 1 .. Len(f) /\ i # Len(f) /\ f[i] = imm
        BY <2>1, <2>4, <3>2
      <4>2. f[i] # f[Len(f)]
        BY <1>2, <2>1, <4>1
      <4>3. s[imm] = NoHandler
        BY <1>2, <4>1
      <4>. QED BY <2>1, <2>3, <4>1, <4>2, <4>3
    <3>. QED BY <2>3, <2>4, <3>1, <3>2
  <2>7. SoundTable(u)
    <3>0. DOMAIN f = 1 .. Len(f) /\ DOMAIN w = 1 .. Len(w) /\ DOMAIN v = 1 .. Len(v)
          /\ DOMAIN s = 1 .. Len(s)
      BY <1>2, <2>3, <2>4
    <3>4. \A i \in DOMAIN w : i \in DOMAIN f /\ w[i] = f[i]
      BY <2>1, <2>4, <3>0
    <3>1. Len(v) <= MAX_SLOTS /\ \A i \in DOMAIN w : w[i] \in DOMAIN v
      BY <1>2, <2>3, <3>0, <3>4
    <3>2. \A i, j \in DOMAIN w : w[i] = w[j] => i = j
      BY <1>2, <3>4
    <3>. QED BY <2>6, <2>a, <2>b, <3>1, <3>2 DEF SoundTable
  <2>8. \A y \in Handlers : ~Has(t, n, y)
    BY <1>1, <1>a, <2>1 DEF Has
  <2>9. \A imm, y : Has(u, imm, y) <=> imm \in 1 .. Len(s) /\ y = (IF imm = n THEN x ELSE s[imm])
    BY <2>3, <2>a DEF Has
  <2>10. \A imm, y : Has(t, imm, y) <=> imm \in 1 .. Len(s) /\ y = s[imm]
    BY <1>2, <1>a DEF Has
  <2>11. \A imm \in Slot, y \in Handlers : Has(u, imm, y) <=> Has(t, imm, y) \/ (imm = n /\ y = x)
    BY <1>1, <2>1, <2>9, <2>10
  <2>. QED BY <1>c, <1>d, <2>1, <2>5, <2>7, <2>8, <2>11
<1>4. CASE f = <<>>
  <2>1. /\ n = Len(s) + 1 /\ Len(s) \in Nat /\ Len(s) < MAX_SLOTS /\ n \in Slot
    BY <1>1, <1>2, <1>4, <1>a, <1>b, <1>d DEF NewSlot, CanAlloc, Slot
  <2>2. u.slots = Append(s, x) /\ u.free = f /\ u = [slots |-> u.slots, free |-> u.free]
    BY <1>4, <1>a, <1>b, <1>c DEF Alloc
  <2>a. PICK v : v = u.slots
    OBVIOUS
  <2>3. /\ v \in Seq(Handlers \cup {NoHandler}) /\ Len(v) = Len(s) + 1
        /\ \A i \in 1 .. Len(s) : v[i] = s[i]
        /\ v[n] = x
    <3>1. x \in Handlers \cup {NoHandler}
      OBVIOUS
    <3>. QED BY <1>2, <2>1, <2>2, <2>a, <3>1, AppendProperties
  <2>4. u \in Table
    BY <1>2, <2>2, <2>3, <2>a DEF Table
  <2>5. SoundTable(u)
    BY <1>1, <1>2, <1>4, <2>1, <2>2, <2>3, <2>a DEF SoundTable
  <2>6. \A imm, y : Has(u, imm, y) <=> imm \in 1 .. n /\ y = (IF imm = n THEN x ELSE s[imm])
    BY <2>1, <2>3, <2>a DEF Has
  <2>7. \A imm, y : Has(t, imm, y) <=> imm \in 1 .. Len(s) /\ y = s[imm]
    BY <1>2, <1>a DEF Has
  <2>8. \A y \in Handlers : ~Has(t, n, y)
    BY <2>1, <2>7
  <2>9. \A imm \in Slot, y \in Handlers : Has(u, imm, y) <=> Has(t, imm, y) \/ (imm = n /\ y = x)
    BY <2>1, <2>6, <2>7 DEF Slot
  <2>. QED BY <1>c, <1>d, <2>1, <2>4, <2>5, <2>8, <2>9
<1>. QED BY <1>3, <1>4

LEMMA ReleaseKeeps ==
    ASSUME NEW t \in Table, SoundTable(t), NEW n \in Slot, NEW x \in Handlers, Has(t, n, x)
    PROVE  /\ Release(t, n) \in Table /\ SoundTable(Release(t, n))
           /\ \A imm \in Slot, y \in Handlers :
                 Has(Release(t, n), imm, y) <=> Has(t, imm, y) /\ imm # n
<1>1. /\ t.slots \in Seq(Handlers \cup {NoHandler}) /\ t.free \in Seq(Slot)
      /\ MAX_SLOTS \in Nat /\ NoHandler \notin Handlers
  BY GotHooksAssumption DEF Table
<1>a. PICK s : s = t.slots
  OBVIOUS
<1>b. PICK f : f = t.free
  OBVIOUS
<1>c. PICK u : u = Release(t, n)
  OBVIOUS
<1>d. PICK v : v = u.slots
  OBVIOUS
<1>e. PICK w : w = u.free
  OBVIOUS
<1>2. /\ s \in Seq(Handlers \cup {NoHandler}) /\ f \in Seq(Slot) /\ Len(s) <= MAX_SLOTS
      /\ \A imm \in DOMAIN s : s[imm] = NoHandler <=> \E i \in DOMAIN f : f[i] = imm
      /\ \A i \in DOMAIN f : f[i] \in DOMAIN s
      /\ \A i, j \in DOMAIN f : f[i] = f[j] => i = j
  BY <1>1, <1>a, <1>b DEF SoundTable
<1>3. n \in 1 .. Len(s) /\ s[n] = x /\ x # NoHandler
  BY <1>1, <1>2, <1>a DEF Has
<1>4. v = [s EXCEPT ![n] = NoHandler] /\ w = Append(f, n) /\ u = [slots |-> v, free |-> w]
  BY <1>a, <1>b, <1>c, <1>d, <1>e DEF Release
<1>5. /\ v \in Seq(Handlers \cup {NoHandler}) /\ Len(v) = Len(s)
      /\ \A i \in 1 .. Len(s) : v[i] = IF i = n THEN NoHandler ELSE s[i]
  <2>1. NoHandler \in Handlers \cup {NoHandler}
    OBVIOUS
  <2>. QED BY <1>2, <1>3, <1>4, <2>1, ExceptSeq
<1>6. /\ w \in Seq(Slot) /\ Len(w) = Len(f) + 1 /\ Len(f) \in Nat
      /\ \A i \in 1 .. Len(f) : w[i] = f[i]
      /\ w[Len(f) + 1] = n
  BY <1>2, <1>4, AppendProperties
<1>7. u \in Table
  BY <1>4, <1>5, <1>6 DEF Table
<1>8. \A imm \in DOMAIN v : v[imm] = NoHandler <=> \E i \in DOMAIN w : w[i] = imm
  <2>1. ASSUME NEW imm \in 1 .. Len(s), v[imm] = NoHandler PROVE \E i \in 1 .. Len(w) : w[i] = imm
    <3>1. CASE imm = n
      BY <1>6, <3>1
    <3>2. CASE imm # n
      <4>1. PICK i \in 1 .. Len(f) : f[i] = imm
        BY <1>2, <1>5, <2>1, <3>2
      <4>. QED BY <1>6, <4>1
    <3>. QED BY <3>1, <3>2
  <2>2. ASSUME NEW imm \in 1 .. Len(s), NEW i \in 1 .. Len(w), w[i] = imm PROVE v[imm] = NoHandler
    <3>1. CASE i = Len(f) + 1
      BY <1>3, <1>5, <1>6, <2>2, <3>1
    <3>2. CASE i \in 1 .. Len(f)
      <4>1. f[i] = imm
        BY <1>6, <2>2, <3>2
      <4>2. s[imm] = NoHandler
        BY <1>2, <3>2, <4>1
      <4>. QED BY <1>5, <4>2
    <3>. QED BY <1>6, <3>1, <3>2
  <2>. QED BY <1>5, <1>6, <2>1, <2>2
<1>9. \A i \in 1 .. Len(f) : f[i] # n
  BY <1>2, <1>3
<1>10. \A i, j \in DOMAIN w : w[i] = w[j] => i = j
  <2> SUFFICES ASSUME NEW i \in 1 .. Len(f) + 1, NEW j \in 1 .. Len(f) + 1, w[i] = w[j] PROVE i = j
    BY <1>6
  <2>. QED BY <1>2, <1>6, <1>9, SMTT(30)
<1>11. SoundTable(u)
  <2>1. Len(v) <= MAX_SLOTS /\ \A i \in DOMAIN w : w[i] \in DOMAIN v
    BY <1>2, <1>3, <1>5, <1>6, SMTT(30)
  <2>. QED BY <1>8, <1>10, <1>d, <1>e, <2>1 DEF SoundTable
<1>12. \A imm, y : Has(u, imm, y) <=> imm \in 1 .. Len(s) /\ y = (IF imm = n THEN NoHandler ELSE s[imm])
  BY <1>5, <1>d DEF Has
<1>13. \A imm, y : Has(t, imm, y) <=> imm \in 1 .. Len(s) /\ y = s[imm]
  BY <1>2, <1>a DEF Has
<1>14. \A imm \in Slot, y \in Handlers : Has(u, imm, y) <=> Has(t, imm, y) /\ imm # n
  BY <1>1, <1>3, <1>12, <1>13
<1>. QED BY <1>c, <1>7, <1>11, <1>14

(***************************************************************************)
(* Registries.                                                             *)
(***************************************************************************)
LEMMA HandlerFacts ==
    /\ ENTRY \notin Gots /\ NONE \notin Slot /\ ORIGINAL = NONE
    /\ \A h \in Hooks, g \in Gots \cup {ENTRY} : On(h, g) \in Handlers /\ After(h, g) \in Handlers
    /\ \A h \in Hooks, g \in Gots \cup {ENTRY}, x \in Handlers :
          /\ x = On(h, g) <=> x.kind = "on" /\ x.hook = h /\ x.got = g
          /\ x = After(h, g) <=> x.kind = "after" /\ x.hook = h /\ x.got = g
    /\ \A x \in Handlers : x.kind \in {"on", "after"} /\ x.hook \in Hooks /\ x.got \in Gots \cup {ENTRY}
    /\ \A h, k \in Hooks, g, m \in Gots \cup {ENTRY} : On(h, g) # After(k, m)
<1>1. ENTRY \notin Gots /\ NONE \notin Slot /\ ORIGINAL = NONE
  BY GotHooksAssumption DEF Slot, NONE, ORIGINAL
<1>2. \A h \in Hooks, g \in Gots \cup {ENTRY} : On(h, g) \in Handlers /\ After(h, g) \in Handlers
  BY DEF On, After, Handlers
<1>3. ASSUME NEW h \in Hooks, NEW g \in Gots \cup {ENTRY}, NEW x \in Handlers
      PROVE  /\ x = On(h, g) <=> x.kind = "on" /\ x.hook = h /\ x.got = g
             /\ x = After(h, g) <=> x.kind = "after" /\ x.hook = h /\ x.got = g
  <2>1. x = [kind |-> x.kind, hook |-> x.hook, got |-> x.got]
    BY DEF Handlers
  <2>. QED BY <2>1 DEF On, After
<1>4. \A x \in Handlers : x.kind \in {"on", "after"} /\ x.hook \in Hooks /\ x.got \in Gots \cup {ENTRY}
  BY DEF Handlers
<1>5. ASSUME NEW h \in Hooks, NEW k \in Hooks, NEW g \in Gots \cup {ENTRY}, NEW m \in Gots \cup {ENTRY}
      PROVE  On(h, g) # After(k, m)
  <2>1. On(h, g).kind = "on" /\ After(k, m).kind = "after"
    BY DEF On, After
  <2>. QED BY <2>1
<1>. QED BY <1>1, <1>2, <1>3, <1>4, <1>5

LEMMA WithAfter ==
    ASSUME NEW r, Sound(r), NEW h \in Hooks, NEW g \in Gots \cup {ENTRY}, NEW post \in BOOLEAN,
           post => CanAlloc(r.trap)
    PROVE  /\ TrapWithAfter(r, h, g, post) \in Table /\ SoundTable(TrapWithAfter(r, h, g, post))
           /\ AfterSlot(r, post) \in Slot \cup {NONE}
           /\ AfterSlot(r, post) = NONE <=> ~post
           /\ \A y \in Handlers : ~(post /\ Has(r.trap, AfterSlot(r, post), y))
           /\ \A imm \in Slot, y \in Handlers :
                 Has(TrapWithAfter(r, h, g, post), imm, y) <=>
                    Has(r.trap, imm, y) \/ (imm = AfterSlot(r, post) /\ y = After(h, g))
<1>1. r.trap \in Table /\ SoundTable(r.trap)
  BY DEF Sound, Registry
<1>2. After(h, g) \in Handlers /\ NONE \notin Slot
  BY HandlerFacts
<1>3. CASE post
  <2>1. TrapWithAfter(r, h, g, post) = Alloc(r.trap, After(h, g)) /\ AfterSlot(r, post) = NewSlot(r.trap)
    BY <1>3 DEF TrapWithAfter, AfterSlot
  <2>2. CanAlloc(r.trap)
    BY <1>3
  <2>a. PICK x : x = After(h, g)
    OBVIOUS
  <2>b. PICK t : t = r.trap
    OBVIOUS
  <2>3. t \in Table /\ SoundTable(t) /\ CanAlloc(t) /\ x \in Handlers
    BY <1>1, <1>2, <2>2, <2>a, <2>b
  <2>4. /\ Alloc(t, x) \in Table /\ SoundTable(Alloc(t, x)) /\ NewSlot(t) \in Slot
        /\ \A y \in Handlers : ~Has(t, NewSlot(t), y)
        /\ \A imm \in Slot, y \in Handlers : Has(Alloc(t, x), imm, y) <=> Has(t, imm, y) \/ (imm = NewSlot(t) /\ y = x)
    BY ONLY <2>3, AllocKeeps, GotHooksAssumption
  <2>. QED BY <1>2, <1>3, <2>1, <2>4, <2>a, <2>b
<1>4. CASE ~post
  <2>1. TrapWithAfter(r, h, g, post) = r.trap /\ AfterSlot(r, post) = NONE
    BY <1>4 DEF TrapWithAfter, AfterSlot
  <2>. QED BY <1>1, <1>2, <1>4, <2>1
<1>. QED BY <1>3, <1>4

(***************************************************************************)
(* What an operation on the hook h leaves as it was: the other hooks, and  *)
(* import slots that were lost, but for trampolines for the call.          *)
(***************************************************************************)
Beside(q, r, h) ==
    /\ q.lost = r.lost /\ q.stuck = r.stuck /\ q.watched = r.watched /\ q.breaks = r.breaks
    /\ \A k \in Hooks \ {h} : q.tramp[k] = r.tramp[k] /\ q.after[k] = r.after[k]
    /\ \A m \in Gots : m \in r.lost => q.got[m] = r.got[m]
    /\ \A imm \in Slot, x \in Handlers : x.got \in r.lost =>
          /\ Has(r.trap, imm, x) => Has(q.trap, imm, x)
          /\ Has(q.trap, imm, x) => Has(r.trap, imm, x) \/ (x.kind = "on" /\ x.hook = h)

LEMMA BesideItself == \A r, h : Beside(r, r, h)
BY DEF Beside

LEMMA BesideChains ==
    ASSUME NEW p, NEW q, NEW r, NEW h, Beside(q, p, h), Beside(r, q, h)
    PROVE  Beside(r, p, h)
<1>1. r.lost = p.lost /\ r.stuck = p.stuck /\ r.watched = p.watched /\ r.breaks = p.breaks
  BY DEF Beside
<1>2. \A k \in Hooks \ {h} : r.tramp[k] = p.tramp[k] /\ r.after[k] = p.after[k]
  BY DEF Beside
<1>3. \A m \in Gots : m \in p.lost => r.got[m] = p.got[m]
  BY DEF Beside
<1>4. ASSUME NEW imm \in Slot, NEW x \in Handlers, x.got \in p.lost
      PROVE  /\ Has(p.trap, imm, x) => Has(r.trap, imm, x)
             /\ Has(r.trap, imm, x) => Has(p.trap, imm, x) \/ (x.kind = "on" /\ x.hook = h)
  BY <1>4 DEF Beside
<1>. QED BY <1>1, <1>2, <1>3, <1>4 DEF Beside

LEMMA InstallKeeps ==
    ASSUME NEW r, Sound(r), NEW h \in Hooks, NEW g \in Gots, NEW post \in BOOLEAN,
           h \notin Chained(r, g), CanInstall(r, h, g, post),
           NEW q, q = InstallGot(r, h, g, post)
    PROVE  /\ Sound(q) /\ Beside(q, r, h)
           /\ \A m \in Gots : q.chain[m] = IF m = g THEN Append(r.chain[g], h) ELSE r.chain[m]
<1>a. PICK t : t = TrapWithAfter(r, h, g, post)
  OBVIOUS
<1>b. PICK n : n = AfterSlot(r, post)
  OBVIOUS
<1>c. PICK slot : slot = NewSlot(t)
  OBVIOUS
<1>1. /\ t \in Table /\ SoundTable(t) /\ n \in Slot \cup {NONE} /\ (n = NONE <=> ~post)
      /\ \A y \in Handlers : ~(post /\ Has(r.trap, n, y))
      /\ \A imm \in Slot, y \in Handlers : Has(t, imm, y) <=> Has(r.trap, imm, y) \/ (imm = n /\ y = After(h, g))
  BY <1>a, <1>b, WithAfter DEF CanInstall, HasRoom
<1>2. CanAlloc(t) /\ g \notin r.lost
  BY <1>a DEF CanInstall, HasRoom
<1>d. PICK u : u = Alloc(t, On(h, g))
  OBVIOUS
<1>3. /\ u \in Table /\ SoundTable(u) /\ slot \in Slot
      /\ \A imm \in Slot, y \in Handlers : Has(u, imm, y) <=> Has(t, imm, y) \/ (imm = slot /\ y = On(h, g))
  BY <1>1, <1>2, <1>c, <1>d, HandlerFacts, AllocKeeps
<1>4. /\ r \in Registry /\ Exact(r) /\ Distinct(r.breaks) /\ r.stuck \subseteq ToSet(r.breaks)
      /\ ToSet(r.breaks) \ r.stuck # {} => r.watched
      /\ \A m \in Gots : Distinct(r.chain[m]) /\ (m \notin r.lost => r.got[m] = Newest(r, m))
  BY DEF Sound
<1>5. q = [r EXCEPT !.trap = u, !.chain[g] = Append(@, h), !.tramp[h][g] = slot,
                    !.after[h][g] = n, !.got[g] = slot, !.filed = @ \cup {g}]
  BY <1>a, <1>b, <1>c, <1>d DEF InstallGot
<1>6. /\ q.trap = u /\ q.breaks = r.breaks
      /\ q.chain = [r.chain EXCEPT ![g] = Append(@, h)]
      /\ q.tramp = [r.tramp EXCEPT ![h][g] = slot]
      /\ q.after = [r.after EXCEPT ![h][g] = n]
      /\ q.got = [r.got EXCEPT ![g] = slot]
      /\ q.filed = r.filed \cup {g} /\ q.lost = r.lost /\ q.stuck = r.stuck /\ q.watched = r.watched
      /\ q = [trap |-> q.trap, chain |-> q.chain, tramp |-> q.tramp, after |-> q.after, got |-> q.got,
              filed |-> q.filed, lost |-> q.lost, breaks |-> q.breaks, stuck |-> q.stuck, watched |-> q.watched]
  BY <1>4, <1>5 DEF Registry
<1>7. /\ r.chain \in [Gots -> Seq(Hooks)] /\ r.tramp \in [Hooks -> [Gots -> Slot \cup {NONE}]]
      /\ r.after \in [Hooks -> [Gots \cup {ENTRY} -> Slot \cup {NONE}]]
      /\ r.got \in [Gots -> Slot \cup {ORIGINAL}] /\ r.breaks \in Seq(Hooks)
      /\ r.filed \in SUBSET Gots /\ r.lost \in SUBSET Gots /\ r.stuck \in SUBSET Hooks
      /\ r.watched \in BOOLEAN
  BY <1>4 DEF Registry
<1>8. \A m \in Gots : q.chain[m] = IF m = g THEN Append(r.chain[g], h) ELSE r.chain[m]
  BY <1>6, <1>7
<1>9. \A k \in Hooks \ {h} : q.tramp[k] = r.tramp[k] /\ q.after[k] = r.after[k]
  BY <1>6, <1>7
<1>10. \A m \in Gots : q.tramp[h][m] = IF m = g THEN slot ELSE r.tramp[h][m]
  BY <1>6, <1>7
<1>11. \A m \in Gots \cup {ENTRY} : q.after[h][m] = IF m = g THEN n ELSE r.after[h][m]
  BY <1>6, <1>7
<1>12. \A m \in Gots : q.got[m] = IF m = g THEN slot ELSE r.got[m]
  BY <1>6, <1>7
<1>13. /\ Append(r.chain[g], h) \in Seq(Hooks) /\ Distinct(Append(r.chain[g], h))
       /\ ToSet(Append(r.chain[g], h)) = Chained(r, g) \cup {h}
       /\ Append(r.chain[g], h) # <<>> /\ Last(Append(r.chain[g], h)) = h
  <2>1. r.chain[g] \in Seq(Hooks) /\ Distinct(r.chain[g]) /\ h \notin ToSet(r.chain[g])
    BY <1>4, <1>7 DEF Chained
  <2>. QED BY <2>1, AppendedLast DEF Chained
<1>14. \A m \in Gots : Chained(q, m) = IF m = g THEN Chained(r, m) \cup {h} ELSE Chained(r, m)
  BY <1>8, <1>13 DEF Chained
<1>15. q \in Registry
  <2>1. q.chain \in [Gots -> Seq(Hooks)]
    BY <1>6, <1>7, <1>13
  <2>2. q.tramp \in [Hooks -> [Gots -> Slot \cup {NONE}]]
    BY <1>3, <1>6, <1>7
  <2>3. q.after \in [Hooks -> [Gots \cup {ENTRY} -> Slot \cup {NONE}]]
    <3>1. g \in Gots \cup {ENTRY} /\ n \in Slot \cup {NONE} /\ r.after[h] \in [Gots \cup {ENTRY} -> Slot \cup {NONE}]
      BY <1>1, <1>7
    <3>2. [r.after[h] EXCEPT ![g] = n] \in [Gots \cup {ENTRY} -> Slot \cup {NONE}]
      BY <3>1
    <3>. QED BY <1>6, <1>7, <3>2, ZenonT(60)
  <2>4. q.got \in [Gots -> Slot \cup {ORIGINAL}]
    BY <1>3, <1>6, <1>7
  <2>5. q.filed \in SUBSET Gots /\ q.lost \in SUBSET Gots /\ q.stuck \in SUBSET Hooks /\ q.watched \in BOOLEAN
        /\ q.breaks \in Seq(Hooks) /\ q.trap \in Table
    BY <1>3, <1>6, <1>7
  <2>. QED BY <1>6, <2>1, <2>2, <2>3, <2>4, <2>5 DEF Registry
<1>16. \A x \in Handlers, imm \in Slot :
          Claimed(q, imm, x) <=> \/ Claimed(r, imm, x)
                                 \/ imm = n /\ x = After(h, g)
                                 \/ imm = slot /\ x = On(h, g)
  <2> SUFFICES ASSUME NEW x \in Handlers, NEW imm \in Slot
               PROVE  Claimed(q, imm, x) <=> \/ Claimed(r, imm, x)
                                             \/ imm = n /\ x = After(h, g)
                                             \/ imm = slot /\ x = On(h, g)
    OBVIOUS
  <2>1. /\ g # ENTRY /\ imm # NONE
        /\ x.kind \in {"on", "after"} /\ x.hook \in Hooks /\ x.got \in Gots \cup {ENTRY}
        /\ x = On(h, g) <=> x.kind = "on" /\ x.hook = h /\ x.got = g
        /\ x = After(h, g) <=> x.kind = "after" /\ x.hook = h /\ x.got = g
    BY HandlerFacts
  <2>2. CASE x.hook = h /\ x.got = g
    <3>1. Live(q, x) /\ ~Live(r, x)
      BY <1>14, <2>1, <2>2 DEF Live
    <3>2. SlotOf(q, x) = IF x.kind = "on" THEN slot ELSE n
      BY <1>10, <1>11, <2>1, <2>2 DEF SlotOf
    <3>. QED BY <2>1, <2>2, <3>1, <3>2 DEF Claimed
  <2>3. CASE ~(x.hook = h /\ x.got = g)
    <3>1. Live(q, x) <=> Live(r, x)
      BY <1>6, <1>14, <2>1, <2>3 DEF Live
    <3>2. Live(r, x) => SlotOf(q, x) = SlotOf(r, x)
      <4>1. CASE x.got = ENTRY
        <5>1. Live(r, x) => x.kind = "after"
          BY <4>1 DEF Live
        <5>2. q.after[x.hook][x.got] = r.after[x.hook][x.got]
          BY <1>9, <1>11, <2>1, <2>3
        <5>. QED BY <5>1, <5>2 DEF SlotOf
      <4>2. CASE x.got \in Gots
        <5>1. q.tramp[x.hook][x.got] = r.tramp[x.hook][x.got]
          BY <1>9, <1>10, <2>1, <2>3, <4>2
        <5>2. q.after[x.hook][x.got] = r.after[x.hook][x.got]
          BY <1>9, <1>11, <2>1, <2>3
        <5>. QED BY <5>1, <5>2 DEF SlotOf
      <4>. QED BY <2>1, <4>1, <4>2
    <3>. QED BY <2>1, <2>3, <3>1, <3>2 DEF Claimed
  <2>. QED BY <2>2, <2>3
<1>17. \A imm \in Slot, x \in Handlers :
          Has(q.trap, imm, x) <=> Has(r.trap, imm, x) \/ (imm = n /\ x = After(h, g)) \/ (imm = slot /\ x = On(h, g))
  BY <1>1, <1>3, <1>6
<1>18. ASSUME NEW k \in Hooks, NEW m \in Gots, k \in Chained(q, m) PROVE q.tramp[k][m] # NONE
  <2>1. CASE k = h /\ m = g
    BY <1>3, <1>10, <2>1, HandlerFacts
  <2>2. CASE ~(k = h /\ m = g)
    <3>1. k \in Chained(r, m) /\ q.tramp[k][m] = r.tramp[k][m]
      BY <1>9, <1>10, <1>14, <1>18, <2>2
    <3>. QED BY <1>4, <3>1 DEF Exact
  <2>. QED BY <2>1, <2>2
<1>19. ASSUME NEW m \in Gots PROVE Distinct(q.chain[m]) /\ (m \notin q.lost => q.got[m] = Newest(q, m))
  <2>1. CASE m = g
    BY <1>8, <1>10, <1>12, <1>13, <2>1 DEF Newest
  <2>2. CASE m # g
    <3>1. \A k \in Hooks : q.tramp[k][m] = r.tramp[k][m]
      BY <1>9, <1>10, <2>2
    <3>2. r.chain[m] # <<>> => Last(r.chain[m]) \in Hooks
      BY <1>7 DEF Last
    <3>. QED BY <1>4, <1>6, <1>8, <1>12, <2>2, <3>1, <3>2 DEF Newest
  <2>. QED BY <2>1, <2>2
<1>20. Exact(q)
  <2>1. \A x \in Handlers, imm \in Slot : Claimed(q, imm, x) => Has(q.trap, imm, x)
    BY <1>4, <1>16, <1>17 DEF Exact
  <2>2. \A x \in Handlers, imm \in Slot : Has(q.trap, imm, x) /\ x.got \notin q.lost => Claimed(q, imm, x)
    BY <1>4, <1>6, <1>16, <1>17 DEF Exact
  <2>. QED BY <1>18, <2>1, <2>2 DEF Exact
<1>21. Sound(q)
  BY <1>3, <1>4, <1>6, <1>15, <1>19, <1>20 DEF Sound
<1>22. ASSUME NEW imm \in Slot, NEW x \in Handlers, x.got \in r.lost
       PROVE  Has(q.trap, imm, x) <=> Has(r.trap, imm, x)
  <2>1. x # On(h, g) /\ x # After(h, g)
    BY <1>2, <1>22, HandlerFacts
  <2>. QED BY <1>17, <2>1
<1>23. Beside(q, r, h)
  BY <1>2, <1>6, <1>9, <1>12, <1>22 DEF Beside
<1>. QED BY <1>8, <1>21, <1>23

LEMMA FreeAfterKeeps ==
    ASSUME NEW t \in Table, SoundTable(t), NEW b \in Slot \cup {NONE},
           NEW y \in Handlers, b # NONE => Has(t, b, y)
    PROVE  /\ FreeAfter(t, b) \in Table /\ SoundTable(FreeAfter(t, b))
           /\ \A imm \in Slot, z \in Handlers : Has(FreeAfter(t, b), imm, z) <=> Has(t, imm, z) /\ imm # b
<1>1. CASE b = NONE
  <2>1. FreeAfter(t, b) = t
    BY <1>1 DEF FreeAfter
  <2>. QED BY <1>1, <2>1, HandlerFacts
<1>2. CASE b # NONE
  <2>1. FreeAfter(t, b) = Release(t, b) /\ b \in Slot /\ Has(t, b, y)
    BY <1>2 DEF FreeAfter
  <2>. QED BY <2>1, ReleaseKeeps
<1>. QED BY <1>1, <1>2

LEMMA FreeBothKeeps ==
    ASSUME NEW t \in Table, SoundTable(t), NEW a \in Slot, NEW b \in Slot \cup {NONE},
           NEW x \in Handlers, NEW y \in Handlers, x # y, Has(t, a, x), b # NONE => Has(t, b, y)
    PROVE  /\ FreeBoth(t, a, b) \in Table /\ SoundTable(FreeBoth(t, a, b))
           /\ \A imm \in Slot, z \in Handlers :
                 Has(FreeBoth(t, a, b), imm, z) <=> Has(t, imm, z) /\ imm # a /\ imm # b
<1>a. PICK u : u = Release(t, a)
  OBVIOUS
<1>1. /\ u \in Table /\ SoundTable(u)
      /\ \A imm \in Slot, z \in Handlers : Has(u, imm, z) <=> Has(t, imm, z) /\ imm # a
  BY <1>a, ReleaseKeeps
<1>2. b # NONE => a # b
  BY DEF Has
<1>3. b # NONE => Has(u, b, y)
  BY <1>1, <1>2
<1>4. FreeBoth(t, a, b) = FreeAfter(u, b)
  BY <1>a DEF FreeBoth
<1>5. /\ FreeAfter(u, b) \in Table /\ SoundTable(FreeAfter(u, b))
      /\ \A imm \in Slot, z \in Handlers : Has(FreeAfter(u, b), imm, z) <=> Has(u, imm, z) /\ imm # b
  BY <1>1, <1>3, FreeAfterKeeps
<1>. QED BY <1>1, <1>4, <1>5

LEMMA RemoveKeeps ==
    ASSUME NEW r, Sound(r), NEW h \in Hooks, NEW g \in Gots, h \in Chained(r, g), g \notin r.lost,
           NEW q, q = RemoveGot(r, h, g)
    PROVE  /\ Sound(q) /\ Beside(q, r, h) /\ q.after = r.after
           /\ \A m \in Gots : q.chain[m] = IF m = g THEN RemoveFirst(r.chain[g], h) ELSE r.chain[m]
<1>a. PICK a : a = r.tramp[h][g]
  OBVIOUS
<1>b. PICK b : b = r.after[h][g]
  OBVIOUS
<1>c. PICK u : u = Unchain(r, h, g)
  OBVIOUS
<1>d. PICK t : t = FreeBoth(r.trap, a, b)
  OBVIOUS
<1>e. PICK new : new = Newest(u, g)
  OBVIOUS
<1>f. PICK filed : filed = Forgotten(u, g)
  OBVIOUS
<1>1. /\ r \in Registry /\ Exact(r) /\ Distinct(r.breaks) /\ SoundTable(r.trap)
      /\ r.stuck \subseteq ToSet(r.breaks) /\ (ToSet(r.breaks) \ r.stuck # {} => r.watched)
      /\ \A m \in Gots : Distinct(r.chain[m]) /\ (m \notin r.lost => r.got[m] = Newest(r, m))
  BY DEF Sound
<1>2. /\ r.trap \in Table /\ r.chain \in [Gots -> Seq(Hooks)]
      /\ r.tramp \in [Hooks -> [Gots -> Slot \cup {NONE}]]
      /\ r.after \in [Hooks -> [Gots \cup {ENTRY} -> Slot \cup {NONE}]]
      /\ r.got \in [Gots -> Slot \cup {ORIGINAL}] /\ r.breaks \in Seq(Hooks)
      /\ r.filed \in SUBSET Gots /\ r.lost \in SUBSET Gots /\ r.stuck \in SUBSET Hooks
      /\ r.watched \in BOOLEAN
  BY <1>1 DEF Registry
<1>3. u = [r EXCEPT !.chain = [r.chain EXCEPT ![g] = RemoveFirst(@, h)]]
  BY <1>1, <1>c DEF Unchain, Registry
<1>4. /\ u.trap = r.trap /\ u.tramp = r.tramp /\ u.after = r.after /\ u.got = r.got
      /\ u.breaks = r.breaks /\ u.chain = [r.chain EXCEPT ![g] = RemoveFirst(@, h)]
      /\ u.filed = r.filed /\ u.lost = r.lost /\ u.stuck = r.stuck /\ u.watched = r.watched
      /\ u = [trap |-> u.trap, chain |-> u.chain, tramp |-> u.tramp, after |-> u.after, got |-> u.got,
              filed |-> u.filed, lost |-> u.lost, breaks |-> u.breaks, stuck |-> u.stuck, watched |-> u.watched]
  BY <1>1, <1>3 DEF Registry
<1>5. q = [u EXCEPT !.got[g] = new, !.trap = t, !.filed = filed]
  BY <1>4, <1>a, <1>b, <1>c, <1>d, <1>e, <1>f DEF RemoveGot, Leading
<1>k. u \in Registry
  <2>1. r.chain[g] \in Seq(Hooks) /\ Distinct(r.chain[g]) /\ h \in ToSet(r.chain[g])
    BY <1>1, <1>2 DEF Chained
  <2>2. RemoveFirst(r.chain[g], h) \in Seq(Hooks)
    BY <2>1, RemovedFirst
  <2>3. u.chain \in [Gots -> Seq(Hooks)]
    BY <1>2, <1>4, <2>2
  <2>. QED BY <1>2, <1>4, <2>3 DEF Registry
<1>6. /\ q.trap = t /\ q.tramp = r.tramp /\ q.after = r.after /\ q.got = [r.got EXCEPT ![g] = new]
      /\ q.breaks = r.breaks /\ q.chain = u.chain
      /\ q.filed = filed /\ q.lost = r.lost /\ q.stuck = r.stuck /\ q.watched = r.watched
      /\ q = [trap |-> q.trap, chain |-> q.chain, tramp |-> q.tramp, after |-> q.after, got |-> q.got,
              filed |-> q.filed, lost |-> q.lost, breaks |-> q.breaks, stuck |-> q.stuck, watched |-> q.watched]
  BY <1>4, <1>5, <1>k DEF Registry
<1>7. \A m \in Gots : q.chain[m] = IF m = g THEN RemoveFirst(r.chain[g], h) ELSE r.chain[m]
  BY <1>2, <1>4, <1>6
<1>8. \A m \in Gots : q.got[m] = IF m = g THEN new ELSE r.got[m]
  BY <1>2, <1>6
<1>9. /\ RemoveFirst(r.chain[g], h) \in Seq(Hooks) /\ Distinct(RemoveFirst(r.chain[g], h))
      /\ ToSet(RemoveFirst(r.chain[g], h)) = Chained(r, g) \ {h}
  <2>1. r.chain[g] \in Seq(Hooks) /\ Distinct(r.chain[g]) /\ h \in ToSet(r.chain[g])
    BY <1>1, <1>2 DEF Chained
  <2>. QED BY <2>1, RemovedFirst DEF Chained
<1>10. \A m \in Gots : Chained(q, m) = IF m = g THEN Chained(r, m) \ {h} ELSE Chained(r, m)
  BY <1>7, <1>9 DEF Chained
<1>i. PICK x : x = On(h, g)
  OBVIOUS
<1>j. PICK y : y = After(h, g)
  OBVIOUS
<1>11. /\ g # ENTRY /\ g \in Gots \cup {ENTRY} /\ NONE \notin Slot
       /\ x \in Handlers /\ y \in Handlers /\ x # y
       /\ \A z \in Handlers : /\ z.kind \in {"on", "after"} /\ z.hook \in Hooks /\ z.got \in Gots \cup {ENTRY}
                              /\ z = x <=> z.kind = "on" /\ z.hook = h /\ z.got = g
                              /\ z = y <=> z.kind = "after" /\ z.hook = h /\ z.got = g
  BY <1>i, <1>j, HandlerFacts
<1>12. a \in Slot /\ Has(r.trap, a, x)
  <2>1. a \in Slot
    BY <1>1, <1>2, <1>a DEF Exact
  <2>2. Claimed(r, a, x)
    BY <1>11, <1>a DEF Claimed, Live, SlotOf
  <2>. QED BY <1>1, <1>11, <2>1, <2>2 DEF Exact
<1>13. b \in Slot \cup {NONE} /\ (b # NONE => Has(r.trap, b, y))
  <2>1. b \in Slot \cup {NONE}
    BY <1>2, <1>11, <1>b
  <2>2. b # NONE => Claimed(r, b, y)
    BY <1>11, <1>b DEF Claimed, Live, SlotOf
  <2>. QED BY <1>1, <1>11, <2>1, <2>2 DEF Exact
<1>14. /\ t \in Table /\ SoundTable(t)
       /\ \A imm \in Slot, z \in Handlers : Has(t, imm, z) <=> Has(r.trap, imm, z) /\ imm # a /\ imm # b
  BY <1>1, <1>2, <1>11, <1>12, <1>13, <1>d, FreeBothKeeps
<1>15. new \in Slot \cup {ORIGINAL}
  <2>1. u.chain[g] \in Seq(Hooks)
    BY <1>2, <1>4, <1>9
  <2>2. u.chain[g] # <<>> => Last(u.chain[g]) \in Hooks
    BY <2>1 DEF Last
  <2>. QED BY <1>2, <1>4, <1>e, <2>2, HandlerFacts DEF Newest
<1>16. q \in Registry
  <2>1. q.chain \in [Gots -> Seq(Hooks)]
    BY <1>2, <1>4, <1>6, <1>9
  <2>2. q.got \in [Gots -> Slot \cup {ORIGINAL}]
    BY <1>2, <1>6, <1>15
  <2>3. q.filed \in SUBSET Gots
    BY <1>2, <1>4, <1>6, <1>f DEF Forgotten
  <2>. QED BY <1>2, <1>6, <1>14, <2>1, <2>2, <2>3 DEF Registry
<1>17. ASSUME NEW z \in Handlers, ~(z.hook = h /\ z.got = g), NEW imm \in Slot
       PROVE  /\ Claimed(q, imm, z) <=> Claimed(r, imm, z)
              /\ Has(q.trap, imm, z) <=> Has(r.trap, imm, z)
  <2>1. SlotOf(q, z) = SlotOf(r, z)
    BY <1>6 DEF SlotOf
  <2>2. Live(q, z) <=> Live(r, z)
    BY <1>6, <1>10, <1>11, <1>17 DEF Live
  <2>3. z # x /\ z # y
    BY <1>11, <1>17
  <2>4. Has(r.trap, imm, z) => imm # a /\ imm # b
    BY <1>11, <1>12, <1>13, <2>3 DEF Has
  <2>. QED BY <1>6, <1>14, <2>1, <2>2, <2>4 DEF Claimed
<1>18. ASSUME NEW z \in Handlers, z.hook = h /\ z.got = g, NEW imm \in Slot
       PROVE  ~Claimed(q, imm, z) /\ ~Has(q.trap, imm, z)
  <2>1. ~Live(q, z) /\ Live(r, z)
    BY <1>10, <1>11, <1>18 DEF Live
  <2>2. SlotOf(r, z) = IF z.kind = "on" THEN a ELSE b
    BY <1>a, <1>b, <1>18 DEF SlotOf
  <2>3. Has(r.trap, imm, z) => Claimed(r, imm, z)
    BY <1>1, <1>18 DEF Exact
  <2>4. Has(r.trap, imm, z) => imm \in {a, b}
    BY <2>2, <2>3 DEF Claimed
  <2>. QED BY <1>6, <1>14, <2>1, <2>4 DEF Claimed
<1>19. Exact(q)
  <2>1. ASSUME NEW k \in Hooks, NEW m \in Gots, k \in Chained(q, m) PROVE q.tramp[k][m] # NONE
    <3>1. k \in Chained(r, m)
      BY <1>10, <2>1
    <3>. QED BY <1>1, <1>6, <3>1 DEF Exact
  <2>2. \A z \in Handlers, imm \in Slot : Claimed(q, imm, z) => Has(q.trap, imm, z)
    BY <1>1, <1>17, <1>18 DEF Exact
  <2>3. \A z \in Handlers, imm \in Slot : Has(q.trap, imm, z) /\ z.got \notin q.lost => Claimed(q, imm, z)
    BY <1>1, <1>6, <1>17, <1>18 DEF Exact
  <2>. QED BY <2>1, <2>2, <2>3 DEF Exact
<1>20. ASSUME NEW m \in Gots PROVE Distinct(q.chain[m]) /\ (m \notin q.lost => q.got[m] = Newest(q, m))
  <2>1. CASE m = g
    BY <1>2, <1>4, <1>6, <1>7, <1>8, <1>9, <1>e, <2>1 DEF Newest
  <2>2. CASE m # g
    BY <1>1, <1>6, <1>7, <1>8, <2>2 DEF Newest
  <2>. QED BY <2>1, <2>2
<1>21. Sound(q)
  BY <1>1, <1>6, <1>14, <1>16, <1>19, <1>20 DEF Sound
<1>22. Beside(q, r, h)
  BY <1>6, <1>8, <1>17 DEF Beside
<1>. QED BY <1>6, <1>7, <1>21, <1>22

(* Off the chain of an import slot that was lost, if it is on it.            *)
LEMMA RemoveLostKeeps ==
    ASSUME NEW r, Sound(r), NEW h \in Hooks, NEW g \in Gots, g \in r.lost,
           NEW q, q = RemoveGot(r, h, g)
    PROVE  /\ Sound(q) /\ Beside(q, r, h) /\ q.after = r.after
           /\ \A m \in Gots : q.chain[m] = IF m = g THEN RemoveFirst(r.chain[g], h) ELSE r.chain[m]
<1>1. /\ r \in Registry /\ Exact(r) /\ Distinct(r.breaks) /\ SoundTable(r.trap)
      /\ r.stuck \subseteq ToSet(r.breaks) /\ (ToSet(r.breaks) \ r.stuck # {} => r.watched)
      /\ \A m \in Gots : Distinct(r.chain[m]) /\ (m \notin r.lost => r.got[m] = Newest(r, m))
  BY DEF Sound
<1>2. r.chain \in [Gots -> Seq(Hooks)]
  BY <1>1 DEF Registry
<1>3. q = [r EXCEPT !.chain = [r.chain EXCEPT ![g] = RemoveFirst(@, h)]]
  BY <1>1 DEF RemoveGot, Unchain, Registry
<1>4. /\ q.trap = r.trap /\ q.tramp = r.tramp /\ q.after = r.after /\ q.got = r.got
      /\ q.breaks = r.breaks /\ q.chain = [r.chain EXCEPT ![g] = RemoveFirst(@, h)]
      /\ q.filed = r.filed /\ q.lost = r.lost /\ q.stuck = r.stuck /\ q.watched = r.watched
      /\ q = [trap |-> q.trap, chain |-> q.chain, tramp |-> q.tramp, after |-> q.after, got |-> q.got,
              filed |-> q.filed, lost |-> q.lost, breaks |-> q.breaks, stuck |-> q.stuck, watched |-> q.watched]
  BY <1>1, <1>3 DEF Registry
<1>5. /\ RemoveFirst(r.chain[g], h) \in Seq(Hooks) /\ Distinct(RemoveFirst(r.chain[g], h))
      /\ ToSet(RemoveFirst(r.chain[g], h)) = Chained(r, g) \ {h}
  <2>1. r.chain[g] \in Seq(Hooks) /\ Distinct(r.chain[g])
    BY <1>1, <1>2
  <2>. QED BY <2>1, RemovedAnyway DEF Chained
<1>6. \A m \in Gots : q.chain[m] = IF m = g THEN RemoveFirst(r.chain[g], h) ELSE r.chain[m]
  BY <1>2, <1>4
<1>7. \A m \in Gots : Chained(q, m) = IF m = g THEN Chained(r, m) \ {h} ELSE Chained(r, m)
  BY <1>5, <1>6 DEF Chained
<1>8. q \in Registry
  <2>1. q.chain \in [Gots -> Seq(Hooks)]
    BY <1>2, <1>4, <1>5
  <2>. QED BY <1>1, <1>4, <2>1 DEF Registry
<1>9. ASSUME NEW z \in Handlers, NEW imm \in Slot
      PROVE  /\ Claimed(q, imm, z) => Claimed(r, imm, z)
             /\ Claimed(r, imm, z) => Claimed(q, imm, z) \/ z.got = g
  <2>1. SlotOf(q, z) = SlotOf(r, z)
    BY <1>4 DEF SlotOf
  <2>2. z.got \in Gots \cup {ENTRY} /\ ENTRY \notin Gots
    BY HandlerFacts
  <2>3. (Live(q, z) => Live(r, z)) /\ (Live(r, z) => Live(q, z) \/ z.got = g)
    BY <1>4, <1>7, <2>2 DEF Live
  <2>. QED BY <2>1, <2>3 DEF Claimed
<1>10. Exact(q)
  <2>1. \A z \in Handlers, imm \in Slot : Claimed(q, imm, z) => Has(q.trap, imm, z)
    BY <1>1, <1>4, <1>9 DEF Exact
  <2>2. \A z \in Handlers, imm \in Slot : Has(q.trap, imm, z) /\ z.got \notin q.lost => Claimed(q, imm, z)
    BY <1>1, <1>4, <1>9 DEF Exact
  <2>3. \A k \in Hooks, m \in Gots : k \in Chained(q, m) => q.tramp[k][m] # NONE
    BY <1>1, <1>4, <1>7 DEF Exact
  <2>. QED BY <2>1, <2>2, <2>3 DEF Exact
<1>11. ASSUME NEW m \in Gots PROVE Distinct(q.chain[m]) /\ (m \notin q.lost => q.got[m] = Newest(q, m))
  BY <1>1, <1>4, <1>5, <1>6 DEF Newest
<1>12. Sound(q)
  BY <1>1, <1>4, <1>8, <1>10, <1>11 DEF Sound
<1>13. Beside(q, r, h)
  BY <1>4 DEF Beside
<1>. QED BY <1>4, <1>6, <1>12, <1>13

(* What changes nothing but the table of trampolines, and of it only the free *)
(* ones and those for the call of import slots that were lost.                *)
SameBut(t, r, h) ==
    \A imm \in Slot, y \in Handlers :
        /\ Has(r.trap, imm, y) => Has(t, imm, y)
        /\ Has(t, imm, y) => Has(r.trap, imm, y) \/ (y.kind = "on" /\ y.hook = h /\ y.got \in r.lost)

OnlyTrapsDiffer(q, r) ==
    /\ q \in Registry /\ q.chain = r.chain /\ q.tramp = r.tramp /\ q.after = r.after /\ q.got = r.got
    /\ q.lost = r.lost /\ q.breaks = r.breaks /\ q.stuck = r.stuck /\ q.watched = r.watched

LEMMA SameHandlersKeep ==
    ASSUME NEW r, Sound(r), NEW h \in Hooks, NEW q, OnlyTrapsDiffer(q, r), SoundTable(q.trap), SameBut(q.trap, r, h)
    PROVE  Sound(q) /\ Beside(q, r, h) /\ q.chain = r.chain
<1>1. /\ r \in Registry /\ Exact(r) /\ Distinct(r.breaks)
      /\ r.stuck \subseteq ToSet(r.breaks) /\ (ToSet(r.breaks) \ r.stuck # {} => r.watched)
      /\ \A m \in Gots : Distinct(r.chain[m]) /\ (m \notin r.lost => r.got[m] = Newest(r, m))
  BY DEF Sound
<1>2. /\ q \in Registry /\ q.chain = r.chain /\ q.tramp = r.tramp /\ q.after = r.after /\ q.got = r.got
      /\ q.lost = r.lost /\ q.breaks = r.breaks /\ q.stuck = r.stuck /\ q.watched = r.watched
  BY DEF OnlyTrapsDiffer
<1>3. \A imm, y : Claimed(q, imm, y) <=> Claimed(r, imm, y)
  BY <1>2 DEF Claimed, Live, SlotOf, Chained
<1>4. Exact(q)
  <2>1. \A z \in Handlers, imm \in Slot : Claimed(q, imm, z) => Has(q.trap, imm, z)
    BY <1>1, <1>2, <1>3 DEF Exact, SameBut
  <2>2. \A z \in Handlers, imm \in Slot : Has(q.trap, imm, z) /\ z.got \notin q.lost => Claimed(q, imm, z)
    BY <1>1, <1>2, <1>3 DEF Exact, SameBut
  <2>. QED BY <1>1, <1>2, <2>1, <2>2 DEF Exact, Chained
<1>5. \A m \in Gots : Newest(q, m) = Newest(r, m)
  BY <1>2 DEF Newest
<1>6. Beside(q, r, h)
  BY <1>2 DEF Beside, SameBut
<1>. QED BY <1>1, <1>2, <1>4, <1>5, <1>6 DEF Sound

LEMMA FailKeeps ==
    ASSUME NEW r, Sound(r), NEW h \in Hooks, NEW g \in Gots, NEW post \in BOOLEAN,
           ~CanInstall(r, h, g, post), NEW q, q = FailInstall(r, h, g, post)
    PROVE  Sound(q) /\ Beside(q, r, h) /\ q.chain = r.chain
<1>a. PICK t : t = TrapWithAfter(r, h, g, post)
  OBVIOUS
<1>b. PICK n : n = AfterSlot(r, post)
  OBVIOUS
<1>c. PICK filed : filed = Forgotten(r, g)
  OBVIOUS
<1>1. r \in Registry /\ filed \in SUBSET Gots /\ r.trap \in Table /\ SoundTable(r.trap)
  BY <1>c DEF Sound, Registry, Forgotten
<1>2. CASE ~Reached(r, g)
  BY <1>2, BesideItself DEF FailInstall
<1>3. CASE Reached(r, g) /\ ~(post => CanAlloc(r.trap))
  <2>1. q = [r EXCEPT !.trap = r.trap, !.filed = filed]
    BY <1>3, <1>c DEF FailInstall
  <2>2. SameBut(q.trap, r, h) /\ q.trap = r.trap /\ OnlyTrapsDiffer(q, r)
    BY <1>1, <2>1 DEF SameBut, OnlyTrapsDiffer, Registry
  <2>. QED BY <1>1, <2>2, SameHandlersKeep
<1>4. CASE Reached(r, g) /\ (post => CanAlloc(r.trap))
  <2>1. /\ t \in Table /\ SoundTable(t) /\ n \in Slot \cup {NONE} /\ (n = NONE <=> ~post)
        /\ \A y \in Handlers : ~(post /\ Has(r.trap, n, y))
        /\ \A imm \in Slot, y \in Handlers : Has(t, imm, y) <=> Has(r.trap, imm, y) \/ (imm = n /\ y = After(h, g))
    BY <1>4, <1>a, <1>b, WithAfter
  <2>c. PICK taken : taken = IF HasRoom(r, h, g, post) THEN Alloc(t, On(h, g)) ELSE t
    OBVIOUS
  <2>d. PICK u : u = FreeAfter(taken, n)
    OBVIOUS
  <2>e. PICK slot : slot = NewSlot(t)
    OBVIOUS
  <2>2. /\ On(h, g) \in Handlers /\ After(h, g) \in Handlers /\ NONE \notin Slot
        /\ On(h, g).kind = "on" /\ On(h, g).hook = h /\ On(h, g).got = g
    BY HandlerFacts
  <2>3. q = [r EXCEPT !.trap = u, !.filed = filed]
    BY <1>4, <1>a, <1>b, <1>c, <2>c, <2>d DEF FailInstall
  <2>4. n # NONE => n \in Slot /\ Has(t, n, After(h, g))
    BY <2>1, <2>2
  <2>5. CASE HasRoom(r, h, g, post)
    <3>1. g \in r.lost /\ CanAlloc(t) /\ taken = Alloc(t, On(h, g))
      BY <1>a, <2>5, <2>c DEF CanInstall, HasRoom
    <3>2. /\ taken \in Table /\ SoundTable(taken) /\ slot \in Slot
          /\ \A y \in Handlers : ~Has(t, slot, y)
          /\ \A imm \in Slot, y \in Handlers : Has(taken, imm, y) <=> Has(t, imm, y) \/ (imm = slot /\ y = On(h, g))
      BY <2>1, <2>2, <2>e, <3>1, AllocKeeps
    <3>3. slot # n
      BY <2>2, <2>4, <3>2
    <3>4. n # NONE => Has(taken, n, After(h, g))
      BY <2>2, <2>4, <3>2
    <3>5. /\ u \in Table /\ SoundTable(u)
          /\ \A imm \in Slot, y \in Handlers : Has(u, imm, y) <=> Has(taken, imm, y) /\ imm # n
      BY <2>1, <2>2, <2>d, <3>2, <3>4, FreeAfterKeeps
    <3>6. ASSUME NEW imm \in Slot, NEW y \in Handlers
          PROVE  Has(u, imm, y) <=> Has(r.trap, imm, y) \/ (imm = slot /\ y = On(h, g))
      <4>1. Has(r.trap, imm, y) => imm # n
        BY <2>1, <2>2
      <4>. QED BY <2>1, <3>2, <3>3, <3>5, <4>1
    <3>7. SameBut(u, r, h)
      BY <2>2, <3>1, <3>6 DEF SameBut
    <3>8. q.trap = u /\ OnlyTrapsDiffer(q, r)
      BY <1>1, <2>3, <3>5 DEF OnlyTrapsDiffer, Registry
    <3>. QED BY <3>5, <3>7, <3>8, SameHandlersKeep
  <2>6. CASE ~HasRoom(r, h, g, post)
    <3>1. taken = t
      BY <2>6, <2>c
    <3>2. /\ u \in Table /\ SoundTable(u)
          /\ \A imm \in Slot, y \in Handlers : Has(u, imm, y) <=> Has(t, imm, y) /\ imm # n
      BY <2>1, <2>2, <2>4, <2>d, <3>1, FreeAfterKeeps
    <3>3. ASSUME NEW imm \in Slot, NEW y \in Handlers
          PROVE  Has(u, imm, y) <=> Has(r.trap, imm, y)
      <4>1. Has(r.trap, imm, y) => imm # n
        BY <2>1, <2>2
      <4>. QED BY <2>1, <3>2, <4>1
    <3>4. SameBut(u, r, h)
      BY <3>3 DEF SameBut
    <3>5. q.trap = u /\ OnlyTrapsDiffer(q, r)
      BY <1>1, <2>3, <3>2 DEF OnlyTrapsDiffer, Registry
    <3>. QED BY <3>2, <3>4, <3>5, SameHandlersKeep
  <2>. QED BY <2>5, <2>6
<1>. QED BY <1>2, <1>3, <1>4


(* Hooks on the entry do not touch import slots.                             *)
Apart(q, r) ==
    q.chain = r.chain /\ q.tramp = r.tramp /\ q.got = r.got /\ q.lost = r.lost /\ q.filed = r.filed

AfterSet(q, r, h, n) == q.after = [r.after EXCEPT ![h][ENTRY] = n]

Added(q, r, h, n) ==
    /\ q.breaks \in Seq(Hooks) /\ Distinct(q.breaks) /\ ToSet(q.breaks) = ToSet(r.breaks) \cup {h}
    /\ q.after \in [Hooks -> [Gots \cup {ENTRY} -> Slot \cup {NONE}]]
    /\ \A k \in Hooks \ {h} : q.after[k] = r.after[k]
    /\ \A k \in Hooks, m \in Gots \cup {ENTRY} :
          q.after[k][m] = IF k = h /\ m = ENTRY THEN n ELSE r.after[k][m]

LEMMA AddedFacts ==
    ASSUME NEW r, Sound(r), NEW h \in Hooks, NEW n \in Slot \cup {NONE}, h \notin ToSet(r.breaks),
           NEW q, AfterSet(q, r, h, n), q.breaks = Append(r.breaks, h)
    PROVE  Added(q, r, h, n)
<1>1. r.after \in [Hooks -> [Gots \cup {ENTRY} -> Slot \cup {NONE}]] /\ r.breaks \in Seq(Hooks)
  BY DEF Sound, Registry
<1>2. Distinct(r.breaks)
  BY DEF Sound
<1>3. /\ q.breaks \in Seq(Hooks) /\ Distinct(q.breaks) /\ ToSet(q.breaks) = ToSet(r.breaks) \cup {h}
  BY <1>1, <1>2, AppendedLast
<1>4. ENTRY \in Gots \cup {ENTRY} /\ r.after[h] \in [Gots \cup {ENTRY} -> Slot \cup {NONE}]
  BY <1>1
<1>5. [r.after[h] EXCEPT ![ENTRY] = n] \in [Gots \cup {ENTRY} -> Slot \cup {NONE}]
  BY <1>4
<1>6. q.after \in [Hooks -> [Gots \cup {ENTRY} -> Slot \cup {NONE}]]
  BY <1>1, <1>5 DEF AfterSet
<1>7. \A k \in Hooks : q.after[k] = IF k = h THEN [r.after[h] EXCEPT ![ENTRY] = n] ELSE r.after[k]
  BY <1>1 DEF AfterSet
<1>8. ASSUME NEW k \in Hooks, NEW m \in Gots \cup {ENTRY}
      PROVE  q.after[k][m] = IF k = h /\ m = ENTRY THEN n ELSE r.after[k][m]
  <2>1. CASE k = h
    BY <1>4, <1>7, <2>1
  <2>2. CASE k # h
    BY <1>7, <2>2
  <2>. QED BY <2>1, <2>2
<1>. QED BY <1>3, <1>6, <1>7, <1>8 DEF Added

LEMMA AddEntryKeeps ==
    ASSUME NEW r, Sound(r), NEW h \in Hooks, NEW post \in BOOLEAN, CanReplace(r, post),
           h \notin ToSet(r.breaks), NEW q, q = AddEntry(r, h, post)
    PROVE  /\ Sound(q) /\ Apart(q, r) /\ q.stuck = r.stuck
           /\ q.breaks = Append(r.breaks, h) /\ ToSet(q.breaks) = ToSet(r.breaks) \cup {h}
           /\ \A k \in Hooks \ {h} : q.after[k] = r.after[k]
<1>a. PICK t : t = TrapWithAfter(r, h, ENTRY, post)
  OBVIOUS
<1>b. PICK n : n = AfterSlot(r, post)
  OBVIOUS
<1>c. PICK y : y = After(h, ENTRY)
  OBVIOUS
<1>1. /\ t \in Table /\ SoundTable(t) /\ n \in Slot \cup {NONE}
      /\ \A imm \in Slot, z \in Handlers : Has(t, imm, z) <=> Has(r.trap, imm, z) \/ (imm = n /\ z = y)
  <2>1. post => CanAlloc(r.trap)
    BY DEF CanReplace
  <2>2. ENTRY \in Gots \cup {ENTRY}
    OBVIOUS
  <2>. QED BY <1>a, <1>b, <1>c, <2>1, <2>2, WithAfter
<1>2. /\ r \in Registry /\ Exact(r) /\ r.stuck \subseteq ToSet(r.breaks)
      /\ \A m \in Gots : Distinct(r.chain[m]) /\ (m \notin r.lost => r.got[m] = Newest(r, m))
  BY DEF Sound
<1>4. q = [r EXCEPT !.trap = t, !.after[h][ENTRY] = n, !.breaks = Append(@, h), !.watched = TRUE]
  BY <1>a, <1>b DEF AddEntry
<1>5. /\ q.trap = t /\ Apart(q, r) /\ q.stuck = r.stuck /\ q.watched = TRUE
      /\ q.after = [r.after EXCEPT ![h][ENTRY] = n] /\ q.breaks = Append(r.breaks, h)
      /\ q = [trap |-> q.trap, chain |-> q.chain, tramp |-> q.tramp, after |-> q.after, got |-> q.got,
              filed |-> q.filed, lost |-> q.lost, breaks |-> q.breaks, stuck |-> q.stuck, watched |-> q.watched]
  BY <1>2, <1>4 DEF Registry, Apart
<1>6. /\ q.breaks \in Seq(Hooks) /\ Distinct(q.breaks) /\ ToSet(q.breaks) = ToSet(r.breaks) \cup {h}
      /\ q.after \in [Hooks -> [Gots \cup {ENTRY} -> Slot \cup {NONE}]]
      /\ \A k \in Hooks \ {h} : q.after[k] = r.after[k]
      /\ \A k \in Hooks, m \in Gots \cup {ENTRY} :
            q.after[k][m] = IF k = h /\ m = ENTRY THEN n ELSE r.after[k][m]
  <2>1. AfterSet(q, r, h, n)
    BY <1>5 DEF AfterSet
  <2>2. /\ Sound(r) /\ h \in Hooks /\ n \in Slot \cup {NONE} /\ h \notin ToSet(r.breaks)
        /\ q.breaks = Append(r.breaks, h)
    BY <1>1, <1>5
  <2>3. Added(q, r, h, n)
    BY ONLY <2>1, <2>2, AddedFacts
  <2>. QED BY <2>3 DEF Added
<1>7. /\ q.chain = r.chain /\ q.tramp = r.tramp /\ q.got = r.got /\ q.lost = r.lost /\ q.filed = r.filed
  BY <1>5 DEF Apart
<1>8. q \in Registry
  BY <1>1, <1>2, <1>5, <1>6, <1>7 DEF Registry
<1>9. /\ ENTRY \notin Gots /\ NONE \notin Slot /\ y \in Handlers
      /\ \A z \in Handlers : /\ z.kind \in {"on", "after"} /\ z.hook \in Hooks /\ z.got \in Gots \cup {ENTRY}
                             /\ z = y <=> z.kind = "after" /\ z.hook = h /\ z.got = ENTRY
  BY <1>c, HandlerFacts
<1>10. ASSUME NEW z \in Handlers, NEW imm \in Slot
       PROVE  Claimed(q, imm, z) <=> Claimed(r, imm, z) \/ (imm = n /\ z = y)
  <2>1. CASE z = y
    <3>1. Live(q, z) /\ ~Live(r, z) /\ SlotOf(q, z) = n
      BY <1>2, <1>5, <1>6, <1>9, <2>1 DEF Live, SlotOf
    <3>. QED BY <1>9, <2>1, <3>1 DEF Claimed
  <2>2. CASE z # y
    <3>1. Live(q, z) <=> Live(r, z)
      BY <1>5, <1>6, <1>7, <1>9, <2>2 DEF Live, Chained
    <3>2. SlotOf(q, z) = SlotOf(r, z)
      <4>1. z.kind = "after" => q.after[z.hook][z.got] = r.after[z.hook][z.got]
        BY <1>6, <1>9, <2>2
      <4>. QED BY <1>7, <1>9, <4>1 DEF SlotOf
    <3>. QED BY <2>2, <3>1, <3>2 DEF Claimed
  <2>. QED BY <2>1, <2>2
<1>11. Exact(q)
  <2>1. \A z \in Handlers, imm \in Slot : Claimed(q, imm, z) => Has(q.trap, imm, z)
    BY <1>1, <1>2, <1>5, <1>10 DEF Exact
  <2>2. \A z \in Handlers, imm \in Slot : Has(q.trap, imm, z) /\ z.got \notin q.lost => Claimed(q, imm, z)
    BY <1>1, <1>2, <1>5, <1>7, <1>10 DEF Exact
  <2>. QED BY <1>2, <1>7, <2>1, <2>2 DEF Exact, Chained
<1>12. \A m \in Gots : Newest(q, m) = Newest(r, m)
  BY <1>7 DEF Newest
<1>13. Sound(q)
  BY <1>1, <1>2, <1>5, <1>6, <1>7, <1>8, <1>11, <1>12 DEF Sound
<1>. QED BY <1>5, <1>6, <1>13

LEMMA RefuseEntryKeeps ==
    ASSUME NEW r, Sound(r), NEW h \in Hooks, NEW post \in BOOLEAN, NEW watched \in BOOLEAN,
           CanReplace(r, post), ~r.watched,
           h \notin ToSet(r.breaks), NEW q, q = RefuseEntry(r, h, post, watched)
    PROVE  /\ Sound(q) /\ Apart(q, r) /\ q.stuck = r.stuck \cup {h}
           /\ q.breaks = Append(r.breaks, h) /\ ToSet(q.breaks) = ToSet(r.breaks) \cup {h}
           /\ \A k \in Hooks \ {h} : q.after[k] = r.after[k]
           /\ \A imm \in Slot, z \in Handlers : Has(q.trap, imm, z) <=> Has(r.trap, imm, z)
<1>a. PICK t : t = TrapWithAfter(r, h, ENTRY, post)
  OBVIOUS
<1>b. PICK n : n = AfterSlot(r, post)
  OBVIOUS
<1>c. PICK y : y = After(h, ENTRY)
  OBVIOUS
<1>d. PICK u : u = FreeAfter(t, n)
  OBVIOUS
<1>9. /\ ENTRY \notin Gots /\ NONE \notin Slot /\ y \in Handlers
      /\ \A z \in Handlers : z.kind \in {"on", "after"} /\ z.hook \in Hooks /\ z.got \in Gots \cup {ENTRY}
  BY <1>c, HandlerFacts
<1>1. /\ t \in Table /\ SoundTable(t) /\ n \in Slot \cup {NONE} /\ (n = NONE <=> ~post)
      /\ \A z \in Handlers : ~(post /\ Has(r.trap, n, z))
      /\ \A imm \in Slot, z \in Handlers : Has(t, imm, z) <=> Has(r.trap, imm, z) \/ (imm = n /\ z = y)
  <2>1. post => CanAlloc(r.trap)
    BY DEF CanReplace
  <2>2. ENTRY \in Gots \cup {ENTRY}
    OBVIOUS
  <2>. QED BY <1>a, <1>b, <1>c, <2>1, <2>2, WithAfter
<1>3. /\ u \in Table /\ SoundTable(u)
      /\ \A imm \in Slot, z \in Handlers : Has(u, imm, z) <=> Has(r.trap, imm, z)
  <2>1. n # NONE => Has(t, n, y)
    BY <1>1, <1>9
  <2>2. /\ u \in Table /\ SoundTable(u)
        /\ \A imm \in Slot, z \in Handlers : Has(u, imm, z) <=> Has(t, imm, z) /\ imm # n
    BY <1>1, <1>9, <1>d, <2>1, FreeAfterKeeps
  <2>3. ASSUME NEW imm \in Slot, NEW z \in Handlers PROVE Has(u, imm, z) <=> Has(r.trap, imm, z)
    <3>1. Has(r.trap, imm, z) => imm # n
      BY <1>1, <1>9
    <3>. QED BY <1>1, <2>2, <3>1
  <2>. QED BY <2>2, <2>3
<1>2. /\ r \in Registry /\ Exact(r) /\ r.stuck \subseteq ToSet(r.breaks)
      /\ ToSet(r.breaks) \ r.stuck = {}
      /\ \A m \in Gots : Distinct(r.chain[m]) /\ (m \notin r.lost => r.got[m] = Newest(r, m))
  BY DEF Sound
<1>10. AddEntry(r, h, post) = [r EXCEPT !.trap = t, !.after[h][ENTRY] = n, !.breaks = Append(@, h), !.watched = TRUE]
  BY <1>a, <1>b DEF AddEntry
<1>e. PICK p : p = AddEntry(r, h, post)
  OBVIOUS
<1>11. /\ p.trap = t /\ Apart(p, r) /\ p.stuck = r.stuck
       /\ p.after = [r.after EXCEPT ![h][ENTRY] = n] /\ p.breaks = Append(r.breaks, h)
       /\ p = [trap |-> p.trap, chain |-> p.chain, tramp |-> p.tramp, after |-> p.after, got |-> p.got,
               filed |-> p.filed, lost |-> p.lost, breaks |-> p.breaks, stuck |-> p.stuck, watched |-> p.watched]
  BY <1>2, <1>10, <1>e DEF Registry, Apart
<1>4. q = [p EXCEPT !.trap = u, !.stuck = r.stuck \cup {h}, !.watched = watched]
  BY <1>11, <1>b, <1>d, <1>e DEF RefuseEntry
<1>5. /\ q.trap = u /\ q.chain = r.chain /\ q.tramp = r.tramp /\ q.got = r.got /\ q.lost = r.lost
      /\ q.filed = r.filed /\ q.stuck = r.stuck \cup {h} /\ q.watched = watched
      /\ q.after = [r.after EXCEPT ![h][ENTRY] = n] /\ q.breaks = Append(r.breaks, h)
      /\ q = [trap |-> q.trap, chain |-> q.chain, tramp |-> q.tramp, after |-> q.after, got |-> q.got,
              filed |-> q.filed, lost |-> q.lost, breaks |-> q.breaks, stuck |-> q.stuck, watched |-> q.watched]
  BY <1>4, <1>11 DEF Apart
<1>6. /\ q.breaks \in Seq(Hooks) /\ Distinct(q.breaks) /\ ToSet(q.breaks) = ToSet(r.breaks) \cup {h}
      /\ q.after \in [Hooks -> [Gots \cup {ENTRY} -> Slot \cup {NONE}]]
      /\ \A k \in Hooks \ {h} : q.after[k] = r.after[k]
      /\ \A k \in Hooks, m \in Gots \cup {ENTRY} :
            q.after[k][m] = IF k = h /\ m = ENTRY THEN n ELSE r.after[k][m]
  <2>1. AfterSet(q, r, h, n)
    BY <1>5 DEF AfterSet
  <2>2. /\ Sound(r) /\ h \in Hooks /\ n \in Slot \cup {NONE} /\ h \notin ToSet(r.breaks)
        /\ q.breaks = Append(r.breaks, h)
    BY <1>1, <1>5
  <2>3. Added(q, r, h, n)
    BY ONLY <2>1, <2>2, AddedFacts
  <2>. QED BY <2>3 DEF Added
<1>8. q \in Registry
  BY <1>2, <1>3, <1>5, <1>6 DEF Registry
<1>12. ASSUME NEW z \in Handlers, NEW imm \in Slot
       PROVE  Claimed(q, imm, z) <=> Claimed(r, imm, z)
  <2>1. CASE z.got = ENTRY
    <3>1. ~Live(q, z) /\ ~Live(r, z)
      BY <1>2, <1>5, <1>6, <2>1 DEF Live
    <3>. QED BY <3>1 DEF Claimed
  <2>2. CASE z.got # ENTRY
    <3>1. Live(q, z) <=> Live(r, z)
      BY <1>5, <1>9, <2>2 DEF Live, Chained
    <3>2. SlotOf(q, z) = SlotOf(r, z)
      BY <1>5, <1>6, <1>9, <2>2 DEF SlotOf
    <3>. QED BY <3>1, <3>2 DEF Claimed
  <2>. QED BY <2>1, <2>2
<1>13. Exact(q)
  <2>1. \A z \in Handlers, imm \in Slot : Claimed(q, imm, z) => Has(q.trap, imm, z)
    BY <1>2, <1>3, <1>5, <1>12 DEF Exact
  <2>2. \A z \in Handlers, imm \in Slot : Has(q.trap, imm, z) /\ z.got \notin q.lost => Claimed(q, imm, z)
    BY <1>2, <1>3, <1>5, <1>12 DEF Exact
  <2>. QED BY <1>2, <1>5, <2>1, <2>2 DEF Exact, Chained
<1>14. \A m \in Gots : Newest(q, m) = Newest(r, m)
  BY <1>5 DEF Newest
<1>15. ToSet(q.breaks) \ q.stuck = {}
  BY <1>2, <1>5, <1>6
<1>16. Sound(q)
  BY <1>2, <1>3, <1>5, <1>6, <1>8, <1>13, <1>14, <1>15 DEF Sound
<1>. QED BY <1>3, <1>5, <1>6, <1>16 DEF Apart

LEMMA RemoveEntryKeeps ==
    ASSUME NEW r, Sound(r), NEW h \in Hooks, h \in ToSet(r.breaks) \ r.stuck, NEW q, q = RemoveEntry(r, h)
    PROVE  /\ Sound(q) /\ Apart(q, r) /\ q.stuck = r.stuck
           /\ ToSet(q.breaks) = ToSet(r.breaks) \ {h} /\ q.after = r.after
<1>a. PICK n : n = r.after[h][ENTRY]
  OBVIOUS
<1>b. PICK t : t = FreeAfter(r.trap, n)
  OBVIOUS
<1>c. PICK y : y = After(h, ENTRY)
  OBVIOUS
<1>d. PICK w : w = (r.watched /\ RemoveFirst(r.breaks, h) # <<>>)
  OBVIOUS
<1>1. /\ r \in Registry /\ Exact(r) /\ Distinct(r.breaks) /\ SoundTable(r.trap)
      /\ r.stuck \subseteq ToSet(r.breaks) /\ (ToSet(r.breaks) \ r.stuck # {} => r.watched)
      /\ \A m \in Gots : Distinct(r.chain[m]) /\ (m \notin r.lost => r.got[m] = Newest(r, m))
  BY DEF Sound
<1>2. /\ r.after \in [Hooks -> [Gots \cup {ENTRY} -> Slot \cup {NONE}]] /\ r.breaks \in Seq(Hooks)
      /\ r.trap \in Table /\ r.watched \in BOOLEAN
  BY <1>1 DEF Registry
<1>3. q = [r EXCEPT !.breaks = RemoveFirst(r.breaks, h), !.trap = t, !.watched = w]
  BY <1>1, <1>a, <1>b, <1>d DEF RemoveEntry, Registry
<1>4. /\ q.trap = t /\ q.chain = r.chain /\ q.tramp = r.tramp /\ q.got = r.got /\ q.lost = r.lost
      /\ q.filed = r.filed /\ q.stuck = r.stuck /\ q.watched = w
      /\ q.after = r.after /\ q.breaks = RemoveFirst(r.breaks, h)
      /\ q = [trap |-> q.trap, chain |-> q.chain, tramp |-> q.tramp, after |-> q.after, got |-> q.got,
              filed |-> q.filed, lost |-> q.lost, breaks |-> q.breaks, stuck |-> q.stuck, watched |-> q.watched]
  BY <1>1, <1>3 DEF Registry
<1>5. /\ q.breaks \in Seq(Hooks) /\ Distinct(q.breaks) /\ ToSet(q.breaks) = ToSet(r.breaks) \ {h}
  BY <1>1, <1>2, <1>4, RemovedFirst
<1>6. /\ ENTRY \notin Gots /\ NONE \notin Slot /\ y \in Handlers
      /\ \A z \in Handlers : /\ z.kind \in {"on", "after"} /\ z.hook \in Hooks /\ z.got \in Gots \cup {ENTRY}
                             /\ z = y <=> z.kind = "after" /\ z.hook = h /\ z.got = ENTRY
  BY <1>c, HandlerFacts
<1>7. n \in Slot \cup {NONE} /\ (n # NONE => Has(r.trap, n, y))
  <2>1. ENTRY \in Gots \cup {ENTRY}
    OBVIOUS
  <2>2. n \in Slot \cup {NONE}
    BY <1>2, <1>a, <2>1
  <2>3. n # NONE => Claimed(r, n, y)
    BY <1>6, <1>a DEF Claimed, Live, SlotOf
  <2>. QED BY <1>1, <1>6, <2>2, <2>3 DEF Exact
<1>8. /\ t \in Table /\ SoundTable(t)
      /\ \A imm \in Slot, z \in Handlers : Has(t, imm, z) <=> Has(r.trap, imm, z) /\ imm # n
  BY <1>1, <1>2, <1>6, <1>7, <1>b, FreeAfterKeeps
<1>14. w \in BOOLEAN /\ (w <=> r.watched /\ q.breaks # <<>>)
  BY <1>2, <1>4, <1>d
<1>9. q \in Registry
  BY <1>1, <1>4, <1>5, <1>8, <1>14 DEF Registry
<1>10. ASSUME NEW z \in Handlers, NEW imm \in Slot
       PROVE  /\ Claimed(q, imm, z) => Has(q.trap, imm, z)
              /\ Has(q.trap, imm, z) /\ z.got \notin q.lost => Claimed(q, imm, z)
  <2>0. /\ Claimed(r, imm, z) => Has(r.trap, imm, z)
        /\ Has(r.trap, imm, z) /\ z.got \notin r.lost => Claimed(r, imm, z)
    BY <1>1 DEF Exact
  <2>1. CASE z = y
    <3>1. ~Live(q, z) /\ Live(r, z) /\ SlotOf(r, z) = n
      BY <1>4, <1>5, <1>6, <1>a, <2>1 DEF Live, SlotOf
    <3>2. z.got \notin r.lost
      BY <1>1, <1>6, <2>1 DEF Registry
    <3>. QED BY <1>4, <1>8, <2>0, <3>1, <3>2 DEF Claimed
  <2>2. CASE z # y
    <3>1. Live(q, z) <=> Live(r, z)
      BY <1>4, <1>5, <1>6, <2>2 DEF Live, Chained
    <3>2. SlotOf(q, z) = SlotOf(r, z)
      BY <1>4 DEF SlotOf
    <3>3. Has(r.trap, imm, z) => imm # n
      <4>1. n \in Slot => Has(r.trap, n, y)
        BY <1>6, <1>7
      <4>. QED BY <2>2, <4>1 DEF Has
    <3>. QED BY <1>4, <1>8, <2>0, <3>1, <3>2, <3>3 DEF Claimed
  <2>. QED BY <2>1, <2>2
<1>11. Exact(q)
  BY <1>1, <1>4, <1>10 DEF Exact, Chained
<1>12. \A m \in Gots : Newest(q, m) = Newest(r, m)
  BY <1>4 DEF Newest
<1>13. q.stuck \subseteq ToSet(q.breaks) /\ (ToSet(q.breaks) \ q.stuck # {} => q.watched)
  <2>1. q.stuck \subseteq ToSet(q.breaks)
    BY <1>1, <1>4, <1>5
  <2>2. ASSUME NEW k \in ToSet(q.breaks), k \notin q.stuck PROVE q.watched
    <3>1. r.watched
      BY <1>1, <1>4, <1>5, <2>2
    <3>2. q.breaks # <<>>
      BY <1>5 DEF ToSet
    <3>. QED BY <1>4, <1>14, <3>1, <3>2
  <2>. QED BY <2>1, <2>2
<1>15. Sound(q)
  BY <1>1, <1>4, <1>5, <1>8, <1>9, <1>11, <1>12, <1>13 DEF Sound
<1>. QED BY <1>4, <1>5, <1>15 DEF Apart

LEMMA UnmapKeeps ==
    ASSUME NEW r, Sound(r), NEW g \in Gots, NEW q, q = [r EXCEPT !.lost = @ \cup {g}]
    PROVE  /\ Sound(q) /\ q.chain = r.chain /\ q.breaks = r.breaks /\ q.stuck = r.stuck
           /\ q.lost = r.lost \cup {g}
           /\ q.trap = r.trap /\ q.got = r.got /\ q.after = r.after
<1>1. /\ r \in Registry /\ Exact(r) /\ Distinct(r.breaks) /\ SoundTable(r.trap)
      /\ r.stuck \subseteq ToSet(r.breaks) /\ (ToSet(r.breaks) \ r.stuck # {} => r.watched)
      /\ \A m \in Gots : Distinct(r.chain[m]) /\ (m \notin r.lost => r.got[m] = Newest(r, m))
  BY DEF Sound
<1>2. /\ q.trap = r.trap /\ q.chain = r.chain /\ q.tramp = r.tramp /\ q.got = r.got
      /\ q.lost = r.lost \cup {g} /\ q.stuck = r.stuck /\ q.watched = r.watched
      /\ q.after = r.after /\ q.breaks = r.breaks
      /\ q \in Registry
  BY <1>1 DEF Registry
<1>3. \A imm, z : Claimed(q, imm, z) <=> Claimed(r, imm, z)
  BY <1>2 DEF Claimed, Live, SlotOf, Chained
<1>4. Exact(q)
  <2>1. \A z \in Handlers, imm \in Slot : Claimed(q, imm, z) => Has(q.trap, imm, z)
    BY <1>1, <1>2, <1>3 DEF Exact
  <2>2. \A z \in Handlers, imm \in Slot : Has(q.trap, imm, z) /\ z.got \notin q.lost => Claimed(q, imm, z)
    BY <1>1, <1>2, <1>3 DEF Exact
  <2>. QED BY <1>1, <1>2, <2>1, <2>2 DEF Exact, Chained
<1>5. \A m \in Gots : Newest(q, m) = Newest(r, m)
  BY <1>2 DEF Newest
<1>6. Sound(q)
  BY <1>1, <1>2, <1>4, <1>5 DEF Sound
<1>. QED BY <1>2, <1>6

(***************************************************************************)
(* Half an installation, or half a removal: the chains of the first n GOT  *)
(* entries are as when it is done, the others as when it is not.  At the   *)
(* GOT entries of S the two differ by the hook.                            *)
(***************************************************************************)
Steps(base, low, high, h, S) ==
    \A g \in Gots :
        /\ g \notin S => low[g] = high[g]
        /\ g \in S => low[g] = RemoveFirst(high[g], h)
        /\ g \in S /\ g \notin base.lost => h \in ToSet(high[g])

Level(base, low, high, r, h, n) ==
    /\ Sound(r) /\ Beside(r, base, h)
    /\ \A i \in 1 .. Len(GotSeq) : r.chain[GotSeq[i]] = IF i <= n THEN high[GotSeq[i]] ELSE low[GotSeq[i]]

Undoing(f, m, n, r, h, S) ==
    f = [k \in 0 .. m |-> IF k = 0 THEN r
                          ELSE IF GotSeq[n - k + 1] \in S THEN RemoveGot(f[k - 1], h, GotSeq[n - k + 1])
                          ELSE f[k - 1]]

Installing(f, n, r, h, S, post) ==
    f = [k \in 0 .. n |-> IF k = 0 THEN [ok |-> TRUE, reg |-> r] ELSE InstallNext(f[k - 1], h, k, S, post)]

LEMMA LeastNumber ==
    ASSUME NEW S \in SUBSET Nat, S # {}
    PROVE  \E x \in S : \A y \in S : x <= y
<1>1. PICK x \in S : \A y \in S : ~(<<y, x>> \in OpToRel(<, Nat))
  BY NatLessThanWellFounded, WFMin
<1>2. \A y \in S : ~(y < x)
  BY <1>1 DEF OpToRel
<1>. QED BY <1>2

LEMMA GotsListed ==
    /\ Len(GotSeq) \in Nat
    /\ \A i \in 1 .. Len(GotSeq) : GotSeq[i] \in Gots
    /\ \A i, j \in 1 .. Len(GotSeq) : GotSeq[i] = GotSeq[j] => i = j
    /\ \A g \in Gots : \E i \in 1 .. Len(GotSeq) : GotSeq[i] = g
<1>1. GotSeq \in Seq(Gots) /\ \A i, j \in DOMAIN GotSeq : GotSeq[i] = GotSeq[j] => i = j
  BY GotHooksAssumption
<1>2. DOMAIN GotSeq = 1 .. Len(GotSeq) /\ Len(GotSeq) \in Nat
  BY <1>1
<1>. QED BY <1>1, <1>2 DEF Gots, ToSet

LEMMA LevelSame ==
    ASSUME NEW base, NEW low, NEW high, NEW r, NEW h, NEW S, NEW n \in 1 .. Len(GotSeq),
           Steps(base, low, high, h, S), GotSeq[n] \notin S
    PROVE  Level(base, low, high, r, h, n) <=> Level(base, low, high, r, h, n - 1)
<1>1. GotSeq[n] \in Gots /\ Len(GotSeq) \in Nat
  BY GotsListed
<1>2. low[GotSeq[n]] = high[GotSeq[n]]
  BY <1>1 DEF Steps
<1>3. ASSUME NEW i \in 1 .. Len(GotSeq)
      PROVE  (IF i <= n THEN high[GotSeq[i]] ELSE low[GotSeq[i]]) =
             (IF i <= n - 1 THEN high[GotSeq[i]] ELSE low[GotSeq[i]])
  <2>1. CASE i = n
    BY <1>2, <2>1
  <2>2. CASE i # n
    <3>1. i <= n - 1 <=> i <= n
      BY <1>1, <2>2
    <3>. QED BY <3>1
  <2>. QED BY <2>1, <2>2
<1>. QED BY <1>3 DEF Level

LEMMA RemoveLowers ==
    ASSUME NEW base, NEW low, NEW high, NEW r, NEW h \in Hooks, NEW S, NEW n \in 1 .. Len(GotSeq),
           Steps(base, low, high, h, S), GotSeq[n] \in S, Level(base, low, high, r, h, n)
    PROVE  /\ Level(base, low, high, RemoveGot(r, h, GotSeq[n]), h, n - 1)
           /\ RemoveGot(r, h, GotSeq[n]).after = r.after
<1>a. PICK g : g = GotSeq[n]
  OBVIOUS
<1>b. PICK q : q = RemoveGot(r, h, g)
  OBVIOUS
<1>1. g \in Gots /\ Len(GotSeq) \in Nat
  BY <1>a, GotsListed
<1>2. r.chain[g] = high[g] /\ Sound(r) /\ Beside(r, base, h)
  BY <1>1, <1>a DEF Level
<1>3. r.lost = base.lost
  BY <1>2 DEF Beside
<1>4. /\ Sound(q) /\ Beside(q, r, h) /\ q.after = r.after
      /\ \A m \in Gots : q.chain[m] = IF m = g THEN RemoveFirst(r.chain[g], h) ELSE r.chain[m]
  <2>1. CASE g \in r.lost
    BY <1>1, <1>2, <1>b, <2>1, RemoveLostKeeps
  <2>2. CASE g \notin r.lost
    <3>1. h \in Chained(r, g)
      BY <1>1, <1>2, <1>3, <1>a, <2>2 DEF Steps, Chained
    <3>. QED BY <1>1, <1>2, <1>b, <2>2, <3>1, RemoveKeeps
  <2>. QED BY <2>1, <2>2
<1>5. Beside(q, base, h)
  BY <1>2, <1>4, BesideChains
<1>6. ASSUME NEW i \in 1 .. Len(GotSeq)
      PROVE  q.chain[GotSeq[i]] = IF i <= n - 1 THEN high[GotSeq[i]] ELSE low[GotSeq[i]]
  <2>0. GotSeq[i] \in Gots
    BY GotsListed
  <2>1. CASE i = n
    <3>1. ~(i <= n - 1) /\ GotSeq[i] = g
      BY <1>1, <1>a, <2>1
    <3>2. low[g] = RemoveFirst(high[g], h)
      BY <1>1, <1>a DEF Steps
    <3>. QED BY <1>2, <1>4, <2>0, <3>1, <3>2
  <2>2. CASE i # n
    <3>1. (i <= n - 1 <=> i <= n) /\ GotSeq[i] # g
      BY <1>1, <1>a, <2>2, GotsListed
    <3>. QED BY <1>4, <2>0, <3>1 DEF Level
  <2>. QED BY <2>1, <2>2
<1>7. Level(base, low, high, q, h, n - 1)
  BY <1>4, <1>5, <1>6 DEF Level
<1>. QED BY <1>4, <1>7, <1>a, <1>b

LEMMA UndoingExists ==
    ASSUME NEW n \in Nat, NEW r, NEW h, NEW S
    PROVE  \A m \in 0 .. n : \E f : Undoing(f, m, n, r, h, S)
<1> DEFINE Next1(x, k) == IF GotSeq[n - k + 1] \in S THEN RemoveGot(x, h, GotSeq[n - k + 1]) ELSE x
<1> DEFINE Is(g, m) == g = [k \in 0 .. m |-> IF k = 0 THEN r ELSE Next1(g[k - 1], k)]
<1> DEFINE Bad == {m \in 0 .. n : ~\E g : Is(g, m)}
<1>0. \A g, m : Undoing(g, m, n, r, h, S) <=> Is(g, m)
  BY DEF Undoing
<1> HIDE DEF Next1
<1>1. SUFFICES ASSUME Bad # {} PROVE FALSE
  BY <1>0
<1>2. PICK m \in Bad : \A j \in Bad : m <= j
  <2>1. Bad \in SUBSET Nat
    OBVIOUS
  <2>. QED BY <1>1, <2>1, LeastNumber
<1>3. m \in Nat /\ m \in 0 .. n /\ ~\E g : Is(g, m)
  BY <1>2
<1>4. CASE m = 0
  <2>1. Is([k \in 0 .. 0 |-> r], 0)
    OBVIOUS
  <2>. QED BY <1>3, <1>4, <2>1
<1>5. CASE m # 0
  <2>1. m - 1 \in 0 .. n /\ ~(m <= m - 1)
    BY <1>3, <1>5
  <2>2. PICK g : Is(g, m - 1)
    BY <1>2, <2>1
  <2>a. PICK last : last = Next1(g[m - 1], m)
    OBVIOUS
  <2>b. PICK f : f = [k \in 0 .. m |-> IF k = m THEN last ELSE g[k]]
    OBVIOUS
  <2>3. \A k \in 0 .. m : k # m => k \in 0 .. m - 1
    BY <1>3
  <2>4. \A k \in 0 .. m : f[k] = IF k = 0 THEN r ELSE Next1(f[k - 1], k)
    <3>1. ASSUME NEW k \in 0 .. m, k = m
          PROVE  f[k] = IF k = 0 THEN r ELSE Next1(f[k - 1], k)
      <4>1. f[k - 1] = g[m - 1] /\ f[k] = last /\ k # 0
        BY <1>3, <1>5, <2>b, <3>1
      <4>. QED BY <2>a, <3>1, <4>1
    <3>2. ASSUME NEW k \in 0 .. m, k # m
          PROVE  f[k] = IF k = 0 THEN r ELSE Next1(f[k - 1], k)
      <4>1. k \in 0 .. m - 1 /\ f[k] = g[k]
        BY <1>3, <2>b, <2>3, <3>2
      <4>2. g[k] = IF k = 0 THEN r ELSE Next1(g[k - 1], k)
        BY <2>2, <4>1
      <4>3. k # 0 => f[k - 1] = g[k - 1]
        BY <1>3, <2>b, <3>2
      <4>. QED BY <4>1, <4>2, <4>3
    <3>. QED BY <3>1, <3>2
  <2>5. f = [k \in 0 .. m |-> f[k]]
    BY <2>b
  <2>6. Is(f, m)
    BY <2>4, <2>5
  <2>. QED BY <1>3, <2>6
<1>. QED BY <1>4, <1>5

LEMMA UndoSound ==
    ASSUME NEW base, NEW low, NEW high, NEW r, NEW h \in Hooks, NEW S, NEW n \in 0 .. Len(GotSeq),
           Steps(base, low, high, h, S), Level(base, low, high, r, h, n)
    PROVE  Level(base, low, high, Undo(r, h, n, S), h, 0) /\ Undo(r, h, n, S).after = r.after
<1>1. n \in Nat
  BY GotsListed
<1>2. ASSUME NEW f, Undoing(f, n, n, r, h, S) PROVE Level(base, low, high, f[n], h, 0) /\ f[n].after = r.after
  <2>0. f = [k \in 0 .. n |-> IF k = 0 THEN r
                              ELSE IF GotSeq[n - k + 1] \in S THEN RemoveGot(f[k - 1], h, GotSeq[n - k + 1])
                              ELSE f[k - 1]]
    BY <1>2 DEF Undoing
  <2> DEFINE Bad == {k \in 0 .. n : ~(Level(base, low, high, f[k], h, n - k) /\ f[k].after = r.after)}
  <2>1. SUFFICES ASSUME Bad # {} PROVE FALSE
    <3>1. n \in 0 .. n /\ n - n = 0
      BY <1>1
    <3>2. n \notin Bad
      BY <2>1
    <3>. QED BY <3>1, <3>2
  <2>2. PICK k \in Bad : \A j \in Bad : k <= j
    <3>1. Bad \in SUBSET Nat
      BY <1>1
    <3>. QED BY <2>1, <3>1, LeastNumber
  <2>3. k \in 0 .. n /\ ~(Level(base, low, high, f[k], h, n - k) /\ f[k].after = r.after)
    BY <2>2
  <2>4. CASE k = 0
    <3>1. f[k] = r /\ n - k = n
      BY <1>1, <2>0, <2>3, <2>4
    <3>. QED BY <2>3, <3>1
  <2>5. CASE k # 0
    <3>1. k - 1 \in 0 .. n /\ ~(k <= k - 1) /\ n - (k - 1) = n - k + 1 /\ n - k + 1 - 1 = n - k
          /\ n - k + 1 \in 1 .. Len(GotSeq)
      BY <1>1, <2>3, <2>5, GotsListed
    <3>2. Level(base, low, high, f[k - 1], h, n - k + 1) /\ f[k - 1].after = r.after
      BY <2>2, <3>1
    <3>3. CASE GotSeq[n - k + 1] \in S
      <4>1. f[k] = RemoveGot(f[k - 1], h, GotSeq[n - k + 1])
        BY <2>0, <2>3, <2>5, <3>3
      <4>2. /\ Level(base, low, high, RemoveGot(f[k - 1], h, GotSeq[n - k + 1]), h, n - k + 1 - 1)
            /\ RemoveGot(f[k - 1], h, GotSeq[n - k + 1]).after = f[k - 1].after
        BY <3>1, <3>2, <3>3, RemoveLowers
      <4>. QED BY <2>3, <3>1, <3>2, <4>1, <4>2
    <3>4. CASE GotSeq[n - k + 1] \notin S
      <4>1. f[k] = f[k - 1]
        BY <2>0, <2>3, <2>5, <3>4
      <4>2. Level(base, low, high, f[k - 1], h, n - k + 1 - 1)
        BY <3>1, <3>2, <3>4, LevelSame
      <4>. QED BY <2>3, <3>1, <3>2, <4>1, <4>2
    <3>. QED BY <3>3, <3>4
  <2>. QED BY <2>4, <2>5
<1> DEFINE undone[k \in 0 .. n] ==
               IF k = 0 THEN r
               ELSE IF GotSeq[n - k + 1] \in S THEN RemoveGot(undone[k - 1], h, GotSeq[n - k + 1])
               ELSE undone[k - 1]
<1>3. Undoing(undone, n, n, r, h, S)
  <2>1. \E f : Undoing(f, n, n, r, h, S)
    <3>1. n \in 0 .. n
      BY <1>1
    <3>. QED BY <1>1, <3>1, UndoingExists
  <2>. QED BY <2>1 DEF Undoing
<1>4. Undo(r, h, n, S) = undone[n]
  BY DEF Undo
<1>. QED BY <1>2, <1>3, <1>4

(* The chains of an installation: without the hook, and with it.             *)
Rises(base, low, high, h, S) ==
    \A g \in Gots :
        /\ low[g] = base.chain[g] /\ h \notin ToSet(low[g])
        /\ g \notin S => high[g] = low[g]
        /\ g \in S => /\ high[g] = Append(low[g], h) /\ low[g] = RemoveFirst(high[g], h)
                      /\ h \in ToSet(high[g])

LEMMA RisesSteps ==
    ASSUME NEW base, NEW low, NEW high, NEW h, NEW S, Rises(base, low, high, h, S)
    PROVE  Steps(base, low, high, h, S)
BY DEF Rises, Steps

LEMMA InstallRaises ==
    ASSUME NEW base, NEW low, NEW high, NEW r, NEW h \in Hooks, NEW S, NEW post \in BOOLEAN,
           NEW n \in 1 .. Len(GotSeq), Rises(base, low, high, h, S), GotSeq[n] \in S,
           Level(base, low, high, r, h, n - 1), CanInstall(r, h, GotSeq[n], post)
    PROVE  Level(base, low, high, InstallGot(r, h, GotSeq[n], post), h, n)
<1>a. PICK g : g = GotSeq[n]
  OBVIOUS
<1>b. PICK q : q = InstallGot(r, h, g, post)
  OBVIOUS
<1>1. g \in Gots /\ Len(GotSeq) \in Nat
  BY <1>a, GotsListed
<1>2. r.chain[g] = low[g]
  <2>1. ~(n <= n - 1)
    BY <1>1
  <2>. QED BY <1>1, <1>a, <2>1 DEF Level
<1>3. h \notin Chained(r, g) /\ Sound(r) /\ Beside(r, base, h) /\ CanInstall(r, h, g, post)
  BY <1>1, <1>2, <1>a DEF Level, Chained, Rises
<1>4. /\ Sound(q) /\ Beside(q, r, h)
      /\ \A m \in Gots : q.chain[m] = IF m = g THEN Append(r.chain[g], h) ELSE r.chain[m]
  BY <1>1, <1>3, <1>b, InstallKeeps
<1>5. Beside(q, base, h)
  BY <1>3, <1>4, BesideChains
<1>6. ASSUME NEW i \in 1 .. Len(GotSeq)
      PROVE  q.chain[GotSeq[i]] = IF i <= n THEN high[GotSeq[i]] ELSE low[GotSeq[i]]
  <2>0. GotSeq[i] \in Gots
    BY GotsListed
  <2>1. CASE i = n
    <3>1. i <= n /\ GotSeq[i] = g
      BY <1>1, <1>a, <2>1
    <3>2. q.chain[g] = Append(low[g], h) /\ high[g] = Append(low[g], h)
      BY <1>1, <1>2, <1>4, <1>a DEF Rises
    <3>. QED BY <3>1, <3>2
  <2>2. CASE i # n
    <3>1. (i <= n - 1 <=> i <= n) /\ GotSeq[i] # g
      BY <1>1, <1>a, <2>2, GotsListed
    <3>. QED BY <1>4, <2>0, <3>1 DEF Level
  <2>. QED BY <2>1, <2>2
<1>7. Level(base, low, high, q, h, n)
  BY <1>4, <1>5, <1>6 DEF Level
<1>. QED BY <1>7, <1>a, <1>b

(* An installation under way, or given up.                                   *)
Midway(base, low, high, acc, h, k) ==
    /\ acc.ok \in BOOLEAN
    /\ acc.ok => Level(base, low, high, acc.reg, h, k)
    /\ ~acc.ok => Level(base, low, high, acc.reg, h, 0)

LEMMA InstallNextSound ==
    ASSUME NEW base, NEW low, NEW high, NEW acc, NEW h \in Hooks, NEW S, NEW post \in BOOLEAN,
           NEW k \in 1 .. Len(GotSeq), Midway(base, low, high, acc, h, k - 1),
           Rises(base, low, high, h, S)
    PROVE  Midway(base, low, high, InstallNext(acc, h, k, S, post), h, k)
<1>a. PICK r : r = acc.reg
  OBVIOUS
<1>b. PICK g : g = GotSeq[k]
  OBVIOUS
<1>1. g \in Gots /\ Len(GotSeq) \in Nat /\ Steps(base, low, high, h, S)
  BY <1>b, GotsListed, RisesSteps
<1>2. CASE ~acc.ok
  <2>1. InstallNext(acc, h, k, S, post) = acc
    BY <1>2 DEF InstallNext
  <2>. QED BY <1>2, <2>1 DEF Midway
<1>3. CASE acc.ok /\ g \notin S
  <2>1. InstallNext(acc, h, k, S, post) = acc
    BY <1>3, <1>b DEF InstallNext
  <2>2. Level(base, low, high, r, h, k - 1)
    BY <1>3, <1>a DEF Midway
  <2>3. Level(base, low, high, r, h, k)
    BY <1>1, <1>3, <1>b, <2>2, LevelSame
  <2>. QED BY <1>3, <1>a, <2>1, <2>3 DEF Midway
<1>4. CASE acc.ok /\ g \in S /\ CanInstall(r, h, g, post)
  <2>1. InstallNext(acc, h, k, S, post) = [ok |-> TRUE, reg |-> InstallGot(r, h, g, post)]
    BY <1>4, <1>a, <1>b DEF InstallNext
  <2>2. Level(base, low, high, r, h, k - 1)
    BY <1>4, <1>a DEF Midway
  <2>3. Level(base, low, high, InstallGot(r, h, g, post), h, k)
    BY <1>4, <1>b, <2>2, InstallRaises
  <2>. QED BY <2>1, <2>3 DEF Midway
<1>5. CASE acc.ok /\ g \in S /\ ~CanInstall(r, h, g, post)
  <2>a. PICK q : q = FailInstall(r, h, g, post)
    OBVIOUS
  <2>1. InstallNext(acc, h, k, S, post) = [ok |-> FALSE, reg |-> Undo(q, h, k - 1, S)]
    BY <1>5, <1>a, <1>b, <2>a DEF InstallNext
  <2>2. Level(base, low, high, r, h, k - 1)
    BY <1>5, <1>a DEF Midway
  <2>3. Sound(r) /\ Beside(r, base, h)
    BY <2>2 DEF Level
  <2>4. Sound(q) /\ Beside(q, r, h) /\ q.chain = r.chain
    BY <1>1, <1>5, <2>3, <2>a, FailKeeps
  <2>5. Beside(q, base, h)
    BY <2>3, <2>4, BesideChains
  <2>6. Level(base, low, high, q, h, k - 1)
    BY <2>2, <2>4, <2>5 DEF Level
  <2>7. k - 1 \in 0 .. Len(GotSeq)
    BY <1>1
  <2>8. Level(base, low, high, Undo(q, h, k - 1, S), h, 0)
    BY <1>1, <2>6, <2>7, UndoSound
  <2>. QED BY <2>1, <2>8 DEF Midway
<1>. QED BY <1>2, <1>3, <1>4, <1>5, <1>a, <1>b DEF Midway

LEMMA InstallingExists ==
    ASSUME NEW n \in Nat, NEW r, NEW h, NEW S, NEW post
    PROVE  \E f : Installing(f, n, r, h, S, post)
<1> DEFINE Is(g, m) == g = [k \in 0 .. m |-> IF k = 0 THEN [ok |-> TRUE, reg |-> r] ELSE InstallNext(g[k - 1], h, k, S, post)]
<1> DEFINE Bad == {m \in Nat : ~\E g : Is(g, m)}
<1>0. \A g, m : Installing(g, m, r, h, S, post) <=> Is(g, m)
  BY DEF Installing
<1>1. SUFFICES ASSUME Bad # {} PROVE FALSE
  BY <1>0
<1>2. PICK m \in Bad : \A j \in Bad : m <= j
  BY <1>1, LeastNumber
<1>3. m \in Nat /\ ~\E g : Is(g, m)
  BY <1>2
<1>4. CASE m = 0
  <2>1. Is([k \in 0 .. 0 |-> [ok |-> TRUE, reg |-> r]], 0)
    OBVIOUS
  <2>. QED BY <1>3, <1>4, <2>1
<1>5. CASE m # 0
  <2>1. m - 1 \in Nat /\ ~(m <= m - 1)
    BY <1>3, <1>5
  <2>2. PICK g : Is(g, m - 1)
    BY <1>2, <2>1
  <2>a. PICK last : last = InstallNext(g[m - 1], h, m, S, post)
    OBVIOUS
  <2>b. PICK f : f = [k \in 0 .. m |-> IF k = m THEN last ELSE g[k]]
    OBVIOUS
  <2>c. PICK first : first = [ok |-> TRUE, reg |-> r]
    OBVIOUS
  <2>3. \A k \in 0 .. m : k # m => k \in 0 .. m - 1
    BY <1>3
  <2>4. \A k \in 0 .. m : f[k] = IF k = 0 THEN first ELSE InstallNext(f[k - 1], h, k, S, post)
    <3>1. ASSUME NEW k \in 0 .. m, k = m
          PROVE  f[k] = IF k = 0 THEN first ELSE InstallNext(f[k - 1], h, k, S, post)
      <4>1. f[k - 1] = g[m - 1] /\ f[k] = last /\ k # 0
        BY <1>3, <1>5, <2>b, <3>1
      <4>. QED BY <2>a, <3>1, <4>1
    <3>2. ASSUME NEW k \in 0 .. m, k # m
          PROVE  f[k] = IF k = 0 THEN first ELSE InstallNext(f[k - 1], h, k, S, post)
      <4>1. k \in 0 .. m - 1 /\ f[k] = g[k]
        BY <1>3, <2>b, <2>3, <3>2
      <4>2. g[k] = IF k = 0 THEN first ELSE InstallNext(g[k - 1], h, k, S, post)
        BY <2>2, <2>c, <4>1
      <4>3. k # 0 => f[k - 1] = g[k - 1]
        BY <1>3, <2>b, <3>2
      <4>. QED BY <4>1, <4>2, <4>3
    <3>. QED BY <3>1, <3>2
  <2>5. f = [k \in 0 .. m |-> f[k]]
    BY <2>b
  <2>6. Is(f, m)
    BY <2>4, <2>5, <2>c
  <2>. QED BY <1>3, <2>6
<1>. QED BY <1>4, <1>5

LEMMA InstallAllSound ==
    ASSUME NEW r, Sound(r), NEW low, NEW high, NEW h \in Hooks, NEW S, NEW post \in BOOLEAN,
           Rises(r, low, high, h, S)
    PROVE  Midway(r, low, high, InstallAll(r, h, S, post), h, Len(GotSeq))
<1>a. PICK n : n = Len(GotSeq)
  OBVIOUS
<1>1. n \in Nat
  BY <1>a, GotsListed
<1>2. ASSUME NEW f, Installing(f, n, r, h, S, post) PROVE Midway(r, low, high, f[n], h, n)
  <2>0. f = [k \in 0 .. n |-> IF k = 0 THEN [ok |-> TRUE, reg |-> r] ELSE InstallNext(f[k - 1], h, k, S, post)]
    BY <1>2 DEF Installing
  <2> DEFINE Bad == {k \in 0 .. n : ~Midway(r, low, high, f[k], h, k)}
  <2>1. SUFFICES ASSUME Bad # {} PROVE FALSE
    <3>1. n \in 0 .. n
      BY <1>1
    <3>2. n \notin Bad
      BY <2>1
    <3>. QED BY <3>1, <3>2
  <2>2. PICK k \in Bad : \A j \in Bad : k <= j
    <3>1. Bad \in SUBSET Nat
      BY <1>1
    <3>. QED BY <2>1, <3>1, LeastNumber
  <2>3. k \in 0 .. n /\ ~Midway(r, low, high, f[k], h, k)
    BY <2>2
  <2>4. CASE k = 0
    <3>1. f[k] = [ok |-> TRUE, reg |-> r]
      BY <2>0, <2>3, <2>4
    <3>2. Level(r, low, high, r, h, 0)
      <4>1. \A i \in 1 .. Len(GotSeq) : ~(i <= 0) /\ r.chain[GotSeq[i]] = low[GotSeq[i]]
        BY GotsListed DEF Rises
      <4>. QED BY <4>1, BesideItself DEF Level
    <3>. QED BY <2>3, <2>4, <3>1, <3>2 DEF Midway
  <2>5. CASE k # 0
    <3>1. k - 1 \in 0 .. n /\ ~(k <= k - 1) /\ k \in 1 .. Len(GotSeq)
      BY <1>1, <1>a, <2>3, <2>5
    <3>2. Midway(r, low, high, f[k - 1], h, k - 1)
      BY <2>2, <3>1
    <3>3. f[k] = InstallNext(f[k - 1], h, k, S, post)
      BY <2>0, <2>3, <2>5
    <3>4. Midway(r, low, high, InstallNext(f[k - 1], h, k, S, post), h, k)
      BY <3>1, <3>2, InstallNextSound
    <3>. QED BY <2>3, <3>3, <3>4
  <2>. QED BY <2>4, <2>5
<1> DEFINE acc[k \in 0 .. n] == IF k = 0 THEN [ok |-> TRUE, reg |-> r] ELSE InstallNext(acc[k - 1], h, k, S, post)
<1>3. Installing(acc, n, r, h, S, post)
  <2>1. \E f : Installing(f, n, r, h, S, post)
    BY <1>1, InstallingExists
  <2>. QED BY <2>1 DEF Installing
<1>4. InstallAll(r, h, S, post) = acc[n]
  BY <1>a DEF InstallAll
<1>. QED BY <1>2, <1>3, <1>4, <1>a

LEMMA LevelEnds ==
    ASSUME NEW base, NEW low, NEW high, NEW r, NEW h
    PROVE  /\ Level(base, low, high, r, h, Len(GotSeq)) => \A g \in Gots : r.chain[g] = high[g]
           /\ Level(base, low, high, r, h, 0) => \A g \in Gots : r.chain[g] = low[g]
<1>1. ASSUME NEW g \in Gots, Level(base, low, high, r, h, Len(GotSeq)) PROVE r.chain[g] = high[g]
  <2>1. PICK i \in 1 .. Len(GotSeq) : GotSeq[i] = g
    BY GotsListed
  <2>2. i <= Len(GotSeq)
    BY GotsListed
  <2>. QED BY <1>1, <2>1, <2>2 DEF Level
<1>2. ASSUME NEW g \in Gots, Level(base, low, high, r, h, 0) PROVE r.chain[g] = low[g]
  <2>1. PICK i \in 1 .. Len(GotSeq) : GotSeq[i] = g
    BY GotsListed
  <2>2. ~(i <= 0)
    BY GotsListed
  <2>. QED BY <1>2, <2>1, <2>2 DEF Level
<1>. QED BY <1>1, <1>2

(***************************************************************************)
(* The operations on hooks.                                                *)
(***************************************************************************)
(* What a failure leaves as it was.                                          *)
Alike(q, r) ==
    /\ q.chain = r.chain /\ q.got = r.got
    /\ q.breaks # r.breaks => \E h \in q.stuck : q.breaks = Append(r.breaks, h)
    /\ \A i \in Slot :
          /\ Allocated(r.trap, i) => Holds(q, i, r.trap.slots[i])
          /\ Allocated(q.trap, i) /\ ~Allocated(r.trap, i) =>
                \E h \in Hooks, g \in r.lost : Holds(q, i, On(h, g))

LEMMA SlotsAlike ==
    ASSUME NEW r, r \in Registry, NEW q, q \in Registry, NEW h, SameBut(q.trap, r, h), NEW i \in Slot
    PROVE  /\ Allocated(r.trap, i) => Holds(q, i, r.trap.slots[i])
           /\ Allocated(q.trap, i) /\ ~Allocated(r.trap, i) =>
                 \E k \in Hooks, g \in r.lost : Holds(q, i, On(k, g))
<1>1. /\ r.trap.slots \in Seq(Handlers \cup {NoHandler}) /\ NoHandler \notin Handlers
      /\ q.trap.slots \in Seq(Handlers \cup {NoHandler})
  BY GotHooksAssumption DEF Registry, Table
<1>2. ASSUME Allocated(r.trap, i) PROVE Holds(q, i, r.trap.slots[i])
  <2>a. PICK x : x = r.trap.slots[i]
    OBVIOUS
  <2>1. x \in Handlers /\ Has(r.trap, i, x)
    BY <1>1, <1>2, <2>a DEF Allocated, Has
  <2>2. Has(q.trap, i, x)
    BY <2>1 DEF SameBut
  <2>. QED BY <2>2, <2>a DEF Has, Holds
<1>3. ASSUME Allocated(q.trap, i), ~Allocated(r.trap, i)
      PROVE  \E k \in Hooks, g \in r.lost : Holds(q, i, On(k, g))
  <2>a. PICK x : x = q.trap.slots[i]
    OBVIOUS
  <2>1. x \in Handlers /\ Has(q.trap, i, x)
    BY <1>1, <1>3, <2>a DEF Allocated, Has
  <2>2. ~Has(r.trap, i, x)
    BY <1>1, <1>3, <2>1 DEF Allocated, Has
  <2>3. x.kind = "on" /\ x.got \in r.lost
    BY <2>1, <2>2 DEF SameBut
  <2>4. x.hook \in Hooks /\ x = On(x.hook, x.got)
    BY <2>1, <2>3, HandlerFacts
  <2>. QED BY <2>1, <2>3, <2>4 DEF Has, Holds
<1>. QED BY <1>2, <1>3

LEMMA NothingLeft ==
    ASSUME NEW r, Sound(r), NEW q, Sound(q), NEW h \in Hooks, Beside(q, r, h),
           \A g \in Gots : q.chain[g] = r.chain[g] /\ h \notin Chained(r, g),
           h \notin ToSet(r.breaks)
    PROVE  Alike(q, r)
<1>1. /\ r \in Registry /\ q \in Registry /\ Exact(r) /\ Exact(q)
      /\ q.breaks = r.breaks /\ q.stuck = r.stuck /\ q.lost = r.lost
      /\ \A k \in Hooks \ {h} : q.tramp[k] = r.tramp[k] /\ q.after[k] = r.after[k]
      /\ \A m \in Gots : m \in r.lost => q.got[m] = r.got[m]
  BY DEF Sound, Beside
<1>2. /\ q.chain \in [Gots -> Seq(Hooks)] /\ r.chain \in [Gots -> Seq(Hooks)]
      /\ q.got \in [Gots -> Slot \cup {ORIGINAL}] /\ r.got \in [Gots -> Slot \cup {ORIGINAL}]
  BY <1>1 DEF Registry
<1>3. q.chain = r.chain
  BY <1>2
<1>4. q.got = r.got
  <2>1. ASSUME NEW g \in Gots, g \notin r.lost PROVE q.got[g] = r.got[g]
    <3>1. r.chain[g] # <<>> => Last(r.chain[g]) \in Hooks \ {h}
      <4>1. r.chain[g] # <<>> => Len(r.chain[g]) \in DOMAIN r.chain[g]
        BY <1>2
      <4>2. \A i \in DOMAIN r.chain[g] : r.chain[g][i] \in Hooks /\ r.chain[g][i] # h
        BY <1>2 DEF Chained, ToSet
      <4>. QED BY <4>1, <4>2 DEF Last
    <3>2. Newest(q, g) = Newest(r, g)
      BY <1>1, <1>3, <3>1 DEF Newest
    <3>. QED BY <1>1, <2>1, <3>2 DEF Sound
  <2>. QED BY <1>1, <1>2, <2>1
<1>5. ASSUME NEW i \in Slot, NEW x \in Handlers
      PROVE  Claimed(q, i, x) <=> Claimed(r, i, x)
  <2>1. Live(q, x) <=> Live(r, x)
    BY <1>1, <1>3 DEF Live, Chained
  <2>2. Live(r, x) => x.hook # h
    BY HandlerFacts DEF Live
  <2>3. x.hook # h => SlotOf(q, x) = SlotOf(r, x)
    BY <1>1, HandlerFacts DEF SlotOf
  <2>. QED BY <2>1, <2>2, <2>3 DEF Claimed
<1>6. SameBut(q.trap, r, h)
  <2> SUFFICES ASSUME NEW imm \in Slot, NEW y \in Handlers
               PROVE  /\ Has(r.trap, imm, y) => Has(q.trap, imm, y)
                      /\ Has(q.trap, imm, y) =>
                            Has(r.trap, imm, y) \/ (y.kind = "on" /\ y.hook = h /\ y.got \in r.lost)
    BY DEF SameBut
  <2>1. CASE y.got \in r.lost
    BY <2>1 DEF Beside
  <2>2. CASE y.got \notin r.lost
    BY <1>1, <1>5, <2>2 DEF Exact
  <2>. QED BY <2>1, <2>2
<1>7. \A i \in Slot :
         /\ Allocated(r.trap, i) => Holds(q, i, r.trap.slots[i])
         /\ Allocated(q.trap, i) /\ ~Allocated(r.trap, i) =>
               \E k \in Hooks, g \in r.lost : Holds(q, i, On(k, g))
  BY <1>1, <1>6, SlotsAlike
<1>. QED BY <1>1, <1>3, <1>4, <1>7 DEF Alike

LEMMA SameTrapAlike ==
    ASSUME NEW r, r \in Registry, NEW q, q \in Registry, q.chain = r.chain, q.got = r.got,
           \A imm \in Slot, x \in Handlers : Has(q.trap, imm, x) <=> Has(r.trap, imm, x),
           q.breaks # r.breaks => \E h \in q.stuck : q.breaks = Append(r.breaks, h)
    PROVE  Alike(q, r)
<1>1. SameBut(q.trap, r, 0)
  BY DEF SameBut
<1>2. \A i \in Slot :
         /\ Allocated(r.trap, i) => Holds(q, i, r.trap.slots[i])
         /\ Allocated(q.trap, i) /\ ~Allocated(r.trap, i) =>
               \E k \in Hooks, g \in r.lost : Holds(q, i, On(k, g))
  BY <1>1, SlotsAlike
<1>. QED BY <1>2 DEF Alike

LEMMA UnusedIsAway ==
    ASSUME HandlesInv, NEW h \in Unused
    PROVE  /\ h \in Hooks /\ where[h] = {} /\ h \notin ToSet(reg.breaks)
           /\ \A g \in Gots : h \notin Chained(reg, g)
<1>1. h \in Hooks /\ where[h] = {} /\ h \notin ToSet(reg.breaks)
  BY DEF Unused, active, Replacing
<1>. QED BY <1>1 DEF HandlesInv, Handled

LEMMA InstallKeepsInv ==
    ASSUME HandlesInv, NEW h \in Hooks, NEW S \in SUBSET Gots, NEW post \in BOOLEAN, Install(h, S, post)
    PROVE  /\ HandlesInv' /\ (where' = where => Alike(reg', reg)) /\ Beside(reg', reg, h)
           /\ where' \in {where, [where EXCEPT ![h] = S]}
           /\ \A g \in Gots : reg'.chain[g] \in {reg.chain[g], Append(reg.chain[g], h)}
<1>a. PICK r : r = reg
  OBVIOUS
<1>b. PICK low : low = r.chain
  OBVIOUS
<1>c. PICK high : high = [g \in Gots |-> IF g \in S THEN Append(low[g], h) ELSE low[g]]
  OBVIOUS
<1>d. PICK res : res = InstallAll(r, h, S, post)
  OBVIOUS
<1>e. PICK q : q = res.reg
  OBVIOUS
<1>1. /\ Sound(r) /\ where \in [Hooks -> SUBSET (Gots \cup {ENTRY})]
      /\ \A k \in Hooks : ENTRY \in where[k] => where[k] = {ENTRY}
      /\ Handled(ENTRY) = ToSet(r.breaks) \ r.stuck
      /\ \A g \in Gots : /\ Chained(r, g) \subseteq Handled(g)
                         /\ Handled(g) \subseteq Chained(r, g) \/ g \in r.lost
  BY <1>a DEF HandlesInv, Replacing
<1>2. /\ h \in Unused /\ S # {} /\ reg' = q
      /\ where' = IF res.ok THEN [where EXCEPT ![h] = S] ELSE where
  BY <1>a, <1>d, <1>e DEF Install
<1>3. where[h] = {} /\ h \notin ToSet(r.breaks) /\ \A g \in Gots : h \notin Chained(r, g)
  BY <1>2, <1>a, UnusedIsAway
<1>4. ASSUME NEW g \in Gots
      PROVE  /\ low[g] = r.chain[g] /\ h \notin ToSet(low[g]) /\ ToSet(low[g]) = Chained(r, g)
             /\ g \notin S => high[g] = low[g]
             /\ g \in S => /\ high[g] = Append(low[g], h) /\ low[g] = RemoveFirst(high[g], h)
                           /\ h \in ToSet(high[g]) /\ ToSet(high[g]) = Chained(r, g) \cup {h}
  <2>1. r.chain[g] \in Seq(Hooks) /\ Distinct(r.chain[g]) /\ h \notin ToSet(r.chain[g])
    BY <1>1, <1>3 DEF Sound, Registry, Chained
  <2>2. high[g] = IF g \in S THEN Append(r.chain[g], h) ELSE r.chain[g]
    BY <1>b, <1>c
  <2>3. /\ ToSet(Append(r.chain[g], h)) = ToSet(r.chain[g]) \cup {h}
        /\ RemoveFirst(Append(r.chain[g], h), h) = r.chain[g]
    BY <2>1, AppendedLast
  <2>. QED BY <1>b, <2>1, <2>2, <2>3 DEF Chained
<1>5. Rises(r, low, high, h, S)
  BY <1>4 DEF Rises
<1>6. Midway(r, low, high, res, h, Len(GotSeq))
  BY <1>1, <1>5, <1>d, InstallAllSound
<1>7. CASE res.ok
  <2>1. Level(r, low, high, q, h, Len(GotSeq))
    BY <1>6, <1>7, <1>e DEF Midway
  <2>2. /\ Sound(q) /\ Beside(q, r, h) /\ q.breaks = r.breaks /\ q.stuck = r.stuck /\ q.lost = r.lost
        /\ \A g \in Gots : q.chain[g] = high[g]
    <3>1. \A g \in Gots : q.chain[g] = high[g]
      BY ONLY <2>1, LevelEnds
    <3>2. Sound(q) /\ Beside(q, r, h)
      BY <2>1 DEF Level
    <3>. QED BY <3>1, <3>2 DEF Beside
  <2>3. where' = [where EXCEPT ![h] = S] /\ where' # where
    BY <1>1, <1>2, <1>3, <1>7
  <2>4. /\ where' \in [Hooks -> SUBSET (Gots \cup {ENTRY})]
        /\ \A k \in Hooks : where'[k] = IF k = h THEN S ELSE where[k]
    BY <1>1, <2>3
  <2>5. \A k \in Hooks : ENTRY \in where'[k] => where'[k] = {ENTRY}
    BY <1>1, <2>4, HandlerFacts
  <2>6. Handled(ENTRY)' = Handled(ENTRY)
    BY <1>3, <2>4, HandlerFacts DEF Handled
  <2>7. ASSUME NEW g \in Gots
        PROVE  Chained(q, g) \subseteq Handled(g)' /\ (Handled(g)' \subseteq Chained(q, g) \/ g \in q.lost)
    <3>1. Handled(g)' = IF g \in S THEN Handled(g) \cup {h} ELSE Handled(g)
      BY <1>3, <2>4 DEF Handled
    <3>2. Chained(q, g) = IF g \in S THEN Chained(r, g) \cup {h} ELSE Chained(r, g)
      BY <1>4, <2>2 DEF Chained
    <3>. QED BY <1>1, <2>2, <3>1, <3>2
  <2>8. HandlesInv'
    BY <1>1, <1>2, <2>2, <2>4, <2>5, <2>6, <2>7 DEF HandlesInv, Replacing
  <2>9. \A g \in Gots : q.chain[g] \in {r.chain[g], Append(r.chain[g], h)}
    BY <1>4, <2>2
  <2>. QED BY <1>2, <1>a, <2>2, <2>3, <2>8, <2>9
<1>8. CASE ~res.ok
  <2>1. Level(r, low, high, q, h, 0)
    BY <1>6, <1>8, <1>e DEF Midway
  <2>2. /\ Sound(q) /\ Beside(q, r, h) /\ q.breaks = r.breaks /\ q.stuck = r.stuck /\ q.lost = r.lost
        /\ \A g \in Gots : q.chain[g] = r.chain[g]
    <3>1. \A g \in Gots : q.chain[g] = low[g]
      BY ONLY <2>1, LevelEnds
    <3>2. Sound(q) /\ Beside(q, r, h)
      BY <2>1 DEF Level
    <3>. QED BY <1>4, <3>1, <3>2 DEF Beside
  <2>3. where' = where
    BY <1>2, <1>8
  <2>4. Alike(q, r)
    BY <1>1, <1>3, <2>2, NothingLeft
  <2>5. \A g \in Gots : Chained(q, g) = Chained(r, g)
    BY <2>2 DEF Chained
  <2>6. \A p : Handled(p)' = Handled(p)
    BY <2>3 DEF Handled
  <2>7. HandlesInv'
    BY <1>1, <1>2, <2>2, <2>3, <2>5, <2>6 DEF HandlesInv, Replacing
  <2>. QED BY <1>2, <1>a, <2>2, <2>3, <2>4, <2>7
<1>. QED BY <1>6, <1>7, <1>8 DEF Midway

LEMMA ReplaceKeepsInv ==
    ASSUME HandlesInv, NEW h \in Hooks, NEW post \in BOOLEAN, Replace(h, post)
    PROVE  /\ HandlesInv' /\ (where' = where => Alike(reg', reg))
           /\ \/ UNCHANGED vars
              \/ where' = [where EXCEPT ![h] = {ENTRY}] /\ reg'.breaks = Append(reg.breaks, h)
           /\ reg'.stuck = reg.stuck /\ reg'.lost = reg.lost
           /\ \A k \in Hooks \ {h} : reg'.after[k] = reg.after[k]
           /\ reg'.chain = reg.chain
<1>a. PICK r : r = reg
  OBVIOUS
<1>1. /\ Sound(r) /\ where \in [Hooks -> SUBSET (Gots \cup {ENTRY})] /\ r.stuck \subseteq ToSet(r.breaks)
      /\ \A k \in Hooks : ENTRY \in where[k] => where[k] = {ENTRY}
      /\ Handled(ENTRY) = ToSet(r.breaks) \ r.stuck
      /\ \A g \in Gots : /\ Chained(r, g) \subseteq Handled(g)
                         /\ Handled(g) \subseteq Chained(r, g) \/ g \in r.lost
  BY <1>a DEF HandlesInv, Replacing, Sound
<1>2. CASE UNCHANGED vars
  <2>1. reg' = reg /\ where' = where
    BY <1>2 DEF vars
  <2>2. HandlesInv'
    BY <2>1 DEF HandlesInv, Replacing, Handled
  <2>3. r \in Registry
    BY <1>1 DEF Sound
  <2>4. Alike(r, r)
    BY <2>3, SameTrapAlike
  <2>. QED BY <1>2, <1>a, <2>1, <2>2, <2>4
<1>3. CASE ~UNCHANGED vars
  <2>a. PICK q : q = AddEntry(r, h, post)
    OBVIOUS
  <2>1. h \in Unused /\ CanReplace(r, post) /\ reg' = q /\ where' = [where EXCEPT ![h] = {ENTRY}]
    BY <1>3, <1>a, <2>a DEF Replace
  <2>2. where[h] = {} /\ h \notin ToSet(r.breaks) /\ \A g \in Gots : h \notin Chained(r, g)
    BY <1>a, <2>1, UnusedIsAway
  <2>3. /\ Sound(q) /\ Apart(q, r) /\ q.stuck = r.stuck
        /\ q.breaks = Append(r.breaks, h) /\ ToSet(q.breaks) = ToSet(r.breaks) \cup {h}
        /\ \A k \in Hooks \ {h} : q.after[k] = r.after[k]
    BY <1>1, <2>1, <2>2, <2>a, AddEntryKeeps
  <2>4. q.chain = r.chain /\ q.lost = r.lost
    BY <2>3 DEF Apart
  <2>5. /\ where' \in [Hooks -> SUBSET (Gots \cup {ENTRY})]
        /\ \A k \in Hooks : where'[k] = IF k = h THEN {ENTRY} ELSE where[k]
    BY <1>1, <2>1
  <2>6. where' # where
    BY <2>2, <2>5
  <2>7. Handled(ENTRY)' = Handled(ENTRY) \cup {h} /\ \A g \in Gots : Handled(g)' = Handled(g)
    BY <2>2, <2>5, HandlerFacts DEF Handled
  <2>8. \A g \in Gots : Chained(q, g) = Chained(r, g)
    BY <2>4 DEF Chained
  <2>9. ToSet(q.breaks) \ q.stuck = (ToSet(r.breaks) \ r.stuck) \cup {h}
    BY <1>1, <2>2, <2>3
  <2>10. \A k \in Hooks : ENTRY \in where'[k] => where'[k] = {ENTRY}
    BY <1>1, <2>5
  <2>11. HandlesInv'
    BY <1>1, <2>1, <2>3, <2>4, <2>5, <2>7, <2>8, <2>9, <2>10 DEF HandlesInv, Replacing
  <2>. QED BY <1>a, <2>1, <2>3, <2>4, <2>6, <2>11
<1>. QED BY <1>2, <1>3

LEMMA RefusedKeepsInv ==
    ASSUME HandlesInv, NEW h \in Hooks, NEW post \in BOOLEAN, ReplaceRefused(h, post)
    PROVE  HandlesInv' /\ where' = where /\ Alike(reg', reg)
<1>a. PICK r : r = reg
  OBVIOUS
<1>1. /\ Sound(r) /\ where \in [Hooks -> SUBSET (Gots \cup {ENTRY})] /\ r.stuck \subseteq ToSet(r.breaks)
      /\ \A k \in Hooks : ENTRY \in where[k] => where[k] = {ENTRY}
      /\ Handled(ENTRY) = ToSet(r.breaks) \ r.stuck
      /\ \A g \in Gots : /\ Chained(r, g) \subseteq Handled(g)
                         /\ Handled(g) \subseteq Chained(r, g) \/ g \in r.lost
  BY <1>a DEF HandlesInv, Replacing, Sound
<1>2. PICK watched \in BOOLEAN : reg' = RefuseEntry(r, h, post, watched)
  BY <1>a DEF ReplaceRefused
<1>b. PICK q : q = RefuseEntry(r, h, post, watched)
  OBVIOUS
<1>3. h \in Unused /\ CanReplace(r, post) /\ ~r.watched /\ reg' = q /\ where' = where
  BY <1>2, <1>a, <1>b DEF ReplaceRefused
<1>4. where[h] = {} /\ h \notin ToSet(r.breaks) /\ \A g \in Gots : h \notin Chained(r, g)
  BY <1>a, <1>3, UnusedIsAway
<1>5. /\ Sound(q) /\ Apart(q, r) /\ q.stuck = r.stuck \cup {h}
      /\ q.breaks = Append(r.breaks, h) /\ ToSet(q.breaks) = ToSet(r.breaks) \cup {h}
      /\ \A imm \in Slot, z \in Handlers : Has(q.trap, imm, z) <=> Has(r.trap, imm, z)
  BY <1>1, <1>3, <1>4, <1>b, RefuseEntryKeeps
<1>6. q.chain = r.chain /\ q.lost = r.lost /\ q.got = r.got
  BY <1>5 DEF Apart
<1>7. \A p : Handled(p)' = Handled(p)
  BY <1>3 DEF Handled
<1>8. \A g \in Gots : Chained(q, g) = Chained(r, g)
  BY <1>6 DEF Chained
<1>9. ToSet(q.breaks) \ q.stuck = ToSet(r.breaks) \ r.stuck
  BY <1>4, <1>5
<1>10. HandlesInv'
  BY <1>1, <1>3, <1>5, <1>6, <1>7, <1>8, <1>9 DEF HandlesInv, Replacing
<1>11. r \in Registry /\ q \in Registry
  BY <1>1, <1>5 DEF Sound
<1>12. Alike(q, r)
  <2>1. \E k \in q.stuck : q.breaks = Append(r.breaks, k)
    BY <1>5
  <2>. QED BY <1>5, <1>6, <1>11, <2>1, SameTrapAlike
<1>. QED BY <1>3, <1>10, <1>12, <1>a

LEMMA UnhookKeepsInv ==
    ASSUME HandlesInv, NEW h \in Hooks, Unhook(h)
    PROVE  /\ HandlesInv' /\ where' = [where EXCEPT ![h] = @ \cap reg.lost]
           /\ reg'.after = reg.after /\ reg'.lost = reg.lost /\ reg'.stuck = reg.stuck
           /\ ToSet(reg'.breaks) = IF ENTRY \in where[h] THEN ToSet(reg.breaks) \ {h} ELSE ToSet(reg.breaks)
<1>a. PICK r : r = reg
  OBVIOUS
<1>1. /\ Sound(r) /\ where \in [Hooks -> SUBSET (Gots \cup {ENTRY})] /\ r \in Registry
      /\ \A k \in Hooks : ENTRY \in where[k] => where[k] = {ENTRY}
      /\ Handled(ENTRY) = ToSet(r.breaks) \ r.stuck
      /\ \A g \in Gots : /\ Chained(r, g) \subseteq Handled(g)
                         /\ Handled(g) \subseteq Chained(r, g) \/ g \in r.lost
  BY <1>a DEF HandlesInv, Replacing, Sound
<1>2. where' = [where EXCEPT ![h] = @ \cap r.lost] /\ r.lost \subseteq Gots
  BY <1>1, <1>a DEF Unhook, Registry
<1>3. /\ where' \in [Hooks -> SUBSET (Gots \cup {ENTRY})]
      /\ \A k \in Hooks : where'[k] = IF k = h THEN where[h] \cap r.lost ELSE where[k]
  BY <1>1, <1>2
<1>4. \A k \in Hooks : ENTRY \in where'[k] => where'[k] = {ENTRY}
  BY <1>1, <1>2, <1>3, HandlerFacts
<1>5. \A g \in Gots : Handled(g)' = IF g \in r.lost THEN Handled(g) ELSE Handled(g) \ {h}
  BY <1>3 DEF Handled
<1>6. Handled(ENTRY)' = Handled(ENTRY) \ {h}
  BY <1>2, <1>3, HandlerFacts DEF Handled
<1>7. CASE ENTRY \in where[h]
  <2>a. PICK q : q = RemoveEntry(r, h)
    OBVIOUS
  <2>1. reg' = q
    BY <1>7, <1>a, <2>a DEF Unhook
  <2>2. h \in ToSet(r.breaks) \ r.stuck
    BY <1>1, <1>7 DEF Handled
  <2>3. /\ Sound(q) /\ Apart(q, r) /\ q.stuck = r.stuck
        /\ ToSet(q.breaks) = ToSet(r.breaks) \ {h} /\ q.after = r.after
    BY <1>1, <2>2, <2>a, RemoveEntryKeeps
  <2>4. q.chain = r.chain /\ q.lost = r.lost
    BY <2>3 DEF Apart
  <2>5. \A g \in Gots : Chained(q, g) = Chained(r, g)
    BY <2>4 DEF Chained
  <2>6. \A g \in Gots : h \notin Handled(g)
    BY <1>1, <1>7, HandlerFacts DEF Handled
  <2>7. \A g \in Gots : /\ Chained(q, g) \subseteq Handled(g)'
                        /\ Handled(g)' \subseteq Chained(q, g) \/ g \in q.lost
    BY <1>1, <1>5, <2>4, <2>5, <2>6
  <2>8. HandlesInv'
    BY <1>1, <1>3, <1>4, <1>6, <2>1, <2>3, <2>7 DEF HandlesInv, Replacing
  <2>. QED BY <1>2, <1>7, <1>a, <2>1, <2>3, <2>4, <2>8
<1>8. CASE ENTRY \notin where[h]
  <2>a. PICK n : n = Len(GotSeq)
    OBVIOUS
  <2>b. PICK high : high = r.chain
    OBVIOUS
  <2>c. PICK S : S = where[h]
    OBVIOUS
  <2>d. PICK low : low = [g \in Gots |-> IF g \in S THEN RemoveFirst(high[g], h) ELSE high[g]]
    OBVIOUS
  <2>e. PICK q : q = Undo(r, h, n, S)
    OBVIOUS
  <2>1. reg' = q
    BY <1>8, <1>a, <2>a, <2>c, <2>e DEF Unhook
  <2>2. Steps(r, low, high, h, S)
    <3>1. \A g \in Gots : g \in S /\ g \notin r.lost => h \in ToSet(high[g])
      BY <1>1, <2>b, <2>c DEF Chained, Handled
    <3>. QED BY <2>d, <3>1 DEF Steps
  <2>3. n \in 0 .. Len(GotSeq)
    BY <2>a, GotsListed
  <2>4. Level(r, low, high, r, h, n)
    <3>1. \A i \in 1 .. Len(GotSeq) : i <= n
      BY <2>a, GotsListed
    <3>. QED BY <1>1, <2>b, <3>1, BesideItself DEF Level
  <2>5. Level(r, low, high, q, h, 0) /\ q.after = r.after
    BY <2>2, <2>3, <2>4, <2>e, UndoSound
  <2>6. /\ Sound(q) /\ q.breaks = r.breaks /\ q.stuck = r.stuck /\ q.lost = r.lost
        /\ \A g \in Gots : q.chain[g] = low[g]
    <3>1. \A g \in Gots : q.chain[g] = low[g]
      BY ONLY <2>5, LevelEnds
    <3>2. Sound(q) /\ Beside(q, r, h)
      BY <2>5 DEF Level
    <3>. QED BY <3>1, <3>2 DEF Beside
  <2>7. ASSUME NEW g \in Gots
        PROVE  Chained(q, g) \subseteq Handled(g)' /\ (Handled(g)' \subseteq Chained(q, g) \/ g \in q.lost)
    <3>1. r.chain[g] \in Seq(Hooks) /\ Distinct(r.chain[g])
      BY <1>1 DEF Sound, Registry
    <3>2. ToSet(RemoveFirst(r.chain[g], h)) = Chained(r, g) \ {h}
      BY <3>1, RemovedAnyway DEF Chained
    <3>3. q.chain[g] = IF g \in S THEN RemoveFirst(r.chain[g], h) ELSE r.chain[g]
      BY <2>6, <2>b, <2>d
    <3>4. g \notin S => h \notin Chained(r, g)
      BY <1>1, <2>c DEF Handled
    <3>5. Chained(q, g) = Chained(r, g) \ {h}
      BY <3>2, <3>3, <3>4 DEF Chained
    <3>. QED BY <1>1, <1>5, <2>6, <3>5
  <2>8. h \notin Handled(ENTRY)
    BY <1>8 DEF Handled
  <2>9. HandlesInv'
    BY <1>1, <1>3, <1>4, <1>6, <2>1, <2>6, <2>7, <2>8 DEF HandlesInv, Replacing
  <2>. QED BY <1>2, <1>8, <1>a, <2>1, <2>5, <2>6, <2>9
<1>. QED BY <1>7, <1>8

LEMMA UnmapKeepsInv ==
    ASSUME HandlesInv, NEW g \in Gots, Unmap(g)
    PROVE  HandlesInv' /\ Alike(reg', reg)
<1>a. PICK r : r = reg
  OBVIOUS
<1>b. PICK q : q = [r EXCEPT !.lost = @ \cup {g}]
  OBVIOUS
<1>1. reg' = q /\ where' = where /\ Sound(r)
  BY <1>a, <1>b DEF Unmap, HandlesInv
<1>2. /\ Sound(q) /\ q.chain = r.chain /\ q.breaks = r.breaks /\ q.stuck = r.stuck
      /\ q.lost = r.lost \cup {g} /\ q.trap = r.trap /\ q.got = r.got
  BY <1>1, <1>b, UnmapKeeps
<1>3. \A m \in Gots : Chained(q, m) = Chained(r, m)
  BY <1>2 DEF Chained
<1>4. \A p : Handled(p)' = Handled(p)
  BY <1>1 DEF Handled
<1>5. HandlesInv'
  BY <1>1, <1>2, <1>3, <1>4, <1>a DEF HandlesInv, Replacing
<1>6. r \in Registry /\ q \in Registry
  BY <1>1, <1>2 DEF Sound
<1>7. Alike(q, r)
  BY <1>2, <1>6, SameTrapAlike
<1>. QED BY <1>1, <1>5, <1>7, <1>a

LEMMA HandlesInductive ==
    HandlesInv /\ [Next]_vars =>
        HandlesInv' /\ (where' = where => Alike(reg', reg) \/ \E h \in Hooks : Unhook(h))
<1> SUFFICES ASSUME HandlesInv, [Next]_vars
             PROVE  HandlesInv' /\ (where' = where => Alike(reg', reg) \/ \E h \in Hooks : Unhook(h))
  OBVIOUS
<1>1. CASE UNCHANGED vars
  <2>1. reg' = reg /\ where' = where
    BY <1>1 DEF vars
  <2>2. reg \in Registry
    BY DEF HandlesInv, Sound
  <2>3. Alike(reg, reg)
    BY <2>2, SameTrapAlike
  <2>. QED BY <2>1, <2>3 DEF HandlesInv, Replacing, Handled
<1>2. ASSUME NEW h \in Hooks, NEW post \in BOOLEAN, NEW S \in SUBSET Gots, Install(h, S, post)
      PROVE  HandlesInv' /\ (where' = where => Alike(reg', reg))
  BY <1>2, InstallKeepsInv
<1>3. ASSUME NEW h \in Hooks, NEW post \in BOOLEAN, Replace(h, post) \/ ReplaceRefused(h, post)
      PROVE  HandlesInv' /\ (where' = where => Alike(reg', reg))
  BY <1>3, ReplaceKeepsInv, RefusedKeepsInv
<1>4. ASSUME NEW h \in Hooks, Unhook(h) PROVE HandlesInv'
  BY <1>4, UnhookKeepsInv
<1>5. ASSUME NEW g \in Gots, Unmap(g) PROVE HandlesInv' /\ Alike(reg', reg)
  BY <1>5, UnmapKeepsInv
<1>. QED BY <1>1, <1>2, <1>3, <1>4, <1>5 DEF Next

LEMMA HandlesBegin == Init => HandlesInv
<1> SUFFICES ASSUME Init PROVE HandlesInv
  OBVIOUS
<1>a. PICK r : r = EmptyRegistry
  OBVIOUS
<1>1. reg = r /\ where = [h \in Hooks |-> {}]
  BY <1>a DEF Init
<1>2. /\ r.trap = EmptyTable /\ r.breaks = <<>> /\ r.chain = [g \in Gots |-> <<>>]
      /\ r.got = [g \in Gots |-> ORIGINAL] /\ r.stuck = {} /\ r.lost = {} /\ r.watched = FALSE
  BY <1>a DEF EmptyRegistry
<1>3. r \in Registry
  BY <1>a DEF EmptyRegistry, Registry, EmptyTable, Table
<1>4. SoundTable(r.trap)
  BY <1>2, GotHooksAssumption DEF EmptyTable, SoundTable
<1>5. ToSet(<<>>) = {} /\ Distinct(<<>>)
  BY DEF ToSet, Distinct
<1>6. \A g \in Gots : Chained(r, g) = {} /\ Distinct(r.chain[g]) /\ r.got[g] = Newest(r, g)
  BY <1>2, <1>5 DEF Chained, Newest
<1>7. Exact(r)
  <2>1. \A x \in Handlers, imm \in Slot : ~Claimed(r, imm, x) /\ ~Has(r.trap, imm, x)
    BY <1>2, <1>5, <1>6, HandlerFacts DEF Claimed, Live, Has, EmptyTable
  <2>. QED BY <1>6, <2>1 DEF Exact
<1>8. Sound(r)
  BY <1>2, <1>3, <1>4, <1>5, <1>6, <1>7 DEF Sound
<1>9. \A p : Handled(p) = {}
  BY <1>1 DEF Handled
<1>. QED BY <1>1, <1>2, <1>5, <1>6, <1>8, <1>9 DEF HandlesInv, Replacing

LEMMA HandlesOwnSlots == HandlesInv => SlotsOwned
<1> SUFFICES ASSUME HandlesInv PROVE SlotsOwned
  OBVIOUS
<1>a. PICK r : r = reg
  OBVIOUS
<1>1. r \in Registry /\ SoundTable(r.trap) /\ Exact(r)
  BY <1>a DEF HandlesInv, Sound
<1>2. /\ r.trap.slots \in Seq(Handlers \cup {NoHandler}) /\ Len(r.trap.slots) <= MAX_SLOTS
      /\ r.chain \in [Gots -> Seq(Hooks)] /\ r.breaks \in Seq(Hooks)
      /\ r.tramp \in [Hooks -> [Gots -> Slot \cup {NONE}]]
      /\ r.after \in [Hooks -> [Gots \cup {ENTRY} -> Slot \cup {NONE}]]
  BY <1>1 DEF Registry, Table, SoundTable
<1>3. \A x \in Handlers, imm \in Slot : Claimed(r, imm, x) => Holds(r, imm, x)
  BY <1>1 DEF Exact, Has, Holds
<1>4. ASSUME NEW g \in Gots, NEW h \in Chained(r, g)
      PROVE  Holds(r, r.tramp[h][g], On(h, g)) /\ OwnsReturn(r, h, g)
  <2>1. h \in Hooks
    BY <1>2 DEF Chained, ToSet
  <2>a. PICK x : x = On(h, g)
    OBVIOUS
  <2>b. PICK y : y = After(h, g)
    OBVIOUS
  <2>2. /\ x \in Handlers /\ x.kind = "on" /\ x.hook = h /\ x.got = g
        /\ y \in Handlers /\ y.kind = "after" /\ y.hook = h /\ y.got = g
        /\ g # ENTRY
    BY <2>1, <2>a, <2>b, HandlerFacts
  <2>3. Live(r, x) /\ SlotOf(r, x) = r.tramp[h][g] /\ Live(r, y) /\ SlotOf(r, y) = r.after[h][g]
    BY <2>2 DEF Live, SlotOf
  <2>4. r.tramp[h][g] \in Slot
    BY <1>1, <1>2, <2>1 DEF Exact
  <2>5. r.after[h][g] # NONE => r.after[h][g] \in Slot
    BY <1>2, <2>1
  <2>6. Claimed(r, r.tramp[h][g], x) /\ (r.after[h][g] # NONE => Claimed(r, r.after[h][g], y))
    BY <2>2, <2>3 DEF Claimed
  <2>. QED BY <1>3, <2>2, <2>4, <2>5, <2>6, <2>a, <2>b DEF OwnsReturn
<1>5. ASSUME NEW h \in ToSet(r.breaks) \ r.stuck PROVE OwnsReturn(r, h, ENTRY)
  <2>1. h \in Hooks /\ ENTRY \in Gots \cup {ENTRY}
    BY <1>2 DEF ToSet
  <2>b. PICK y : y = After(h, ENTRY)
    OBVIOUS
  <2>2. y \in Handlers /\ y.kind = "after" /\ y.hook = h /\ y.got = ENTRY
    BY <2>1, <2>b, HandlerFacts
  <2>3. r.after[h][ENTRY] # NONE => r.after[h][ENTRY] \in Slot /\ Claimed(r, r.after[h][ENTRY], y)
    BY <1>2, <2>1, <2>2 DEF Claimed, Live, SlotOf
  <2>. QED BY <1>3, <2>2, <2>3, <2>b DEF OwnsReturn
<1>6. ASSUME NEW imm \in DOMAIN r.trap.slots, r.trap.slots[imm] # NoHandler
      PROVE  \/ \E g \in Gots : \E h \in Chained(r, g) : imm \in {r.tramp[h][g], r.after[h][g]}
             \/ \E h \in ToSet(r.breaks) \ r.stuck : imm = r.after[h][ENTRY]
             \/ r.trap.slots[imm].got \in r.lost
  <2>a. PICK x : x = r.trap.slots[imm]
    OBVIOUS
  <2>1. x \in Handlers /\ imm \in Slot
    BY <1>2, <1>6, <2>a, GotHooksAssumption DEF Slot
  <2>2. CASE x.got \in r.lost
    BY <2>2, <2>a
  <2>3. CASE x.got \notin r.lost
    <3>1. Claimed(r, imm, x)
      BY <1>1, <2>1, <2>3, <2>a DEF Exact, Has
    <3>. QED BY <2>1, <3>1, HandlerFacts DEF Claimed, Live, SlotOf
  <2>. QED BY <2>2, <2>3
<1>. QED BY <1>1, <1>4, <1>5, <1>6, <1>a DEF SlotsOwned, Owned, Accounted, Replacing

LEMMA DistinctCounts ==
    ASSUME NEW S, NEW s \in Seq(S), Distinct(s)
    PROVE  IsFiniteSet(ToSet(s)) /\ Cardinality(ToSet(s)) = Len(s)
<1>1. Len(s) \in Nat /\ DOMAIN s = 1 .. Len(s)
  OBVIOUS
<1>2. s \in Bijection(1 .. Len(s), ToSet(s))
  BY <1>1 DEF Bijection, Injection, Surjection, IsInjective, Distinct, ToSet
<1>3. ExistsBijection(1 .. Len(s), ToSet(s))
  BY <1>2 DEF ExistsBijection
<1>. QED BY <1>1, <1>3, FS_NatBijection, FS_CountingElements

LEMMA HandlesMakeEntriesAgree == HandlesInv => EntriesAgree
<1> SUFFICES ASSUME HandlesInv PROVE EntriesAgree
  OBVIOUS
<1>1. /\ reg.chain \in [Gots -> Seq(Hooks)] /\ reg.breaks \in Seq(Hooks) /\ Distinct(reg.breaks)
      /\ \A g \in Gots : Distinct(reg.chain[g]) /\ (g \notin reg.lost => reg.got[g] = Newest(reg, g))
      /\ reg.stuck \subseteq Replacing /\ (Replacing \ reg.stuck # {} => reg.watched)
      /\ Handled(ENTRY) = Replacing \ reg.stuck
      /\ \A g \in Gots : /\ Chained(reg, g) \subseteq Handled(g)
                         /\ Handled(g) \subseteq Chained(reg, g) \/ g \in reg.lost
  BY DEF HandlesInv, Sound, Registry, Replacing
<1>2. ASSUME NEW g \in Gots PROVE Len(reg.chain[g]) = Cardinality(Chained(reg, g))
  <2>1. reg.chain[g] \in Seq(Hooks) /\ Distinct(reg.chain[g])
    BY <1>1
  <2>. QED BY <2>1, DistinctCounts DEF Chained
<1>3. Len(reg.breaks) = Cardinality(Replacing)
  BY <1>1, DistinctCounts DEF Replacing
<1>4. EntryAgrees
  BY <1>1, <1>3 DEF EntryAgrees
<1>. QED BY <1>1, <1>2, <1>4 DEF EntriesAgree, GotLeadsToNewest, ModulesAgree

(* Whatever is installed in whichever modules, removed, refused and          *)
(* unmapped in whatever order, and however often the page of trampolines     *)
(* fills up half way: the trampolines in use are those of the hooks that are *)
(* installed, each once, with its own handler, but for those that serve no   *)
(* hook any more of an import slot whose page is gone.                       *)
THEOREM SlotsAlwaysOwned == Spec => []SlotsOwned
<1>. QED BY HandlesBegin, HandlesInductive, HandlesOwnSlots, PTL DEF Spec

(* ... every GOT entry that can still be written leads to the newest hook    *)
(* that is installed there; a hook is installed in the modules it was asked  *)
(* for and in no other, but for those whose import slot's page is gone; and  *)
(* the callbacks on the entry are those installed there and those that the   *)
(* engine refused.                                                           *)
THEOREM EntriesAlwaysAgree == Spec => []EntriesAgree
<1>. QED BY HandlesBegin, HandlesInductive, HandlesMakeEntriesAgree, PTL DEF Spec

(* ... and an installation that fails leaves the chains, the GOT and the     *)
(* trampolines as they were, but for a trampoline for the call of an import  *)
(* slot whose page is gone, and for a callback that the engine refused.      *)
THEOREM FailuresAlwaysLeaveNothing == Spec => FailureLeavesNothing
<1>1. HandlesInv /\ [Next]_vars => HandlesInv'
  BY HandlesInductive
<1>2. HandlesInv /\ [Next]_vars => [where' = where => LeavesNothing \/ \E h \in Hooks : Unhook(h)]_vars
  <2> SUFFICES ASSUME HandlesInv, [Next]_vars, where' = where
               PROVE  LeavesNothing \/ \E h \in Hooks : Unhook(h)
    OBVIOUS
  <2>1. Alike(reg', reg) \/ \E h \in Hooks : Unhook(h)
    BY HandlesInductive
  <2>. QED BY <2>1 DEF Alike, LeavesNothing
<1>. QED BY <1>1, <1>2, HandlesBegin, PTL DEF Spec, FailureLeavesNothing

(***************************************************************************)
(* The registry that guests call through: its hooks on the import are in   *)
(* all modules, no import slot was lost and no callback refused.           *)
(***************************************************************************)
Good(r) ==
    /\ r \in Registry
    /\ SoundTable(r.trap)
    /\ Exact(r)
    /\ \A g \in Gots : Distinct(r.chain[g]) /\ r.got[g] = Newest(r, g)
    /\ Distinct(r.breaks)
    /\ r.lost = {} /\ r.stuck = {}

Whole ==
    /\ \A h \in Hooks : where[h] \in {{}, Gots, {ENTRY}}
    /\ reg.lost = {} /\ reg.stuck = {}

RegistryInv ==
    /\ HandlesInv /\ Whole
    /\ Good(reg)
    /\ active \subseteq Hooks
    /\ Replacing \subseteq active
    /\ \A g \in Gots : Chained(reg, g) = active \ Replacing

LEMMA HandlesMakeRegistry == HandlesInv /\ Whole => RegistryInv
<1> SUFFICES ASSUME HandlesInv, Whole PROVE RegistryInv
  OBVIOUS
<1>a. PICK r : r = reg
  OBVIOUS
<1>1. Sound(r) /\ r.lost = {} /\ r.stuck = {}
  BY <1>a DEF HandlesInv, Whole
<1>2. Good(r)
  BY <1>1 DEF Sound, Good
<1>3. Handled(ENTRY) = Replacing /\ \A g \in Gots : Chained(reg, g) = Handled(g)
  BY <1>1, <1>a DEF HandlesInv
<1>4. active \subseteq Hooks /\ Replacing \subseteq active
  BY <1>3 DEF active, Handled
<1>5. ASSUME NEW g \in Gots PROVE Handled(g) = active \ Handled(ENTRY)
  <2>1. g # ENTRY /\ ENTRY \notin Gots
    BY GotHooksAssumption
  <2>2. ASSUME NEW h \in Hooks PROVE g \in where[h] <=> where[h] # {} /\ ENTRY \notin where[h]
    <3>1. CASE where[h] = {}
      BY <3>1
    <3>2. CASE where[h] = Gots
      BY <2>1, <3>2
    <3>3. CASE where[h] = {ENTRY}
      BY <2>1, <3>3
    <3>. QED BY <3>1, <3>2, <3>3 DEF Whole
  <2>. QED BY <2>2 DEF active, Handled
<1>. QED BY <1>2, <1>3, <1>4, <1>5, <1>a DEF RegistryInv

LEMMA SomeGots == Gots # {} /\ Gots \in SUBSET Gots
<1>1. GotSeq \in Seq(Gots) /\ GotSeq # <<>>
  BY GotHooksAssumption, HookedCallsAssumption
<1>2. GotSeq[1] \in Gots
  BY <1>1
<1>. QED BY <1>2

LEMMA InstallKeepsRegistry ==
    ASSUME RegistryInv, NEW h \in Hooks, NEW post \in BOOLEAN, Install(h, Gots, post)
    PROVE  /\ RegistryInv' /\ active \subseteq active' /\ active' \subseteq active \cup {h}
           /\ Replacing' = Replacing
           /\ \A k \in Hooks \ {h} : reg'.after[k] = reg.after[k]
           /\ \A g \in Gots : reg'.chain[g] \in {reg.chain[g], Append(reg.chain[g], h)}
<1>1. /\ HandlesInv' /\ Beside(reg', reg, h)
      /\ where' \in {where, [where EXCEPT ![h] = Gots]}
      /\ \A g \in Gots : reg'.chain[g] \in {reg.chain[g], Append(reg.chain[g], h)}
  BY SomeGots, InstallKeepsInv DEF RegistryInv
<1>2. /\ reg'.breaks = reg.breaks /\ reg'.lost = reg.lost /\ reg'.stuck = reg.stuck
      /\ \A k \in Hooks \ {h} : reg'.after[k] = reg.after[k]
  BY <1>1 DEF Beside
<1>3. /\ where \in [Hooks -> SUBSET (Gots \cup {ENTRY})] /\ reg.lost = {} /\ reg.stuck = {}
      /\ \A k \in Hooks : where[k] \in {{}, Gots, {ENTRY}}
  BY DEF RegistryInv, Whole, HandlesInv, Good
<1>4. \A k \in Hooks : where'[k] = where[k] \/ (k = h /\ where'[k] = Gots)
  BY <1>1, <1>3
<1>5. RegistryInv'
  <2>1. \A k \in Hooks : where'[k] \in {{}, Gots, {ENTRY}}
    BY <1>3, <1>4
  <2>2. reg'.lost = {} /\ reg'.stuck = {}
    BY <1>2, <1>3
  <2>3. HandlesInv' /\ Whole'
    BY <1>1, <2>1, <2>2 DEF Whole
  <2>. QED BY <2>3, HandlesMakeRegistry, PTL
<1>6. active \subseteq active' /\ active' \subseteq active \cup {h}
  BY <1>4, SomeGots DEF active
<1>. QED BY <1>1, <1>2, <1>5, <1>6 DEF Replacing

LEMMA ReplaceKeepsRegistry ==
    ASSUME RegistryInv, NEW h \in Hooks, NEW post \in BOOLEAN, Replace(h, post)
    PROVE  /\ RegistryInv' /\ active \subseteq active' /\ active' \subseteq active \cup {h}
           /\ Replacing \subseteq Replacing' /\ Replacing' \subseteq Replacing \cup {h}
           /\ \A k \in Hooks \ {h} : reg'.after[k] = reg.after[k]
           /\ reg'.chain = reg.chain
<1>1. /\ HandlesInv'
      /\ \/ UNCHANGED vars
         \/ where' = [where EXCEPT ![h] = {ENTRY}] /\ reg'.breaks = Append(reg.breaks, h)
      /\ reg'.stuck = reg.stuck /\ reg'.lost = reg.lost
      /\ \A k \in Hooks \ {h} : reg'.after[k] = reg.after[k]
      /\ reg'.chain = reg.chain
  BY ReplaceKeepsInv DEF RegistryInv
<1>2. /\ where \in [Hooks -> SUBSET (Gots \cup {ENTRY})] /\ reg.lost = {} /\ reg.stuck = {}
      /\ reg.breaks \in Seq(Hooks) /\ Distinct(reg.breaks)
      /\ \A k \in Hooks : where[k] \in {{}, Gots, {ENTRY}}
  BY DEF RegistryInv, Whole, HandlesInv, Good, Registry
<1>3. \A k \in Hooks : where'[k] = where[k] \/ (k = h /\ where'[k] = {ENTRY})
  BY <1>1, <1>2 DEF vars
<1>4. RegistryInv'
  <2>1. \A k \in Hooks : where'[k] \in {{}, Gots, {ENTRY}}
    BY <1>2, <1>3
  <2>2. reg'.lost = {} /\ reg'.stuck = {}
    BY <1>1, <1>2
  <2>3. HandlesInv' /\ Whole'
    BY <1>1, <2>1, <2>2 DEF Whole
  <2>. QED BY <2>3, HandlesMakeRegistry, PTL
<1>5. active \subseteq active' /\ active' \subseteq active \cup {h}
  BY <1>3 DEF active
<1>6. Replacing \subseteq Replacing' /\ Replacing' \subseteq Replacing \cup {h}
  <2>1. CASE UNCHANGED vars
    BY <2>1 DEF vars, Replacing
  <2>2. CASE reg'.breaks = Append(reg.breaks, h)
    <3>1. ToSet(Append(reg.breaks, h)) = ToSet(reg.breaks) \cup {h}
      BY <1>2, AppendedLast DEF Replace, Unused, Replacing
    <3>. QED BY <2>2, <3>1 DEF Replacing
  <2>. QED BY <1>1, <2>1, <2>2
<1>. QED BY <1>1, <1>4, <1>5, <1>6

LEMMA UnhookKeepsRegistry ==
    ASSUME RegistryInv, NEW h \in Hooks, Unhook(h)
    PROVE  /\ RegistryInv' /\ active' = active \ {h} /\ Replacing' = Replacing \ {h}
           /\ reg'.after = reg.after
<1>1. /\ HandlesInv' /\ where' = [where EXCEPT ![h] = @ \cap reg.lost]
      /\ reg'.after = reg.after /\ reg'.lost = reg.lost /\ reg'.stuck = reg.stuck
      /\ ToSet(reg'.breaks) = IF ENTRY \in where[h] THEN ToSet(reg.breaks) \ {h} ELSE ToSet(reg.breaks)
  BY UnhookKeepsInv DEF RegistryInv
<1>2. /\ where \in [Hooks -> SUBSET (Gots \cup {ENTRY})] /\ reg.lost = {} /\ reg.stuck = {}
      /\ Handled(ENTRY) = Replacing \ reg.stuck
      /\ \A k \in Hooks : where[k] \in {{}, Gots, {ENTRY}}
  BY DEF RegistryInv, Whole, HandlesInv, Good
<1>3. \A k \in Hooks : where'[k] = IF k = h THEN {} ELSE where[k]
  BY <1>1, <1>2
<1>4. RegistryInv'
  <2>1. \A k \in Hooks : where'[k] \in {{}, Gots, {ENTRY}}
    BY <1>2, <1>3
  <2>2. reg'.lost = {} /\ reg'.stuck = {}
    BY <1>1, <1>2
  <2>3. HandlesInv' /\ Whole'
    BY <1>1, <2>1, <2>2 DEF Whole
  <2>. QED BY <2>3, HandlesMakeRegistry, PTL
<1>5. active' = active \ {h}
  BY <1>3 DEF active
<1>6. Replacing' = Replacing \ {h}
  BY <1>1, <1>2 DEF Replacing, Handled
<1>. QED BY <1>1, <1>4, <1>5, <1>6

(* A guest that calls through the hooks, and hooks that install and remove   *)
(* others from inside their callbacks, change the registry in no other way.  *)
LEMMA GuestWaits ==
    ASSUME Run \/ GuestCall \/ EnterOriginal \/ GuestReturn \/ Resume \/ FinishRun
             \/ TrapFreed \/ TrapOn \/ TrapAfter
             \/ ReachEntry \/ EntryCallsOriginal \/ EntrySkips \/ EntryDone
             \/ OnCallsOriginal \/ OnSkips \/ AfterReturns \/ CallbackRaises
             \/ UNCHANGED hvars
    PROVE  UNCHANGED registered
<1>1. CASE Run \/ GuestCall \/ EnterOriginal \/ GuestReturn \/ Resume \/ FinishRun
  BY <1>1 DEF Run, GuestCall, EnterOriginal, GuestReturn, Resume, FinishRun
<1>2. CASE TrapFreed \/ TrapOn \/ TrapAfter
  BY <1>2 DEF TrapFreed, TrapOn, TrapAfter
<1>3. CASE ReachEntry \/ EntryCallsOriginal \/ EntrySkips \/ EntryDone
  BY <1>3 DEF ReachEntry, EntryCallsOriginal, EntrySkips, EntryDone
<1>4. CASE OnCallsOriginal \/ OnSkips \/ AfterReturns \/ CallbackRaises
  BY <1>4 DEF OnCallsOriginal, OnSkips, AfterReturns, CallbackRaises
<1>5. CASE UNCHANGED hvars
  BY <1>5 DEF hvars
<1>. QED BY <1>1, <1>2, <1>3, <1>4, <1>5

LEMMA GuestMovesRegistry == [HNext]_hvars => [Next]_vars
<1> SUFFICES ASSUME [HNext]_hvars PROVE [Next]_vars
  OBVIOUS
<1>1. CASE UNCHANGED registered
  BY <1>1 DEF registered, vars
<1>2. ASSUME NEW h \in Hooks, NEW post \in BOOLEAN, InstallHook(h, post) PROVE Next
  <2>1. Install(h, Gots, post) \/ Replace(h, post)
    BY <1>2 DEF InstallHook
  <2>. QED BY <2>1, SomeGots DEF Next
<1>3. ASSUME NEW h \in Hooks, RemoveHook(h) PROVE Next
  BY <1>3 DEF RemoveHook, Next
<1>. QED BY <1>1, <1>2, <1>3, GuestWaits DEF HNext

LEMMA GuestUsesRegistry == HInit /\ [][HNext]_hvars => Spec
<1>1. HInit => Init
  BY DEF HInit
<1>. QED BY <1>1, GuestMovesRegistry, PTL DEF Spec

LEMMA RegistryBegins == Init => RegistryInv
<1> SUFFICES ASSUME Init PROVE RegistryInv
  OBVIOUS
<1>1. HandlesInv
  BY HandlesBegin
<1>2. Whole
  BY DEF Init, EmptyRegistry, Whole
<1>. QED BY <1>1, <1>2, HandlesMakeRegistry

LEMMA RegistryInductive == RegistryInv /\ [HNext]_hvars => RegistryInv'
<1> SUFFICES ASSUME RegistryInv, [HNext]_hvars PROVE RegistryInv'
  OBVIOUS
<1>1. CASE UNCHANGED registered
  <2>1. reg' = reg /\ where' = where
    BY <1>1 DEF registered
  <2>2. HandlesInv'
    BY <2>1 DEF RegistryInv, HandlesInv, Replacing, Handled
  <2>3. Whole'
    BY <2>1 DEF RegistryInv, Whole
  <2>. QED BY <2>2, <2>3, HandlesMakeRegistry, PTL
<1>2. ASSUME NEW h \in Hooks, NEW post \in BOOLEAN, InstallHook(h, post) PROVE RegistryInv'
  BY <1>2, InstallKeepsRegistry, ReplaceKeepsRegistry DEF InstallHook
<1>3. ASSUME NEW h \in Hooks, RemoveHook(h) PROVE RegistryInv'
  BY <1>3, UnhookKeepsRegistry DEF RemoveHook
<1>. QED BY <1>1, <1>2, <1>3, GuestWaits DEF HNext

(* So all of this holds while guests run, too.                               *)
THEOREM HookedCallsKeepRegistry == HSpec => []SlotsOwned /\ []EntriesAgree /\ FailureLeavesNothing
<1>. QED BY GuestUsesRegistry, SlotsAlwaysOwned, EntriesAlwaysAgree, FailuresAlwaysLeaveNothing, PTL DEF HSpec

(***************************************************************************)
(* The trail of a run: the return addresses that hooks have put on their   *)
(* saved_lr and not taken off again, the last one last.  Each was put      *)
(* there in the call that the function at depth "depth" made, at place     *)
(* "pos" of the hook's saved_lr, and replaced in LR by the hook's second   *)
(* trampoline "slot".                                                      *)
(***************************************************************************)
Return == [hook : Hooks, slot : Slot, prev : Int, depth : Nat, pos : Nat]

Within(trail, depth) == \A i \in DOMAIN trail : trail[i].depth \in 1 .. depth

(* Where the function that was called at depth d returns to.                 *)
ReturnsTo(trail, d, a) ==
    \/ a = Site(d) /\ \A i \in DOMAIN trail : trail[i].depth # d
    \/ \E i \in DOMAIN trail : /\ trail[i].depth = d /\ a = trail[i].slot
                               /\ \A j \in DOMAIN trail : j > i => trail[j].depth # d

(* Calls are nested, and each address is what the one before it left in LR.  *)
Nested(trail) ==
    /\ \A i, j \in DOMAIN trail : i < j => trail[i].depth <= trail[j].depth
    /\ \A i \in DOMAIN trail :
          trail[i].prev = IF i > 1 /\ trail[i - 1].depth = trail[i].depth
                          THEN trail[i - 1].slot ELSE Site(trail[i].depth)

(* saved_lr of every hook is what was stale when the run began, then its     *)
(* part of the trail.                                                        *)
Rising(trail) ==
    \A i, j \in DOMAIN trail : i < j /\ trail[i].hook = trail[j].hook => trail[i].pos < trail[j].pos

Kept(trail, stale, saved) ==
    \A i \in DOMAIN trail : /\ trail[i].pos \in stale[trail[i].hook] + 1 .. Len(saved[trail[i].hook])
                            /\ saved[trail[i].hook][trail[i].pos] = trail[i].prev

Covered(trail, stale, saved) ==
    \A h \in Hooks : /\ stale[h] <= Len(saved[h])
                     /\ \A p \in stale[h] + 1 .. Len(saved[h]) :
                           \E i \in DOMAIN trail : trail[i].hook = h /\ trail[i].pos = p

Saved(trail, stale, saved) ==
    Rising(trail) /\ Kept(trail, stale, saved) /\ Covered(trail, stale, saved)

LEMMA TrailFacts ==
    ASSUME NEW trail \in Seq(Return)
    PROVE  /\ DOMAIN trail = 1 .. Len(trail) /\ Len(trail) \in Nat
           /\ \A i \in 1 .. Len(trail) :
                 /\ trail[i] \in Return /\ trail[i].hook \in Hooks /\ trail[i].slot \in Slot
                 /\ trail[i].prev \in Int /\ trail[i].depth \in Nat /\ trail[i].pos \in Nat
<1>1. DOMAIN trail = 1 .. Len(trail) /\ Len(trail) \in Nat /\ \A i \in 1 .. Len(trail) : trail[i] \in Return
  OBVIOUS
<1>2. \A x \in Return : x.hook \in Hooks /\ x.slot \in Slot /\ x.prev \in Int /\ x.depth \in Nat /\ x.pos \in Nat
  BY DEF Return
<1>. QED BY <1>1, <1>2

LEMMA PushNested ==
    ASSUME NEW trail \in Seq(Return), Nested(trail), NEW depth \in Nat, Within(trail, depth),
           NEW x \in Return, x.depth = depth, depth > 0, ReturnsTo(trail, depth, x.prev),
           NEW t, t = Append(trail, x)
    PROVE  /\ t \in Seq(Return) /\ Nested(t) /\ Within(t, depth)
           /\ ReturnsTo(t, depth, x.slot)
           /\ \A d \in Nat : \A a : d < depth /\ ReturnsTo(trail, d, a) => ReturnsTo(t, d, a)
<1>a. PICK n : n = Len(trail)
  OBVIOUS
<1>1. /\ DOMAIN trail = 1 .. n /\ n \in Nat
      /\ \A i \in 1 .. n : trail[i] \in Return /\ trail[i].depth \in Nat /\ trail[i].depth \in 1 .. depth
  BY <1>a, TrailFacts DEF Within
<1>2. /\ t \in Seq(Return) /\ DOMAIN t = 1 .. n + 1 /\ t[n + 1] = x
      /\ \A i \in 1 .. n : t[i] = trail[i]
  BY <1>1, <1>a, AppendProperties
<1>3. Within(t, depth)
  <2>1. ASSUME NEW i \in 1 .. n + 1 PROVE t[i].depth \in 1 .. depth
    BY <1>1, <1>2
  <2>. QED BY <1>2, <2>1 DEF Within
<1>4. ReturnsTo(t, depth, x.slot)
  <2>1. n + 1 \in DOMAIN t /\ \A j \in DOMAIN t : ~(j > n + 1)
    BY <1>1, <1>2
  <2>. QED BY <1>2, <2>1 DEF ReturnsTo
<1>5. ASSUME NEW d \in Nat, NEW a, d < depth, ReturnsTo(trail, d, a) PROVE ReturnsTo(t, d, a)
  <2>1. d # depth
    BY <1>5
  <2>2. CASE a = Site(d) /\ \A i \in DOMAIN trail : trail[i].depth # d
    <3>1. \A i \in 1 .. n + 1 : t[i].depth # d
      BY <1>1, <1>2, <2>1, <2>2
    <3>. QED BY <1>2, <2>2, <3>1 DEF ReturnsTo
  <2>3. ASSUME NEW i \in DOMAIN trail, trail[i].depth = d, a = trail[i].slot,
               \A j \in DOMAIN trail : j > i => trail[j].depth # d
        PROVE  ReturnsTo(t, d, a)
    <3>1. i \in DOMAIN t /\ t[i] = trail[i]
      BY <1>1, <1>2
    <3>2. ASSUME NEW j \in 1 .. n + 1, j > i PROVE t[j].depth # d
      BY <1>1, <1>2, <2>1, <2>3, <3>2
    <3>. QED BY <1>2, <2>3, <3>1, <3>2 DEF ReturnsTo
  <2>. QED BY <1>5, <2>2, <2>3 DEF ReturnsTo
<1>6. ASSUME NEW i \in 1 .. n + 1, NEW j \in 1 .. n + 1, i < j PROVE t[i].depth <= t[j].depth
  <2>1. i \in 1 .. n /\ t[i] = trail[i]
    BY <1>1, <1>2, <1>6
  <2>2. CASE j \in 1 .. n
    <3>1. t[j] = trail[j]
      BY <1>2, <2>2
    <3>. QED BY <1>1, <1>6, <2>1, <2>2, <3>1 DEF Nested
  <2>3. CASE j = n + 1
    BY <1>1, <1>2, <2>1, <2>3
  <2>. QED BY <1>1, <2>2, <2>3
<1>7. ASSUME NEW i \in 1 .. n + 1
      PROVE  t[i].prev = IF i > 1 /\ t[i - 1].depth = t[i].depth THEN t[i - 1].slot ELSE Site(t[i].depth)
  <2>1. CASE i \in 1 .. n
    <3>1. t[i] = trail[i] /\ (i > 1 => t[i - 1] = trail[i - 1])
      BY <1>1, <1>2, <2>1
    <3>. QED BY <1>1, <2>1, <3>1 DEF Nested
  <2>2. CASE i = n + 1
    <3>1. t[i] = x /\ (i > 1 => n \in 1 .. n /\ t[i - 1] = trail[n])
      BY <1>1, <1>2, <2>2
    <3>2. CASE \A k \in DOMAIN trail : trail[k].depth # depth
      <4>1. x.prev = Site(depth)
        BY <3>2 DEF ReturnsTo
      <4>. QED BY <1>1, <2>2, <3>1, <3>2, <4>1
    <3>3. CASE \E k \in DOMAIN trail : trail[k].depth = depth
      <4>1. PICK k \in 1 .. n : /\ trail[k].depth = depth /\ x.prev = trail[k].slot
                                /\ \A j \in 1 .. n : j > k => trail[j].depth # depth
        BY <1>1, <3>3 DEF ReturnsTo
      <4>2. n \in 1 .. n /\ i > 1
        BY <1>1, <2>2, <4>1
      <4>3. k < n => trail[k].depth <= trail[n].depth
        BY <1>1, <4>1, <4>2 DEF Nested
      <4>4. k = n
        <5>1. trail[n].depth <= depth /\ trail[n].depth \in Nat
          BY <1>1, <4>2
        <5>2. k < n => trail[n].depth = depth
          BY <4>1, <4>3, <5>1
        <5>. QED BY <1>1, <4>1, <4>2, <5>2
      <4>. QED BY <3>1, <4>1, <4>2, <4>4
    <3>. QED BY <3>2, <3>3
  <2>. QED BY <1>1, <2>1, <2>2
<1>8. Nested(t)
  BY <1>2, <1>6, <1>7 DEF Nested
<1>. QED BY <1>2, <1>3, <1>4, <1>5, <1>8

LEMMA TopReturn ==
    ASSUME NEW trail \in Seq(Return), Nested(trail), NEW depth \in Nat, Within(trail, depth), depth > 0,
           NEW a \in Int, ReturnsTo(trail, depth, a)
    PROVE  /\ a < 0 => a = Site(depth)
           /\ a >= 0 => /\ trail # <<>> /\ Last(trail).depth = depth /\ Last(trail).slot = a /\ a > 0
<1>a. PICK n : n = Len(trail)
  OBVIOUS
<1>1. /\ DOMAIN trail = 1 .. n /\ n \in Nat
      /\ \A i \in 1 .. n : trail[i] \in Return /\ trail[i].depth \in 1 .. depth /\ trail[i].slot \in Slot
  BY <1>a, TrailFacts DEF Within
<1>2. CASE a = Site(depth)
  <2>1. a < 0
    BY <1>2 DEF Site
  <2>. QED BY <1>2, <2>1
<1>3. ASSUME NEW k \in 1 .. n, trail[k].depth = depth, a = trail[k].slot,
             \A j \in 1 .. n : j > k => trail[j].depth # depth
      PROVE  a > 0 /\ trail # <<>> /\ Last(trail).depth = depth /\ Last(trail).slot = a
  <2>1. n \in 1 .. n
    BY <1>1, <1>3
  <2>2. k < n => trail[k].depth <= trail[n].depth
    BY <1>1, <1>3, <2>1 DEF Nested
  <2>3. k = n
    <3>1. trail[n].depth <= depth /\ trail[n].depth \in Nat
      BY <1>1, <2>1
    <3>2. k < n => trail[n].depth = depth
      BY <1>3, <2>2, <3>1
    <3>. QED BY <1>1, <1>3, <2>1, <3>2
  <2>4. a > 0
    BY <1>1, <1>3, GotHooksAssumption DEF Slot
  <2>. QED BY <1>1, <1>3, <1>a, <2>1, <2>3, <2>4 DEF Last
<1>. QED BY <1>1, <1>2, <1>3 DEF ReturnsTo

LEMMA PopNested ==
    ASSUME NEW trail \in Seq(Return), Nested(trail), NEW depth \in Nat, Within(trail, depth),
           trail # <<>>, Last(trail).depth = depth, NEW t, t = Front(trail)
    PROVE  /\ t \in Seq(Return) /\ Nested(t) /\ Within(t, depth)
           /\ ReturnsTo(t, depth, Last(trail).prev)
           /\ \A d \in Nat : \A a : d < depth /\ ReturnsTo(trail, d, a) => ReturnsTo(t, d, a)
<1>a. PICK n : n = Len(trail)
  OBVIOUS
<1>b. PICK x : x = Last(trail)
  OBVIOUS
<1>1. /\ DOMAIN trail = 1 .. n /\ n \in Nat /\ n > 0 /\ trail[n] = x
      /\ \A i \in 1 .. n : trail[i] \in Return /\ trail[i].depth \in Nat /\ trail[i].depth \in 1 .. depth
  BY <1>a, <1>b, TrailFacts DEF Within, Last
<1>2. /\ t \in Seq(Return) /\ DOMAIN t = 1 .. n - 1
      /\ \A i \in 1 .. n - 1 : t[i] = trail[i]
  <2>1. t = SubSeq(trail, 1, n - 1) /\ \A i \in 1 .. n - 1 : trail[i] \in Return
    BY <1>1, <1>a DEF Front
  <2>2. /\ t \in Seq(Return) /\ Len(t) = (IF 1 <= n - 1 THEN n - 1 - 1 + 1 ELSE 0)
        /\ \A i \in 1 .. n - 1 - 1 + 1 : t[i] = trail[1 + i - 1]
    BY <1>1, <2>1, SubSeqProperties
  <2>3. Len(t) = n - 1
    BY <1>1, <2>2
  <2>4. ASSUME NEW i \in 1 .. n - 1 PROVE t[i] = trail[i]
    <3>1. i \in 1 .. n - 1 - 1 + 1 /\ 1 + i - 1 = i
      BY <1>1
    <3>. QED BY <2>2, <3>1
  <2>. QED BY <2>2, <2>3, <2>4
<1>3. Within(t, depth)
  BY <1>1, <1>2 DEF Within
<1>4. Nested(t)
  <2>1. ASSUME NEW i \in 1 .. n - 1, NEW j \in 1 .. n - 1, i < j PROVE t[i].depth <= t[j].depth
    <3>1. i \in 1 .. n /\ j \in 1 .. n /\ t[i] = trail[i] /\ t[j] = trail[j]
      BY <1>1, <1>2
    <3>. QED BY <1>1, <2>1, <3>1 DEF Nested
  <2>2. ASSUME NEW i \in 1 .. n - 1
        PROVE  t[i].prev = IF i > 1 /\ t[i - 1].depth = t[i].depth THEN t[i - 1].slot ELSE Site(t[i].depth)
    <3>1. i \in 1 .. n /\ t[i] = trail[i] /\ (i > 1 => t[i - 1] = trail[i - 1])
      BY <1>1, <1>2
    <3>. QED BY <1>1, <3>1 DEF Nested
  <2>. QED BY <1>2, <2>1, <2>2 DEF Nested
<1>5. ReturnsTo(t, depth, x.prev)
  <2>1. x.prev = IF n > 1 /\ trail[n - 1].depth = depth THEN trail[n - 1].slot ELSE Site(depth)
    BY <1>1, <1>b DEF Nested
  <2>2. CASE n > 1 /\ trail[n - 1].depth = depth
    <3>1. n - 1 \in 1 .. n - 1 /\ t[n - 1] = trail[n - 1] /\ \A j \in 1 .. n - 1 : ~(j > n - 1)
      BY <1>1, <1>2, <2>2
    <3>. QED BY <1>2, <2>1, <2>2, <3>1 DEF ReturnsTo
  <2>3. CASE ~(n > 1 /\ trail[n - 1].depth = depth)
    <3>1. ASSUME NEW i \in 1 .. n - 1 PROVE t[i].depth # depth
      <4>1. n - 1 \in 1 .. n /\ i \in 1 .. n /\ n > 1
        BY <1>1
      <4>2. trail[n - 1].depth # depth /\ trail[n - 1].depth <= depth /\ trail[n - 1].depth \in Nat
        BY <1>1, <2>3, <4>1
      <4>3. i < n - 1 => trail[i].depth <= trail[n - 1].depth
        BY <1>1, <4>1 DEF Nested
      <4>4. trail[i].depth <= trail[n - 1].depth
        BY <1>1, <4>1, <4>2, <4>3
      <4>. QED BY <1>1, <1>2, <4>1, <4>2, <4>4
    <3>. QED BY <1>2, <2>1, <2>3, <3>1 DEF ReturnsTo
  <2>. QED BY <2>2, <2>3
<1>6. ASSUME NEW d \in Nat, NEW a, d < depth, ReturnsTo(trail, d, a) PROVE ReturnsTo(t, d, a)
  <2>1. d # depth
    BY <1>6
  <2>2. CASE a = Site(d) /\ \A i \in DOMAIN trail : trail[i].depth # d
    BY <1>1, <1>2, <2>2 DEF ReturnsTo
  <2>3. ASSUME NEW i \in DOMAIN trail, trail[i].depth = d, a = trail[i].slot,
               \A j \in DOMAIN trail : j > i => trail[j].depth # d
        PROVE  ReturnsTo(t, d, a)
    <3>1. i # n
      BY <1>1, <1>b, <2>1, <2>3
    <3>2. i \in DOMAIN t /\ t[i] = trail[i]
      BY <1>1, <1>2, <3>1
    <3>3. ASSUME NEW j \in 1 .. n - 1, j > i PROVE t[j].depth # d
      <4>1. j \in DOMAIN trail /\ t[j] = trail[j]
        BY <1>1, <1>2
      <4>. QED BY <2>3, <3>3, <4>1
    <3>. QED BY <1>2, <2>3, <3>2, <3>3 DEF ReturnsTo
  <2>. QED BY <1>6, <2>2, <2>3 DEF ReturnsTo
<1>. QED BY <1>2, <1>3, <1>4, <1>5, <1>6, <1>b

(***************************************************************************)
(* What registrations and removals leave of second trampolines.            *)
(***************************************************************************)
(* The trampoline s is a second trampoline of h.                             *)
AfterOf(t, s, h) == \E g \in Gots \cup {ENTRY} : Has(t, s, After(h, g))

LEMMA AfterOwner ==
    ASSUME NEW t, NEW s, NEW h \in Hooks, NEW k \in Hooks, AfterOf(t, s, h), AfterOf(t, s, k)
    PROVE  h = k
<1>1. PICK g \in Gots \cup {ENTRY} : Has(t, s, After(h, g))
  BY DEF AfterOf
<1>2. PICK m \in Gots \cup {ENTRY} : Has(t, s, After(k, m))
  BY DEF AfterOf
<1>3. After(h, g) = After(k, m)
  BY <1>1, <1>2 DEF Has
<1>. QED BY <1>3 DEF After

LEMMA OwnsAfter ==
    ASSUME NEW r, Good(r), NEW h \in Hooks, NEW g \in Gots \cup {ENTRY}, r.after[h][g] # NONE,
           IF g = ENTRY THEN h \in ToSet(r.breaks) ELSE h \in Chained(r, g)
    PROVE  AfterOf(r.trap, r.after[h][g], h) /\ r.after[h][g] \in Slot
<1>a. PICK x : x = After(h, g)
  OBVIOUS
<1>b. PICK s : s = r.after[h][g]
  OBVIOUS
<1>1. x \in Handlers /\ x.kind = "after" /\ x.hook = h /\ x.got = g
  BY <1>a, HandlerFacts
<1>2. s \in Slot /\ r.stuck = {}
  BY <1>b DEF Good, Registry
<1>3. Claimed(r, s, x)
  BY <1>1, <1>2, <1>b DEF Claimed, Live, SlotOf
<1>4. Has(r.trap, s, x)
  BY <1>1, <1>2, <1>3 DEF Good, Exact
<1>. QED BY <1>2, <1>4, <1>a, <1>b DEF AfterOf

LEMMA TakenSlot ==
    ASSUME NEW r, Good(r), NEW s, NEW x \in Handlers, Has(r.trap, s, x)
    PROVE  s \in Slot /\ Live(r, x) /\ s = SlotOf(r, x) /\ Allocated(r.trap, s)
<1>1. s \in Slot
  BY GotHooksAssumption DEF Has, Good, SoundTable, Table, Slot
<1>2. Claimed(r, s, x)
  BY <1>1 DEF Good, Exact
<1>3. Allocated(r.trap, s)
  BY <1>1, GotHooksAssumption DEF Allocated, Has
<1>. QED BY <1>1, <1>2, <1>3 DEF Claimed

LEMMA TrampolineTraps ==
    ASSUME NEW r, Good(r), NEW g \in Gots, NEW h \in Chained(r, g)
    PROVE  h \in Hooks /\ r.tramp[h][g] \in Slot /\ Has(r.trap, r.tramp[h][g], On(h, g))
<1>a. PICK x : x = On(h, g)
  OBVIOUS
<1>b. PICK s : s = r.tramp[h][g]
  OBVIOUS
<1>0. h \in Hooks
  BY DEF Good, Registry, Chained, ToSet
<1>1. x \in Handlers /\ x.kind = "on" /\ x.hook = h /\ x.got = g /\ g # ENTRY
  BY <1>0, <1>a, HandlerFacts
<1>2. s \in Slot
  BY <1>0, <1>b DEF Good, Registry, Exact
<1>3. Claimed(r, s, x)
  BY <1>1, <1>b DEF Claimed, Live, SlotOf
<1>4. Has(r.trap, s, x)
  BY <1>1, <1>2, <1>3 DEF Good, Exact
<1>. QED BY <1>0, <1>2, <1>4, <1>a, <1>b

(* A second trampoline that a hook has after a change it had before.         *)
LEMMA AfterKept ==
    ASSUME NEW r, Good(r), NEW q, Good(q), NEW k \in Hooks, NEW s, AfterOf(q.trap, s, k),
           q.after[k] = r.after[k], k \in ToSet(q.breaks) => k \in ToSet(r.breaks),
           \A g \in Gots : k \in Chained(q, g) => k \in Chained(r, g)
    PROVE  AfterOf(r.trap, s, k)
<1>1. PICK g \in Gots \cup {ENTRY} : Has(q.trap, s, After(k, g))
  BY DEF AfterOf
<1>a. PICK x : x = After(k, g)
  OBVIOUS
<1>2. x \in Handlers /\ x.kind = "after" /\ x.hook = k /\ x.got = g /\ ENTRY \notin Gots
  BY <1>a, HandlerFacts
<1>3. s \in Slot /\ Live(q, x) /\ s = q.after[k][g]
  BY <1>1, <1>2, <1>a, TakenSlot DEF SlotOf
<1>4. s # NONE
  BY <1>3, HandlerFacts
<1>5. Claimed(r, s, x)
  <2>1. r.stuck = {} /\ q.stuck = {}
    BY DEF Good
  <2>. QED BY <1>2, <1>3, <1>4, <2>1 DEF Claimed, Live, SlotOf
<1>6. Has(r.trap, s, x)
  BY <1>2, <1>3, <1>5 DEF Good, Exact
<1>. QED BY <1>6, <1>a DEF AfterOf

LEMMA InstallChange ==
    ASSUME RegistryInv, NEW h \in Hooks, NEW post \in BOOLEAN, h \notin active, InstallHook(h, post)
    PROVE  /\ RegistryInv'
           /\ \A k \in Hooks \ {h} : reg'.after[k] = reg.after[k]
           /\ \A k \in Hooks \ {h} : \A s : AfterOf(reg'.trap, s, k) <=> AfterOf(reg.trap, s, k)
           /\ active \subseteq active' /\ active' \subseteq active \cup {h}
           /\ Replacing \subseteq Replacing' /\ Replacing' \subseteq Replacing \cup {h}
           /\ \A g \in Gots : Chained(reg, g) \subseteq Chained(reg', g) /\ Chained(reg', g) \subseteq Chained(reg, g) \cup {h}
           /\ \A g \in Gots : reg'.chain[g] \in {reg.chain[g], Append(reg.chain[g], h)}
<1>1. /\ RegistryInv'
      /\ active \subseteq active' /\ active' \subseteq active \cup {h}
      /\ Replacing \subseteq Replacing' /\ Replacing' \subseteq Replacing \cup {h}
      /\ \A k \in Hooks \ {h} : reg'.after[k] = reg.after[k]
      /\ \A g \in Gots : reg'.chain[g] \in {reg.chain[g], Append(reg.chain[g], h)}
  <2>1. CASE Install(h, Gots, post)
    BY <2>1, InstallKeepsRegistry
  <2>2. CASE Replace(h, post)
    BY <2>2, ReplaceKeepsRegistry
  <2>. QED BY <2>1, <2>2 DEF InstallHook
<1>2. active \subseteq active' /\ active' \subseteq active \cup {h}
  BY <1>1
<1>3. \A g \in Gots : Chained(reg, g) = active \ Replacing /\ Chained(reg', g) = active' \ Replacing'
  BY <1>1 DEF RegistryInv, Replacing
<1>4. \A g \in Gots : Chained(reg, g) \subseteq Chained(reg', g) /\ Chained(reg', g) \subseteq Chained(reg, g) \cup {h}
  BY <1>1, <1>2, <1>3
<1>a. PICK r : r = reg
  OBVIOUS
<1>b. PICK q : q = reg'
  OBVIOUS
<1>5. Good(r) /\ Good(q) /\ Replacing = ToSet(r.breaks) /\ Replacing' = ToSet(q.breaks)
  BY <1>1, <1>a, <1>b DEF RegistryInv, Replacing
<1>6. ASSUME NEW k \in Hooks \ {h}, NEW s
      PROVE  AfterOf(q.trap, s, k) <=> AfterOf(r.trap, s, k)
  <2>1. q.after[k] = r.after[k] /\ (k \in ToSet(q.breaks) <=> k \in ToSet(r.breaks))
    BY <1>1, <1>5, <1>a, <1>b
  <2>2. \A g \in Gots : k \in Chained(q, g) <=> k \in Chained(r, g)
    BY <1>4, <1>a, <1>b
  <2>. QED BY <1>5, <2>1, <2>2, AfterKept
<1>. QED BY <1>1, <1>2, <1>4, <1>6, <1>a, <1>b

LEMMA RemoveChange ==
    ASSUME RegistryInv, NEW h \in Hooks, RemoveHook(h)
    PROVE  /\ RegistryInv' /\ reg'.after = reg.after /\ active' \subseteq active
           /\ \A k \in Hooks : \A s : AfterOf(reg'.trap, s, k) => AfterOf(reg.trap, s, k)
           /\ Replacing' \subseteq Replacing
           /\ \A g \in Gots : Chained(reg', g) \subseteq Chained(reg, g)
<1>1. /\ RegistryInv' /\ active' = active \ {h}
      /\ Replacing' = Replacing \ {h} /\ reg'.after = reg.after
  BY UnhookKeepsRegistry DEF RemoveHook
<1>2. \A g \in Gots : Chained(reg, g) = active \ Replacing /\ Chained(reg', g) = active' \ Replacing'
  BY <1>1 DEF RegistryInv, Replacing
<1>3. \A g \in Gots : Chained(reg', g) \subseteq Chained(reg, g)
  BY <1>1, <1>2
<1>a. PICK r : r = reg
  OBVIOUS
<1>b. PICK q : q = reg'
  OBVIOUS
<1>4. Good(r) /\ Good(q) /\ Replacing = ToSet(r.breaks) /\ Replacing' = ToSet(q.breaks)
  BY <1>1, <1>a, <1>b DEF RegistryInv, Replacing
<1>5. ASSUME NEW k \in Hooks, NEW s, AfterOf(q.trap, s, k)
      PROVE  AfterOf(r.trap, s, k)
  <2>1. q.after[k] = r.after[k] /\ (k \in ToSet(q.breaks) => k \in ToSet(r.breaks))
    BY <1>1, <1>4, <1>a, <1>b
  <2>2. \A g \in Gots : k \in Chained(q, g) => k \in Chained(r, g)
    BY <1>3, <1>a, <1>b
  <2>. QED BY <1>4, <1>5, <2>1, <2>2, AfterKept
<1>. QED BY <1>1, <1>3, <1>5, <1>a, <1>b

(***************************************************************************)
(* Where the guest and the callbacks are.                                  *)
(***************************************************************************)
Basics ==
    /\ savedLr \in [Hooks -> Seq(Int)]
    /\ fresh \subseteq Hooks /\ fresh \cap active = {}
    /\ dropped \subseteq Hooks /\ dropped \cap (fresh \cup Chained(reg, G)) = {}
    /\ \A h \in fresh : savedLr[h] = <<>>
    /\ mode \in {"idle", "guest", "jump", "on", "entry", "after"}
    /\ lr \in Int /\ pc \in Int /\ frames \in Seq(Int) /\ todo \in Seq(Hooks)
    /\ mode = "jump" => at \in Int
    /\ mode = "on" => at \in Hooks \ fresh
    /\ mode = "entry" => ToSet(todo) \cap fresh = {}
    /\ mode # "idle" => frames # <<>>
    /\ torn \in BOOLEAN /\ skewed \in BOOLEAN

(* A hook that has come by the second trampoline of another, which was       *)
(* removed while it runs, has not used it.                                   *)
Unspent(t, saved, s, k) == \A h \in Hooks : AfterOf(t, s, h) /\ h # k => saved[h] = <<>>

OnSound ==
    mode = "on" =>
        /\ Unspent(reg.trap, savedLr, reg.after[at][G], at)
        /\ ~torn => at \in Chained(reg, G)

EntrySound ==
    mode = "entry" =>
        /\ \A k \in ToSet(todo) :
              /\ Unspent(reg.trap, savedLr, reg.after[k][ENTRY], k)
              /\ \A h \in Hooks : AfterOf(reg.trap, reg.after[k][ENTRY], h) /\ h # k => h \notin ToSet(todo)
        /\ ~torn => ToSet(todo) \subseteq Replacing

JumpSound ==
    mode = "jump" /\ ~skewed =>
        at = lr \/ at = ORIGINAL \/ \E h \in Chained(reg, G) : at = reg.tramp[h][G]

Aimed == OnSound /\ EntrySound /\ JumpSound

LEMMA FirstGot == G \in Gots /\ G \in Gots \cup {ENTRY} /\ G # ENTRY
<1>1. Len(GotSeq) # 0
  BY GotHooksAssumption, HookedCallsAssumption
<1>2. 1 \in 1 .. Len(GotSeq)
  BY <1>1, GotsListed
<1>. QED BY <1>2, GotsListed, HandlerFacts DEF G

LEMMA FrontFacts ==
    ASSUME NEW S, NEW s \in Seq(S), s # <<>>
    PROVE  /\ Front(s) \in Seq(S) /\ Len(Front(s)) = Len(s) - 1 /\ Len(s) \in Nat \ {0}
           /\ \A i \in 1 .. Len(s) - 1 : Front(s)[i] = s[i]
           /\ Last(s) = s[Len(s)] /\ Last(s) \in S
           /\ Len(s) > 1 => Front(s) # <<>>
<1>a. PICK t : t = Front(s)
  OBVIOUS
<1>b. PICK n : n = Len(s)
  OBVIOUS
<1>1. n \in Nat \ {0} /\ Last(s) = s[n] /\ Last(s) \in S
  BY <1>b DEF Last
<1>2. t = SubSeq(s, 1, n - 1) /\ \A i \in 1 .. n - 1 : s[i] \in S
  BY <1>1, <1>a, <1>b DEF Front
<1>3. /\ t \in Seq(S) /\ Len(t) = (IF 1 <= n - 1 THEN n - 1 - 1 + 1 ELSE 0)
      /\ \A i \in 1 .. n - 1 - 1 + 1 : t[i] = s[1 + i - 1]
  BY <1>1, <1>2, SubSeqProperties
<1>4. Len(t) = n - 1
  BY <1>1, <1>3
<1>5. ASSUME NEW i \in 1 .. n - 1 PROVE t[i] = s[i]
  <2>1. i \in 1 .. n - 1 - 1 + 1 /\ 1 + i - 1 = i
    BY <1>1
  <2>. QED BY <1>3, <2>1
<1>6. n > 1 => t # <<>>
  BY <1>1, <1>3, <1>4
<1>. QED BY <1>1, <1>3, <1>4, <1>5, <1>6, <1>a, <1>b

LEMMA TailFacts ==
    ASSUME NEW S, NEW s \in Seq(S), s # <<>>
    PROVE  Head(s) \in ToSet(s) /\ Head(s) \in S /\ Tail(s) \in Seq(S) /\ ToSet(Tail(s)) \subseteq ToSet(s)
<1>1. /\ Len(s) \in Nat \ {0} /\ Head(s) = s[1] /\ 1 \in DOMAIN s
      /\ Tail(s) \in Seq(S) /\ Len(Tail(s)) = Len(s) - 1
      /\ \A i \in 1 .. Len(Tail(s)) : Tail(s)[i] = s[i + 1] /\ i + 1 \in DOMAIN s
  BY HeadTailProperties
<1>. QED BY <1>1 DEF ToSet

LEMMA NoAfterNone ==
    ASSUME NEW r, Good(r), NEW h \in Hooks
    PROVE  ~AfterOf(r.trap, NONE, h)
<1> SUFFICES ASSUME NEW g \in Gots \cup {ENTRY}, Has(r.trap, NONE, After(h, g)) PROVE FALSE
  BY DEF AfterOf
<1>1. After(h, g) \in Handlers
  BY HandlerFacts
<1>. QED BY <1>1, TakenSlot, HandlerFacts

(* A run that ends early.                                                    *)
LEMMA AbortAims ==
    ASSUME Basics, NEW why, Abort(why), UNCHANGED <<registered, savedLr, past>>
    PROVE  Basics' /\ Aimed'
<1>1. <<>> \in Seq(Int) /\ <<>> \in Seq(Hooks) /\ 0 \in Int
  OBVIOUS
<1>. QED BY <1>1 DEF Abort, Basics, Aimed, OnSound, EntrySound, JumpSound, registered, active, past

(* Steps that neither register nor remove a hook nor touch what they keep.   *)
LEMMA NewestFacts ==
    ASSUME NEW r, Good(r), NEW g \in Gots
    PROVE  /\ r.got[g] \in Int
           /\ r.got[g] = ORIGINAL \/ \E h \in Chained(r, g) : r.got[g] = r.tramp[h][g]
<1>1. r.got[g] \in Slot \cup {ORIGINAL} /\ r.got[g] = Newest(r, g) /\ r.chain[g] \in Seq(Hooks)
  BY DEF Good, Registry
<1>2. r.chain[g] # <<>> => Last(r.chain[g]) \in Chained(r, g)
  <2>1. r.chain[g] # <<>> => Len(r.chain[g]) \in DOMAIN r.chain[g]
    BY <1>1
  <2>. QED BY <2>1 DEF Last, Chained, ToSet
<1>3. r.got[g] \in Int
  BY <1>1, GotHooksAssumption DEF Slot, ORIGINAL
<1>. QED BY <1>1, <1>2, <1>3 DEF Newest

LEMMA GuestAims ==
    ASSUME RegistryInv, Basics, Aimed,
           Run \/ GuestCall \/ EnterOriginal \/ GuestReturn \/ Resume \/ FinishRun \/ TrapFreed
    PROVE  Basics' /\ Aimed'
<1>1. CASE Run
  <2>1. <<0>> \in Seq(Int) /\ <<0>> # <<>>
    OBVIOUS
  <2>. QED BY <1>1, <2>1 DEF Run, Basics, Aimed, OnSound, EntrySound, JumpSound, registered, active, entry
<1>2. CASE GuestCall
  <2>1. /\ reg' = reg /\ active' = active /\ fresh' = fresh /\ dropped' = dropped /\ savedLr' = savedLr
        /\ mode = "guest" /\ mode' = "jump" /\ at' = reg.got[G] /\ lr' = Site(Len(frames))
        /\ todo' = todo /\ pc' = pc /\ frames' = frames /\ torn' = torn /\ skewed' = skewed
    BY <1>2 DEF GuestCall, Jump, registered, active, entry, past
  <2>2. reg.got[G] \in Int /\ (reg.got[G] = ORIGINAL \/ \E h \in Chained(reg, G) : reg.got[G] = reg.tramp[h][G])
    BY FirstGot, NewestFacts DEF RegistryInv
  <2>3. Site(Len(frames)) \in Int
    BY DEF Site, Basics
  <2>4. Basics'
    BY <2>1, <2>2, <2>3 DEF Basics
  <2>. QED BY <2>1, <2>2, <2>4 DEF Aimed, OnSound, EntrySound, JumpSound
<1>3. CASE EnterOriginal
  <2>1. /\ reg' = reg /\ active' = active /\ fresh' = fresh /\ dropped' = dropped /\ savedLr' = savedLr
        /\ mode = "jump" /\ mode' = "guest" /\ lr' = lr /\ frames' = Append(frames, lr)
        /\ todo' = todo /\ pc' = pc /\ torn' = torn /\ skewed' = skewed
    BY <1>3 DEF EnterOriginal, EnterBody, registered, active, entry, past
  <2>2. Append(frames, lr) \in Seq(Int) /\ Append(frames, lr) # <<>>
    <3>1. frames \in Seq(Int) /\ lr \in Int
      BY DEF Basics
    <3>. QED BY <3>1, AppendProperties
  <2>3. Basics'
    BY <2>1, <2>2 DEF Basics
  <2>. QED BY <2>1, <2>3 DEF Aimed, OnSound, EntrySound, JumpSound
<1>4. CASE GuestReturn
  <2>1. /\ reg' = reg /\ active' = active /\ fresh' = fresh /\ dropped' = dropped /\ savedLr' = savedLr
        /\ mode = "guest" /\ Len(frames) > 1 /\ mode' = "jump" /\ lr' = Last(frames) /\ at' = Last(frames)
        /\ frames' = Front(frames) /\ todo' = todo /\ pc' = pc /\ torn' = torn /\ skewed' = skewed
    BY <1>4 DEF GuestReturn, Jump, registered, active, entry, past
  <2>2. frames \in Seq(Int)
    BY DEF Basics
  <2>3. Last(frames) \in Int /\ Front(frames) \in Seq(Int) /\ Front(frames) # <<>>
    BY <2>1, <2>2, FrontFacts
  <2>4. Basics'
    BY <2>1, <2>3 DEF Basics
  <2>. QED BY <2>1, <2>4 DEF Aimed, OnSound, EntrySound, JumpSound
<1>5. CASE Resume
  BY <1>5 DEF Resume, Basics, Aimed, OnSound, EntrySound, JumpSound, registered, active, entry, past
<1>6. CASE FinishRun
  <2>1. <<>> \in Seq(Int) /\ 0 \in Int
    OBVIOUS
  <2>. QED BY <1>6, <2>1 DEF FinishRun, Basics, Aimed, OnSound, EntrySound, JumpSound, registered, active, entry, past
<1>7. CASE TrapFreed
  BY <1>7, AbortAims DEF TrapFreed
<1>. QED BY <1>1, <1>2, <1>3, <1>4, <1>5, <1>6, <1>7

LEMMA TrapAims ==
    ASSUME RegistryInv, Basics, Aimed, TrapOn \/ TrapAfter \/ ReachEntry
    PROVE  Basics' /\ Aimed'
<1>1. CASE TrapOn
  <2>a. PICK x : x = Handler
    OBVIOUS
  <2>1. /\ reg' = reg /\ active' = active /\ fresh' = fresh /\ dropped' = dropped /\ savedLr' = savedLr
        /\ mode = "jump" /\ mode' = "on" /\ at' = x.hook /\ lr' = lr /\ x.kind = "on" /\ Allocated(reg.trap, at)
        /\ frames' = frames /\ todo' = todo /\ pc' = pc /\ torn' = torn /\ skewed' = skewed
    BY <1>1, <2>a DEF TrapOn, registered, active, entry, past
  <2>2. x.hook \in active /\ x.hook \in Hooks /\ x.hook \in Chained(reg, G)
    <3>1. Good(reg) /\ active \subseteq Hooks /\ \A g \in Gots : Chained(reg, g) = active \ Replacing
      BY DEF RegistryInv
    <3>2. x \in Handlers /\ Has(reg.trap, at, x)
      BY <2>1, <2>a, <3>1 DEF Allocated, Handler, Has, Good, Registry, Table
    <3>3. Live(reg, x)
      BY <3>1, <3>2, TakenSlot
    <3>4. x.got \in Gots /\ x.hook \in Chained(reg, x.got)
      BY <2>1, <3>2, <3>3, HandlerFacts DEF Live
    <3>. QED BY <3>1, <3>4, FirstGot
  <2>3. Unspent(reg.trap, savedLr, reg.after[x.hook][G], x.hook)
    <3>1. reg.after[x.hook][G] # NONE => AfterOf(reg.trap, reg.after[x.hook][G], x.hook)
      BY <2>2, FirstGot, OwnsAfter DEF RegistryInv
    <3>2. \A h \in Hooks : ~AfterOf(reg.trap, NONE, h)
      BY NoAfterNone DEF RegistryInv
    <3>. QED BY <2>2, <3>1, <3>2, AfterOwner DEF Unspent
  <2>4. Basics'
    BY <2>1, <2>2 DEF Basics
  <2>5. Unspent(reg.trap, savedLr, reg.after[x.hook][G], x.hook)'
    BY <2>1, <2>3
  <2>. QED BY <2>1, <2>2, <2>4, <2>5 DEF Aimed, OnSound, EntrySound, JumpSound
<1>2. CASE TrapAfter
  <2>a. PICK h : h = Handler.hook
    OBVIOUS
  <2>1. CASE savedLr[h] = <<>>
    BY <1>2, <2>a, <2>1, AbortAims DEF TrapAfter
  <2>2. CASE savedLr[h] # <<>>
    <3>1. /\ reg' = reg /\ active' = active /\ fresh' = fresh /\ dropped' = dropped
          /\ savedLr' = [savedLr EXCEPT ![h] = Front(@)] /\ lr' = Last(savedLr[h])
          /\ mode = "jump" /\ mode' = "after" /\ Allocated(reg.trap, at)
          /\ frames' = frames /\ todo' = todo /\ pc' = pc /\ torn' = torn /\ skewed' = skewed
      BY <1>2, <2>a, <2>2 DEF TrapAfter, SavedLr, registered, active, entry, past
    <3>2. h \in Hooks
      <4>1. Handler \in Handlers
        BY <3>1 DEF Allocated, Handler, RegistryInv, Good, Registry, Table
      <4>. QED BY <2>a, <4>1, HandlerFacts
    <3>3. savedLr[h] \in Seq(Int) /\ savedLr \in [Hooks -> Seq(Int)]
      BY <3>2 DEF Basics
    <3>4. Last(savedLr[h]) \in Int /\ Front(savedLr[h]) \in Seq(Int)
      BY <2>2, <3>3, FrontFacts
    <3>5. savedLr' \in [Hooks -> Seq(Int)] /\ \A k \in Hooks : k # h => savedLr'[k] = savedLr[k]
      BY <3>1, <3>2, <3>3, <3>4
    <3>6. \A k \in fresh : savedLr'[k] = <<>>
      BY <2>2, <3>5 DEF Basics
    <3>7. Basics'
      BY <3>1, <3>4, <3>5, <3>6 DEF Basics
    <3>. QED BY <3>1, <3>7 DEF Aimed, OnSound, EntrySound, JumpSound
  <2>. QED BY <2>1, <2>2
<1>3. CASE ReachEntry
  <2>1. /\ reg' = reg /\ active' = active /\ fresh' = fresh /\ dropped' = dropped /\ savedLr' = savedLr
        /\ mode' = "entry" /\ lr' = lr /\ todo' = reg.breaks /\ pc' = ORIGINAL /\ mode = "jump"
        /\ frames' = frames /\ torn' = torn /\ skewed' = skewed
    BY <1>3 DEF ReachEntry, registered, active, past
  <2>2. /\ reg.breaks \in Seq(Hooks) /\ Replacing \subseteq active /\ active \subseteq Hooks
        /\ ToSet(reg.breaks) = Replacing
    BY DEF RegistryInv, Good, Registry, Replacing
  <2>3. ASSUME NEW k \in ToSet(reg.breaks), NEW h \in Hooks, AfterOf(reg.trap, reg.after[k][ENTRY], h)
        PROVE  h = k
    <3>1. k \in Hooks /\ ENTRY \in Gots \cup {ENTRY}
      BY <2>2
    <3>2. reg.after[k][ENTRY] # NONE
      BY <2>3, NoAfterNone DEF RegistryInv
    <3>3. AfterOf(reg.trap, reg.after[k][ENTRY], k)
      BY <3>1, <3>2, OwnsAfter DEF RegistryInv
    <3>. QED BY <2>3, <3>1, <3>3, AfterOwner
  <2>4. Basics'
    BY <2>1, <2>2 DEF Basics, ORIGINAL
  <2>5. EntrySound'
    BY <2>1, <2>2, <2>3 DEF EntrySound, Unspent, Replacing
  <2>. QED BY <2>1, <2>4, <2>5 DEF Aimed, OnSound, JumpSound
<1>. QED BY <1>1, <1>2, <1>3

LEMMA OlderFacts ==
    ASSUME RegistryInv, Basics, NEW h \in Hooks
    PROVE  /\ h \in Chained(reg, G) => Places(h) # {}
           /\ Places(h) # {} =>
                LET a == Older(CHOOSE i \in Places(h) : \A j \in Places(h) : i <= j)
                IN  /\ a \in Int
                    /\ a = ORIGINAL \/ \E k \in Chained(reg, G) : a = reg.tramp[k][G]
<1>a. PICK c : c = reg.chain[G]
  OBVIOUS
<1>1. c \in Seq(Hooks) /\ DOMAIN c = 1 .. Len(c) /\ Len(c) \in Nat /\ \A i \in 1 .. Len(c) : c[i] \in Chained(reg, G)
  BY <1>a, FirstGot DEF RegistryInv, Good, Registry, Chained, ToSet
<1>2. h \in Chained(reg, G) => Places(h) # {}
  <2>1. ASSUME h \in Chained(reg, G) PROVE \E i \in DOMAIN c : c[i] = h /\ h \notin dropped
    BY <1>a, <2>1 DEF Chained, ToSet, Basics
  <2>. QED BY <1>a, <2>1 DEF Places, SameHook
<1>3. ASSUME Places(h) # {}
      PROVE  LET a == Older(CHOOSE i \in Places(h) : \A j \in Places(h) : i <= j)
             IN  /\ a \in Int
                 /\ a = ORIGINAL \/ \E k \in Chained(reg, G) : a = reg.tramp[k][G]
  <2>1. Places(h) \in SUBSET Nat /\ Places(h) \subseteq 1 .. Len(c)
    BY <1>1, <1>a DEF Places
  <2>2. PICK i : i = CHOOSE n \in Places(h) : \A j \in Places(h) : n <= j
    OBVIOUS
  <2>3. i \in 1 .. Len(c)
    <3>1. \E n \in Places(h) : \A j \in Places(h) : n <= j
      BY <1>3, <2>1, LeastNumber
    <3>2. i \in Places(h)
      BY <2>2, <3>1
    <3>. QED BY <2>1, <3>2
  <2>4. CASE i = 1
    <3>1. Older(i) = ORIGINAL
      BY <2>4 DEF Older
    <3>. QED BY <2>2, <3>1 DEF ORIGINAL
  <2>5. CASE i # 1
    <3>1. i - 1 \in 1 .. Len(c) /\ Older(i) = reg.tramp[c[i - 1]][G]
      BY <1>1, <1>a, <2>3, <2>5 DEF Older
    <3>2. c[i - 1] \in Chained(reg, G)
      BY <1>1, <3>1
    <3>3. reg.tramp[c[i - 1]][G] \in Slot
      BY <3>2, FirstGot, TrampolineTraps DEF RegistryInv
    <3>4. Older(i) \in Int
      BY <3>1, <3>3, GotHooksAssumption DEF Slot
    <3>. QED BY <2>2, <3>1, <3>2, <3>4
  <2>. QED BY <2>4, <2>5
<1>. QED BY <1>2, <1>3

(* A return address is put on the saved_lr of a hook that is registered.     *)
LEMMA PushedBasics ==
    ASSUME savedLr \in [Hooks -> Seq(Int)], lr \in Int, \A k \in fresh : savedLr[k] = <<>>,
           NEW h \in Hooks, h \notin fresh,
           NEW sv, sv = [savedLr EXCEPT ![h] = Append(@, lr)] \/ sv = savedLr
    PROVE  /\ sv \in [Hooks -> Seq(Int)] /\ \A k \in fresh : sv[k] = <<>>
           /\ \A k \in Hooks : k # h => sv[k] = savedLr[k]
<1>1. savedLr[h] \in Seq(Int) /\ Append(savedLr[h], lr) \in Seq(Int)
  OBVIOUS
<1>2. CASE sv = [savedLr EXCEPT ![h] = Append(@, lr)]
  BY <1>1, <1>2
<1>. QED BY <1>2

LEMMA CallbackAims ==
    ASSUME RegistryInv, Basics, Aimed, OnCallsOriginal \/ OnSkips \/ AfterReturns \/ CallbackRaises
    PROVE  Basics' /\ Aimed'
<1>1. CASE OnCallsOriginal
  <2>a. PICK h : h = at
    OBVIOUS
  <2>b. PICK s : s = reg.after[h][G]
    OBVIOUS
  <2>0. h \in Hooks \ fresh /\ s \in Slot \cup {NONE} /\ s \in Int
    <3>1. h \in Hooks \ fresh
      BY <1>1, <2>a DEF OnCallsOriginal, Basics
    <3>2. s \in Slot \cup {NONE}
      BY <2>b, <3>1, FirstGot DEF RegistryInv, Good, Registry
    <3>. QED BY <3>1, <3>2, GotHooksAssumption DEF Slot, NONE
  <2>1. /\ reg' = reg /\ active' = active /\ fresh' = fresh /\ dropped' = dropped
        /\ mode = "on" /\ torn' = torn /\ skewed' = skewed
        /\ savedLr' = IF s # NONE THEN [savedLr EXCEPT ![h] = Append(@, lr)] ELSE savedLr
    BY <1>1, <2>a, <2>b DEF OnCallsOriginal, registered, active, past
  <2>2. savedLr' \in [Hooks -> Seq(Int)] /\ \A k \in fresh : savedLr'[k] = <<>>
    <3>1. PICK sv : sv = savedLr'
      OBVIOUS
    <3>2. sv = [savedLr EXCEPT ![h] = Append(@, lr)] \/ sv = savedLr
      BY <2>1, <3>1
    <3>3. sv \in [Hooks -> Seq(Int)] /\ \A k \in fresh : sv[k] = <<>>
      BY <2>0, <3>2, PushedBasics DEF Basics
    <3>. QED BY <3>1, <3>3
  <2>3. CASE Places(h) = {}
    <3>1. Abort("not in chain")
      BY <1>1, <2>a, <2>3 DEF OnCallsOriginal
    <3>2. <<>> \in Seq(Int) /\ <<>> \in Seq(Hooks) /\ 0 \in Int
      OBVIOUS
    <3>. QED BY <2>1, <2>2, <3>1, <3>2 DEF Abort, Basics, Aimed, OnSound, EntrySound, JumpSound
  <2>4. CASE Places(h) # {}
    <3>a. PICK a : a = Older(CHOOSE i \in Places(h) : \A j \in Places(h) : i <= j)
      OBVIOUS
    <3>1. /\ mode' = "jump" /\ at' = a /\ lr' = IF s # NONE THEN s ELSE lr
          /\ frames' = frames /\ todo' = todo /\ pc' = pc
      BY <1>1, <2>a, <2>b, <2>4, <3>a DEF OnCallsOriginal, Jump, entry
    <3>2. a \in Int /\ (a = ORIGINAL \/ \E k \in Chained(reg, G) : a = reg.tramp[k][G])
      BY <2>0, <2>4, <3>a, OlderFacts
    <3>3. Basics'
      BY <2>0, <2>1, <2>2, <3>1, <3>2 DEF Basics
    <3>. QED BY <2>1, <3>1, <3>2, <3>3 DEF Aimed, OnSound, EntrySound, JumpSound
  <2>. QED BY <2>3, <2>4
<1>2. CASE OnSkips
  BY <1>2 DEF OnSkips, Jump, Basics, Aimed, OnSound, EntrySound, JumpSound, registered, active, entry, past
<1>3. CASE AfterReturns
  BY <1>3 DEF AfterReturns, Jump, Basics, Aimed, OnSound, EntrySound, JumpSound, registered, active, entry, past
<1>4. CASE CallbackRaises
  BY <1>4, AbortAims DEF CallbackRaises
<1>. QED BY <1>1, <1>2, <1>3, <1>4

LEMMA EntryAims ==
    ASSUME RegistryInv, Basics, Aimed, EntryCallsOriginal \/ EntrySkips \/ EntryDone
    PROVE  Basics' /\ Aimed'
<1>1. CASE EntryCallsOriginal \/ EntrySkips
  <2>a. PICK h : h = Head(todo)
    OBVIOUS
  <2>b. PICK s : s = reg.after[h][ENTRY]
    OBVIOUS
  <2>c. PICK rest : rest = Tail(todo)
    OBVIOUS
  <2>0. /\ todo \in Seq(Hooks) /\ todo # <<>> /\ mode = "entry"
        /\ reg' = reg /\ active' = active /\ fresh' = fresh /\ dropped' = dropped
        /\ mode' = "entry" /\ todo' = rest /\ frames' = frames /\ torn' = torn /\ skewed' = skewed
    BY <1>1, <2>c DEF EntryCallsOriginal, EntrySkips, OnEntry, Basics, registered, active, past
  <2>1. /\ h \in ToSet(todo) /\ h \in Hooks \ fresh
        /\ rest \in Seq(Hooks) /\ ToSet(rest) \subseteq ToSet(todo)
    <3>1. h \in ToSet(todo) /\ h \in Hooks /\ rest \in Seq(Hooks) /\ ToSet(rest) \subseteq ToSet(todo)
      BY <2>0, <2>a, <2>c, TailFacts
    <3>. QED BY <2>0, <3>1 DEF Basics
  <2>2. s \in Slot \cup {NONE} /\ s \in Int
    <3>1. ENTRY \in Gots \cup {ENTRY}
      OBVIOUS
    <3>2. s \in Slot \cup {NONE}
      BY <2>b, <2>1, <3>1 DEF RegistryInv, Good, Registry
    <3>. QED BY <3>2, GotHooksAssumption DEF Slot, NONE
  <2>3. /\ savedLr' = [savedLr EXCEPT ![h] = Append(@, lr)] \/ savedLr' = savedLr
        /\ lr' \in Int /\ pc' \in Int
    BY <1>1, <2>a, <2>b, <2>2 DEF EntryCallsOriginal, EntrySkips, Basics
  <2>4. /\ savedLr' \in [Hooks -> Seq(Int)] /\ \A k \in fresh : savedLr'[k] = <<>>
        /\ \A k \in Hooks : k # h => savedLr'[k] = savedLr[k]
    <3>1. PICK sv : sv = savedLr'
      OBVIOUS
    <3>2. sv = [savedLr EXCEPT ![h] = Append(@, lr)] \/ sv = savedLr
      BY <2>3, <3>1
    <3>3. /\ sv \in [Hooks -> Seq(Int)] /\ \A k \in fresh : sv[k] = <<>>
          /\ \A k \in Hooks : k # h => sv[k] = savedLr[k]
      BY <2>1, <3>2, PushedBasics DEF Basics
    <3>. QED BY <3>1, <3>3
  <2>5. Basics'
    BY <2>0, <2>1, <2>3, <2>4 DEF Basics
  <2>6. EntrySound'
    <3>1. ASSUME NEW k \in ToSet(rest), NEW j \in Hooks, AfterOf(reg.trap, reg.after[k][ENTRY], j), j # k
          PROVE  savedLr'[j] = <<>> /\ j \notin ToSet(rest)
      <4>1. savedLr[j] = <<>> /\ j \notin ToSet(todo)
        BY <2>0, <2>1, <3>1 DEF Aimed, EntrySound, Unspent
      <4>. QED BY <2>1, <2>4, <4>1
    <3>2. ~torn => ToSet(rest) \subseteq Replacing
      BY <2>0, <2>1 DEF Aimed, EntrySound
    <3>. QED BY <2>0, <3>1, <3>2 DEF EntrySound, Unspent, Replacing
  <2>. QED BY <2>0, <2>5, <2>6 DEF Aimed, OnSound, JumpSound
<1>2. CASE EntryDone
  <2>1. /\ reg' = reg /\ active' = active /\ fresh' = fresh /\ dropped' = dropped /\ savedLr' = savedLr
        /\ mode = "entry" /\ lr' = lr /\ todo' = todo /\ torn' = torn /\ pc' = 0
    BY <1>2 DEF EntryDone, registered, active
  <2>2. CASE pc = ORIGINAL /\ EnterBody /\ UNCHANGED <<at, skewed>>
    <3>1. mode' = "guest" /\ frames' = Append(frames, lr) /\ skewed' = skewed
      BY <2>2 DEF EnterBody
    <3>2. Append(frames, lr) \in Seq(Int) /\ Append(frames, lr) # <<>>
      <4>1. frames \in Seq(Int) /\ lr \in Int
        BY DEF Basics
      <4>. QED BY <4>1, AppendProperties
    <3>3. Basics'
      BY <2>1, <3>1, <3>2 DEF Basics
    <3>. QED BY <2>1, <3>1, <3>3 DEF Aimed, OnSound, EntrySound, JumpSound
  <2>3. CASE pc # ORIGINAL /\ ~Skews /\ Jump(pc) /\ UNCHANGED <<frames, calls, skewed>>
    <3>1. mode' = "jump" /\ at' = pc /\ pc = lr /\ frames' = frames /\ skewed' = skewed
      BY <2>3 DEF Jump, Skews
    <3>2. Basics'
      BY <2>1, <3>1 DEF Basics
    <3>. QED BY <2>1, <3>1, <3>2 DEF Aimed, OnSound, EntrySound, JumpSound
  <2>4. CASE Skews /\ Jump(pc) /\ skewed' = TRUE /\ calls' = <<>> /\ UNCHANGED frames
    <3>1. mode' = "jump" /\ at' = pc /\ frames' = frames /\ skewed' = TRUE
      BY <2>4 DEF Jump
    <3>2. Basics'
      BY <2>1, <3>1 DEF Basics
    <3>. QED BY <2>1, <3>1, <3>2 DEF Aimed, OnSound, EntrySound, JumpSound
  <2>. QED BY <1>2, <2>2, <2>3, <2>4 DEF EntryDone
<1>. QED BY <1>1, <1>2

LEMMA InstallAims ==
    ASSUME RegistryInv, Basics, Aimed, NEW h \in Hooks, NEW post \in BOOLEAN, InstallHook(h, post)
    PROVE  Basics' /\ Aimed'
<1>1. /\ h \in fresh /\ h \notin active
      /\ fresh' = (IF h \in active' THEN fresh \ {h} ELSE fresh)
      /\ dropped' = dropped /\ savedLr' = savedLr /\ mode' = mode /\ at' = at /\ lr' = lr /\ frames' = frames
      /\ todo' = todo /\ pc' = pc /\ torn' = torn /\ skewed' = skewed
  BY DEF InstallHook, machine, entry, past, Basics
<1>2. /\ RegistryInv'
      /\ \A k \in Hooks \ {h} : reg'.after[k] = reg.after[k]
      /\ \A k \in Hooks \ {h} : \A s : AfterOf(reg'.trap, s, k) <=> AfterOf(reg.trap, s, k)
      /\ active \subseteq active' /\ active' \subseteq active \cup {h}
      /\ Replacing \subseteq Replacing' /\ Replacing' \subseteq Replacing \cup {h}
      /\ Chained(reg, G) \subseteq Chained(reg', G) /\ Chained(reg', G) \subseteq Chained(reg, G) \cup {h}
  BY <1>1, InstallChange, FirstGot
<1>3. Basics'
  <2>1. fresh' \subseteq fresh /\ fresh' \cap active' = {}
    BY <1>1, <1>2 DEF Basics
  <2>2. dropped' \cap (fresh' \cup Chained(reg', G)) = {}
    BY <1>1, <1>2, <2>1 DEF Basics
  <2>. QED BY <1>1, <2>1, <2>2 DEF Basics
<1>4. ASSUME NEW k \in Hooks, k # h, NEW s, Unspent(reg.trap, savedLr, s, k)
      PROVE  Unspent(reg'.trap, savedLr', s, k)
  <2>1. ASSUME NEW j \in Hooks, AfterOf(reg'.trap, s, j), j # k PROVE savedLr'[j] = <<>>
    <3>1. CASE j = h
      BY <1>1, <3>1 DEF Basics
    <3>2. CASE j # h
      BY <1>1, <1>2, <1>4, <2>1, <3>2 DEF Unspent
    <3>. QED BY <3>1, <3>2
  <2>. QED BY <2>1 DEF Unspent
<1>5. OnSound'
  <2>1. ASSUME mode = "on" PROVE Unspent(reg'.trap, savedLr', reg'.after[at'][G], at') /\ (~torn => at \in Chained(reg', G))
    <3>1. at \in Hooks /\ at # h /\ reg'.after[at'][G] = reg.after[at][G]
      BY <1>1, <1>2, <2>1 DEF Basics
    <3>2. Unspent(reg.trap, savedLr, reg.after[at][G], at) /\ (~torn => at \in Chained(reg, G))
      BY <2>1 DEF Aimed, OnSound
    <3>. QED BY <1>1, <1>2, <1>4, <3>1, <3>2
  <2>. QED BY <1>1, <2>1 DEF OnSound
<1>6. EntrySound'
  <2>1. ASSUME mode = "entry", NEW k \in ToSet(todo)
        PROVE  /\ Unspent(reg'.trap, savedLr', reg'.after[k][ENTRY], k)
               /\ \A j \in Hooks : AfterOf(reg'.trap, reg'.after[k][ENTRY], j) /\ j # k => j \notin ToSet(todo)
    <3>1. k \in Hooks /\ k # h /\ h \notin ToSet(todo) /\ reg'.after[k] = reg.after[k]
      <4>1. todo \in Seq(Hooks) /\ ToSet(todo) \cap fresh = {}
        BY <2>1 DEF Basics
      <4>2. k \in Hooks /\ h \notin ToSet(todo)
        BY <1>1, <2>1, <4>1 DEF ToSet
      <4>. QED BY <1>2, <2>1, <4>2
    <3>2. /\ Unspent(reg.trap, savedLr, reg.after[k][ENTRY], k)
          /\ \A j \in Hooks : AfterOf(reg.trap, reg.after[k][ENTRY], j) /\ j # k => j \notin ToSet(todo)
      BY <2>1 DEF Aimed, EntrySound
    <3>3. Unspent(reg'.trap, savedLr', reg'.after[k][ENTRY], k)
      BY <1>4, <3>1, <3>2
    <3>. QED BY <1>2, <3>1, <3>2, <3>3
  <2>2. mode = "entry" /\ ~torn => ToSet(todo) \subseteq Replacing'
    BY <1>2 DEF Aimed, EntrySound
  <2>. QED BY <1>1, <2>1, <2>2 DEF EntrySound
<1>7. JumpSound'
  BY <1>1 DEF JumpSound, InstallHook, HostRuns, OnEntry
<1>. QED BY <1>3, <1>5, <1>6, <1>7 DEF Aimed

LEMMA RemoveAims ==
    ASSUME RegistryInv, Basics, Aimed, NEW h \in Hooks, RemoveHook(h)
    PROVE  Basics' /\ Aimed'
<1>1. /\ fresh' = fresh /\ savedLr' = savedLr /\ mode' = mode /\ at' = at /\ lr' = lr /\ frames' = frames
      /\ todo' = todo /\ pc' = pc /\ torn' = (torn \/ mode # "idle") /\ skewed' = skewed
      /\ dropped' = IF reg'.chain[G] = <<>> THEN Hooks \ fresh ELSE dropped
  BY DEF RemoveHook, entry
<1>2. /\ RegistryInv' /\ reg'.after = reg.after /\ active' \subseteq active
      /\ \A k \in Hooks : \A s : AfterOf(reg'.trap, s, k) => AfterOf(reg.trap, s, k)
      /\ Chained(reg', G) \subseteq Chained(reg, G)
  BY RemoveChange, FirstGot
<1>3. Basics'
  <2>1. dropped' \subseteq Hooks /\ dropped' \cap fresh = {}
    BY <1>1 DEF Basics
  <2>2. dropped' \cap Chained(reg', G) = {}
    <3>1. CASE reg'.chain[G] = <<>>
      BY <3>1 DEF Chained, ToSet
    <3>2. CASE reg'.chain[G] # <<>>
      BY <1>1, <1>2, <3>2 DEF Basics
    <3>. QED BY <3>1, <3>2
  <2>3. torn' \in BOOLEAN
    BY <1>1
  <2>. QED BY <1>1, <1>2, <2>1, <2>2, <2>3 DEF Basics
<1>4. ASSUME NEW k, NEW s, Unspent(reg.trap, savedLr, s, k)
      PROVE  Unspent(reg'.trap, savedLr', s, k)
  BY <1>1, <1>2, <1>4 DEF Unspent
<1>5. OnSound'
  BY <1>1, <1>2, <1>4 DEF Aimed, OnSound
<1>6. EntrySound'
  <2>1. ASSUME mode = "entry", NEW k \in ToSet(todo)
        PROVE  /\ Unspent(reg'.trap, savedLr', reg'.after[k][ENTRY], k)
               /\ \A j \in Hooks : AfterOf(reg'.trap, reg'.after[k][ENTRY], j) /\ j # k => j \notin ToSet(todo)
    <3>1. /\ Unspent(reg.trap, savedLr, reg.after[k][ENTRY], k)
          /\ \A j \in Hooks : AfterOf(reg.trap, reg.after[k][ENTRY], j) /\ j # k => j \notin ToSet(todo)
      BY <2>1 DEF Aimed, EntrySound
    <3>. QED BY <1>2, <1>4, <3>1
  <2>2. mode = "entry" => torn'
    BY <1>1
  <2>. QED BY <1>1, <2>1, <2>2 DEF EntrySound
<1>7. JumpSound'
  BY <1>1 DEF JumpSound, RemoveHook, HostRuns, OnEntry
<1>. QED BY <1>3, <1>5, <1>6, <1>7 DEF Aimed

LEMMA AimsInductive ==
    ASSUME RegistryInv, Basics, Aimed, [HNext]_hvars
    PROVE  RegistryInv' /\ Basics' /\ Aimed'
<1>1. RegistryInv'
  BY RegistryInductive, GuestMovesRegistry
<1>2. CASE UNCHANGED hvars
  <2>1. /\ reg' = reg /\ active' = active /\ fresh' = fresh /\ dropped' = dropped /\ savedLr' = savedLr
        /\ mode' = mode /\ at' = at /\ lr' = lr /\ frames' = frames
        /\ todo' = todo /\ pc' = pc /\ torn' = torn /\ skewed' = skewed
    BY <1>2 DEF hvars, registered, active, machine, entry, past
  <2>2. Basics'
    BY <2>1 DEF Basics
  <2>3. OnSound' /\ EntrySound' /\ JumpSound'
    BY <2>1 DEF Aimed, OnSound, EntrySound, JumpSound, Replacing
  <2>. QED BY <1>1, <2>2, <2>3 DEF Aimed
<1>3. CASE HNext
  <2>1. CASE \E h \in Hooks, post \in BOOLEAN : InstallHook(h, post)
    BY <1>1, <2>1, InstallAims
  <2>2. CASE \E h \in Hooks : RemoveHook(h)
    BY <1>1, <2>2, RemoveAims
  <2>. QED BY <1>1, <1>3, <2>1, <2>2, GuestAims, TrapAims, CallbackAims, EntryAims DEF HNext
<1>. QED BY <1>1, <1>2, <1>3

LEMMA AimsBegin == HInit => RegistryInv /\ Basics /\ Aimed
<1> SUFFICES ASSUME HInit PROVE RegistryInv /\ Basics /\ Aimed
  OBVIOUS
<1>1. <<>> \in Seq(Int) /\ <<>> \in Seq(Hooks) /\ 0 \in Int
  OBVIOUS
<1>2. RegistryInv
  BY RegistryBegins DEF HInit
<1>3. Basics
  <2>1. active = {}
    BY DEF HInit, Init, active
  <2>. QED BY <1>1, <2>1 DEF HInit, Basics
<1>. QED BY <1>2, <1>3 DEF HInit, Aimed, OnSound, EntrySound, JumpSound

(***************************************************************************)
(* The trail of a run and saved_lr.                                        *)
(***************************************************************************)
Typed(trail, stale, saved) ==
    trail \in Seq(Return) /\ stale \in [Hooks -> Nat] /\ saved \in [Hooks -> Seq(Int)]

Filed(saved, h, l) == [saved EXCEPT ![h] = Append(@, l)]

LEMMA PushSaved ==
    ASSUME NEW trail, NEW stale, NEW saved, Typed(trail, stale, saved),
           Saved(trail, stale, saved), NEW x \in Return, NEW h, h = x.hook, x.pos = Len(saved[h]) + 1,
           NEW t, t = Append(trail, x), NEW sv, sv = Filed(saved, h, x.prev)
    PROVE  Saved(t, stale, sv)
<1>. trail \in Seq(Return) /\ stale \in [Hooks -> Nat] /\ saved \in [Hooks -> Seq(Int)]
  BY DEF Typed
<1>a. PICK n : n = Len(trail)
  OBVIOUS
<1>b. PICK p : p = x.pos
  OBVIOUS
<1>1. /\ DOMAIN trail = 1 .. n /\ n \in Nat
      /\ \A i \in 1 .. n : trail[i] \in Return /\ trail[i].hook \in Hooks /\ trail[i].pos \in Nat
      /\ h \in Hooks /\ p \in Nat /\ x.prev \in Int
  BY <1>a, <1>b, TrailFacts DEF Return
<1>s. /\ \A i, j \in 1 .. n : i < j /\ trail[i].hook = trail[j].hook => trail[i].pos < trail[j].pos
      /\ \A i \in 1 .. n : /\ trail[i].pos \in stale[trail[i].hook] + 1 .. Len(saved[trail[i].hook])
                           /\ saved[trail[i].hook][trail[i].pos] = trail[i].prev
      /\ \A k \in Hooks : /\ stale[k] <= Len(saved[k])
                          /\ \A q \in stale[k] + 1 .. Len(saved[k]) :
                                \E i \in 1 .. n : trail[i].hook = k /\ trail[i].pos = q
  <2>1. DOMAIN trail = 1 .. n
    BY <1>1
  <2>2. \A i, j \in 1 .. n : i < j /\ trail[i].hook = trail[j].hook => trail[i].pos < trail[j].pos
    BY <2>1 DEF Saved, Rising
  <2>3. \A i \in 1 .. n : /\ trail[i].pos \in stale[trail[i].hook] + 1 .. Len(saved[trail[i].hook])
                           /\ saved[trail[i].hook][trail[i].pos] = trail[i].prev
    BY <2>1 DEF Saved, Kept
  <2>4. \A k \in Hooks : /\ stale[k] <= Len(saved[k])
                          /\ \A q \in stale[k] + 1 .. Len(saved[k]) :
                                \E i \in 1 .. n : trail[i].hook = k /\ trail[i].pos = q
    <3> SUFFICES ASSUME NEW k \in Hooks
                 PROVE  /\ stale[k] <= Len(saved[k])
                        /\ \A q \in stale[k] + 1 .. Len(saved[k]) :
                              \E i \in 1 .. n : trail[i].hook = k /\ trail[i].pos = q
      OBVIOUS
    <3>1. stale[k] <= Len(saved[k])
      BY DEF Saved, Covered
    <3>2. ASSUME NEW q \in stale[k] + 1 .. Len(saved[k])
          PROVE  \E i \in 1 .. n : trail[i].hook = k /\ trail[i].pos = q
      <4>1. \E i \in DOMAIN trail : trail[i].hook = k /\ trail[i].pos = q
        BY <3>2 DEF Saved, Covered
      <4>. QED BY <2>1, <4>1
    <3>. QED BY <3>1, <3>2
  <2>. QED BY <2>2, <2>3, <2>4
<1>2. DOMAIN t = 1 .. n + 1 /\ t[n + 1] = x /\ \A i \in 1 .. n : t[i] = trail[i]
  BY <1>1, <1>a, AppendProperties
<1>3. /\ \A k \in Hooks : saved[k] \in Seq(Int) /\ Len(saved[k]) \in Nat /\ stale[k] \in Nat
      /\ \A k \in Hooks : k # h => sv[k] = saved[k]
      /\ Len(sv[h]) = p /\ Len(saved[h]) = p - 1 /\ sv[h][p] = x.prev
      /\ \A q \in 1 .. p - 1 : sv[h][q] = saved[h][q]
  <2>1. saved[h] \in Seq(Int) /\ sv[h] = Append(saved[h], x.prev) /\ \A k \in Hooks : k # h => sv[k] = saved[k]
    BY <1>1 DEF Filed
  <2>. QED BY <1>1, <1>b, <2>1, AppendProperties
<1>4. ASSUME NEW i \in 1 .. n
      PROVE  /\ trail[i].pos \in stale[trail[i].hook] + 1 .. Len(saved[trail[i].hook])
             /\ trail[i].pos \in stale[trail[i].hook] + 1 .. Len(sv[trail[i].hook])
             /\ sv[trail[i].hook][trail[i].pos] = trail[i].prev
  <2>1. /\ trail[i].pos \in stale[trail[i].hook] + 1 .. Len(saved[trail[i].hook])
        /\ saved[trail[i].hook][trail[i].pos] = trail[i].prev
    BY <1>s, <1>1
  <2>2. CASE trail[i].hook = h
    <3>1. trail[i].pos \in 1 .. p - 1 /\ trail[i].pos \in stale[h] + 1 .. p
      <4>1. trail[i].pos \in stale[h] + 1 .. p - 1
        BY <1>3, <2>1, <2>2
      <4>2. stale[h] \in Nat /\ p \in Nat
        BY <1>1, <1>3
      <4>. QED BY ONLY <4>1, <4>2
    <3>. QED BY <1>3, <2>1, <2>2, <3>1
  <2>3. CASE trail[i].hook # h
    BY <1>1, <1>3, <2>1, <2>3
  <2>. QED BY <2>2, <2>3
<1>5. stale[h] <= p - 1
  BY <1>s, <1>1, <1>3
<1>6. ASSUME NEW i \in 1 .. n + 1, NEW j \in 1 .. n + 1, i < j, t[i].hook = t[j].hook PROVE t[i].pos < t[j].pos
  <2>1. i \in 1 .. n /\ t[i] = trail[i]
    BY <1>1, <1>2, <1>6
  <2>2. CASE j \in 1 .. n
    <3>1. t[j] = trail[j]
      BY <1>2, <2>2
    <3>. QED BY <1>s, <1>1, <1>6, <2>1, <2>2, <3>1
  <2>3. CASE j = n + 1
    <3>1. trail[i].hook = h /\ t[j].pos = p
      BY <1>2, <1>6, <1>b, <2>1, <2>3
    <3>. QED BY <1>1, <1>3, <1>4, <2>1, <3>1, SMTT(30)
  <2>. QED BY <1>1, <2>2, <2>3
<1>7. ASSUME NEW i \in 1 .. n + 1
      PROVE  t[i].pos \in stale[t[i].hook] + 1 .. Len(sv[t[i].hook]) /\ sv[t[i].hook][t[i].pos] = t[i].prev
  <2>1. CASE i \in 1 .. n
    BY <1>2, <1>4, <2>1
  <2>2. CASE i = n + 1
    <3>1. t[i] = x /\ p \in stale[h] + 1 .. Len(sv[h])
      BY <1>1, <1>2, <1>3, <1>5, <2>2
    <3>2. t[i].hook = h /\ t[i].pos = p /\ t[i].prev = x.prev
      BY <1>b, <3>1
    <3>3. sv[h][p] = x.prev /\ p \in stale[h] + 1 .. Len(sv[h])
      BY <1>3, <3>1
    <3>. QED BY ONLY <3>2, <3>3
  <2>3. i \in 1 .. n \/ i = n + 1
    BY <1>1
  <2>. QED BY ONLY <2>1, <2>2, <2>3
<1>8. ASSUME NEW k \in Hooks
      PROVE  stale[k] <= Len(sv[k]) /\ \A q \in stale[k] + 1 .. Len(sv[k]) : \E i \in 1 .. n + 1 : t[i].hook = k /\ t[i].pos = q
  <2>1. stale[k] <= Len(saved[k]) /\ \A q \in stale[k] + 1 .. Len(saved[k]) : \E i \in 1 .. n : trail[i].hook = k /\ trail[i].pos = q
    BY <1>s, <1>1
  <2>2. \A q \in stale[k] + 1 .. Len(saved[k]) : \E i \in 1 .. n + 1 : t[i].hook = k /\ t[i].pos = q
    <3> SUFFICES ASSUME NEW q \in stale[k] + 1 .. Len(saved[k]) PROVE \E i \in 1 .. n + 1 : t[i].hook = k /\ t[i].pos = q
      OBVIOUS
    <3>1. PICK i \in 1 .. n : trail[i].hook = k /\ trail[i].pos = q
      BY <2>1
    <3>2. i \in 1 .. n + 1 /\ t[i] = trail[i]
      BY <1>1, <1>2
    <3>. QED BY <3>1, <3>2
  <2>3. CASE k # h
    BY <1>3, <2>1, <2>2, <2>3
  <2>4. CASE k = h
    <3>1. stale[k] <= Len(sv[k])
      BY <1>1, <1>3, <1>5, <2>4
    <3>2. ASSUME NEW q \in stale[k] + 1 .. Len(sv[k]) PROVE \E i \in 1 .. n + 1 : t[i].hook = k /\ t[i].pos = q
      <4>1. q = p \/ q \in stale[k] + 1 .. Len(saved[k])
        BY <1>1, <1>3, <2>4
      <4>2. n + 1 \in 1 .. n + 1 /\ t[n + 1].hook = h /\ t[n + 1].pos = p
        BY <1>1, <1>2, <1>b
      <4>. QED BY <2>2, <2>4, <4>1, <4>2
    <3>. QED BY <3>1, <3>2
  <2>. QED BY <2>3, <2>4
<1>9. Rising(t) /\ Kept(t, stale, sv) /\ Covered(t, stale, sv)
  <2>1. Rising(t)
    BY <1>2, <1>6 DEF Rising
  <2>2. Kept(t, stale, sv)
    BY <1>2, <1>7 DEF Kept
  <2>3. Covered(t, stale, sv)
    <3> SUFFICES ASSUME NEW k \in Hooks
                 PROVE  /\ stale[k] <= Len(sv[k])
                        /\ \A q \in stale[k] + 1 .. Len(sv[k]) :
                              \E i \in DOMAIN t : t[i].hook = k /\ t[i].pos = q
      BY DEF Covered
    <3>1. DOMAIN t = 1 .. n + 1
      BY <1>2
    <3>2. stale[k] <= Len(sv[k])
      BY <1>8
    <3>3. ASSUME NEW q \in stale[k] + 1 .. Len(sv[k])
          PROVE  \E i \in DOMAIN t : t[i].hook = k /\ t[i].pos = q
      <4>1. \E i \in 1 .. n + 1 : t[i].hook = k /\ t[i].pos = q
        BY <1>8, <3>3, ZenonT(60)
      <4>. QED BY <3>1, <4>1
    <3>. QED BY <3>2, <3>3
  <2>. QED BY <2>1, <2>2, <2>3
<1>. QED BY <1>9 DEF Saved

PopLeaves(saved, h, x, t, stale, sv) ==
    saved[h] # <<>> /\ Last(saved[h]) = x.prev /\ Saved(t, stale, sv)

LEMMA PopSaved ==
    ASSUME NEW trail, NEW stale, NEW saved, Typed(trail, stale, saved),
           Saved(trail, stale, saved), trail # <<>>, NEW x, x = Last(trail), NEW h, h = x.hook,
           NEW t, t = Front(trail), NEW sv, sv = [saved EXCEPT ![h] = Front(@)]
    PROVE  PopLeaves(saved, h, x, t, stale, sv)
<1>. trail \in Seq(Return) /\ stale \in [Hooks -> Nat] /\ saved \in [Hooks -> Seq(Int)]
  BY DEF Typed
<1>a. PICK n : n = Len(trail)
  OBVIOUS
<1>b. PICK p : p = x.pos
  OBVIOUS
<1>1. /\ DOMAIN trail = 1 .. n /\ n \in Nat \ {0} /\ n \in 1 .. n /\ trail[n] = x
      /\ \A i \in 1 .. n : trail[i] \in Return /\ trail[i].hook \in Hooks /\ trail[i].pos \in Nat
      /\ DOMAIN t = 1 .. n - 1 /\ \A i \in 1 .. n - 1 : t[i] = trail[i] /\ i \in 1 .. n
  <2>1. t \in Seq(Return) /\ Len(t) = n - 1 /\ n \in Nat \ {0} /\ \A i \in 1 .. n - 1 : t[i] = trail[i]
    BY <1>a, FrontFacts
  <2>2. DOMAIN t = 1 .. n - 1
    BY <2>1
  <2>3. trail[n] = x
    BY <1>a, FrontFacts
  <2>. QED BY <1>a, <2>1, <2>2, <2>3, TrailFacts
<1>s. /\ \A i, j \in 1 .. n : i < j /\ trail[i].hook = trail[j].hook => trail[i].pos < trail[j].pos
      /\ \A i \in 1 .. n : /\ trail[i].pos \in stale[trail[i].hook] + 1 .. Len(saved[trail[i].hook])
                           /\ saved[trail[i].hook][trail[i].pos] = trail[i].prev
      /\ \A k \in Hooks : /\ stale[k] <= Len(saved[k])
                          /\ \A q \in stale[k] + 1 .. Len(saved[k]) :
                                \E i \in 1 .. n : trail[i].hook = k /\ trail[i].pos = q
  <2>1. DOMAIN trail = 1 .. n
    BY <1>1
  <2>2. \A i, j \in 1 .. n : i < j /\ trail[i].hook = trail[j].hook => trail[i].pos < trail[j].pos
    BY <2>1 DEF Saved, Rising
  <2>3. \A i \in 1 .. n : /\ trail[i].pos \in stale[trail[i].hook] + 1 .. Len(saved[trail[i].hook])
                           /\ saved[trail[i].hook][trail[i].pos] = trail[i].prev
    BY <2>1 DEF Saved, Kept
  <2>4. \A k \in Hooks : /\ stale[k] <= Len(saved[k])
                          /\ \A q \in stale[k] + 1 .. Len(saved[k]) :
                                \E i \in 1 .. n : trail[i].hook = k /\ trail[i].pos = q
    <3> SUFFICES ASSUME NEW k \in Hooks
                 PROVE  /\ stale[k] <= Len(saved[k])
                        /\ \A q \in stale[k] + 1 .. Len(saved[k]) :
                              \E i \in 1 .. n : trail[i].hook = k /\ trail[i].pos = q
      OBVIOUS
    <3>1. stale[k] <= Len(saved[k])
      BY DEF Saved, Covered
    <3>2. ASSUME NEW q \in stale[k] + 1 .. Len(saved[k])
          PROVE  \E i \in 1 .. n : trail[i].hook = k /\ trail[i].pos = q
      <4>1. \E i \in DOMAIN trail : trail[i].hook = k /\ trail[i].pos = q
        BY <3>2 DEF Saved, Covered
      <4>. QED BY <2>1, <4>1
    <3>. QED BY <3>1, <3>2
  <2>. QED BY <2>2, <2>3, <2>4
<1>2. h \in Hooks /\ p \in Nat /\ saved[h] \in Seq(Int) /\ Len(saved[h]) \in Nat /\ stale[h] \in Nat
  BY <1>1, <1>b
<1>3. p \in stale[h] + 1 .. Len(saved[h]) /\ saved[h][p] = x.prev
  BY <1>s, <1>1, <1>b, SMTT(30)
<1>4. p = Len(saved[h])
  <2>1. Len(saved[h]) \in stale[h] + 1 .. Len(saved[h])
    BY <1>2, <1>3
  <2>2. PICK i \in 1 .. n : trail[i].hook = h /\ trail[i].pos = Len(saved[h])
    BY <1>s, <1>1, <1>2, <2>1
  <2>3. i < n => trail[i].pos < p
    <3>1. trail[n].hook = h /\ trail[n].pos = p /\ trail[i].hook = h /\ n \in 1 .. n
      BY <1>1, <1>b, <2>2
    <3>. QED BY <1>s, <3>1
  <2>4. i = n => p = Len(saved[h])
    BY <1>1, <1>b, <2>2
  <2>. QED BY <1>1, <1>2, <1>3, <2>2, <2>3, <2>4
<1>5. saved[h] # <<>> /\ Last(saved[h]) = x.prev
  BY <1>2, <1>3, <1>4 DEF Last
<1>6. /\ sv[h] \in Seq(Int) /\ Len(sv[h]) = p - 1 /\ \A q \in 1 .. p - 1 : sv[h][q] = saved[h][q]
      /\ \A k \in Hooks : k # h => sv[k] = saved[k]
  <2>1. sv[h] = Front(saved[h])
    BY <1>2
  <2>. QED BY <1>2, <1>4, <1>5, <2>1, FrontFacts
<1>7. \A i, j \in 1 .. n - 1 : i < j /\ t[i].hook = t[j].hook => t[i].pos < t[j].pos
  BY <1>s, <1>1
<1>8. ASSUME NEW i \in 1 .. n - 1
      PROVE  t[i].pos \in stale[t[i].hook] + 1 .. Len(sv[t[i].hook]) /\ sv[t[i].hook][t[i].pos] = t[i].prev
  <2>1. /\ t[i] = trail[i] /\ i \in 1 .. n /\ i < n
        /\ trail[i].pos \in stale[trail[i].hook] + 1 .. Len(saved[trail[i].hook])
        /\ saved[trail[i].hook][trail[i].pos] = trail[i].prev
    BY <1>s, <1>1
  <2>2. CASE trail[i].hook = h
    <3>1. trail[i].pos < p
      BY <1>s, <1>1, <1>b, <2>1, <2>2, SMTT(30)
    <3>2. trail[i].pos \in 1 .. p - 1 /\ trail[i].pos \in stale[h] + 1 .. p - 1
      BY <1>2, <2>1, <2>2, <3>1
    <3>3. sv[h][trail[i].pos] = trail[i].prev
      BY <1>6, <2>1, <2>2, <3>2
    <3>. QED BY ONLY <1>6, <2>1, <2>2, <3>2, <3>3
  <2>3. CASE trail[i].hook # h
    BY <1>1, <1>6, <2>1, <2>3
  <2>. QED BY <2>2, <2>3
<1>9. ASSUME NEW k \in Hooks
      PROVE  stale[k] <= Len(sv[k]) /\ \A q \in stale[k] + 1 .. Len(sv[k]) : \E i \in 1 .. n - 1 : t[i].hook = k /\ t[i].pos = q
  <2>1. stale[k] <= Len(saved[k]) /\ \A q \in stale[k] + 1 .. Len(saved[k]) : \E i \in 1 .. n : trail[i].hook = k /\ trail[i].pos = q
    BY <1>s, <1>1
  <2>2. stale[k] <= Len(sv[k])
    <3>1. CASE k = h
      BY <1>2, <1>3, <1>6, <3>1
    <3>2. CASE k # h
      BY <1>6, <2>1, <3>2
    <3>. QED BY <3>1, <3>2
  <2>3. ASSUME NEW q \in stale[k] + 1 .. Len(sv[k]) PROVE \E i \in 1 .. n - 1 : t[i].hook = k /\ t[i].pos = q
    <3>1. q \in stale[k] + 1 .. Len(saved[k]) /\ (k = h => q # p)
      <4>1. CASE k = h
        BY <1>2, <1>4, <1>6, <4>1
      <4>2. CASE k # h
        BY <1>6, <4>2
      <4>. QED BY <4>1, <4>2
    <3>2. PICK i \in 1 .. n : trail[i].hook = k /\ trail[i].pos = q
      BY <2>1, <3>1
    <3>3. i # n
      BY <1>1, <1>b, <3>1, <3>2
    <3>4. i \in 1 .. n - 1
      BY <1>1, <3>3
    <3>. QED BY <1>1, <3>2, <3>4
  <2>. QED BY <2>2, <2>3
<1>10. Rising(t) /\ Kept(t, stale, sv) /\ Covered(t, stale, sv)
  <2>1. Rising(t)
    BY <1>1, <1>7 DEF Rising
  <2>2. Kept(t, stale, sv)
    BY <1>1, <1>8 DEF Kept
  <2>3. Covered(t, stale, sv)
    <3> SUFFICES ASSUME NEW k \in Hooks
                 PROVE  /\ stale[k] <= Len(sv[k])
                        /\ \A q \in stale[k] + 1 .. Len(sv[k]) :
                              \E i \in DOMAIN t : t[i].hook = k /\ t[i].pos = q
      BY DEF Covered
    <3>1. DOMAIN t = 1 .. n - 1
      BY <1>1
    <3>2. stale[k] <= Len(sv[k])
      BY <1>9
    <3>3. ASSUME NEW q \in stale[k] + 1 .. Len(sv[k])
          PROVE  \E i \in DOMAIN t : t[i].hook = k /\ t[i].pos = q
      <4>1. \E i \in 1 .. n - 1 : t[i].hook = k /\ t[i].pos = q
        BY <1>9, <3>3
      <4>. QED BY <3>1, <4>1
    <3>. QED BY <3>2, <3>3
  <2>. QED BY <2>1, <2>2, <2>3
<1>. QED BY <1>5, <1>10 DEF Saved, PopLeaves

(* A hook has nothing saved exactly when nothing is stale or on the trail.   *)
LEMMA NothingSaved ==
    ASSUME NEW trail, NEW stale, NEW saved, Typed(trail, stale, saved),
           Saved(trail, stale, saved), NEW h \in Hooks
    PROVE  /\ saved[h] = <<>> => stale[h] = 0 /\ \A i \in DOMAIN trail : trail[i].hook # h
           /\ stale[h] = 0 /\ (\A i \in DOMAIN trail : trail[i].hook # h) => saved[h] = <<>>
<1>. trail \in Seq(Return) /\ stale \in [Hooks -> Nat] /\ saved \in [Hooks -> Seq(Int)]
  BY DEF Typed
<1>1. saved[h] \in Seq(Int) /\ Len(saved[h]) \in Nat /\ stale[h] \in Nat /\ stale[h] <= Len(saved[h])
  BY DEF Saved, Covered
<1>2. ASSUME saved[h] = <<>> PROVE stale[h] = 0 /\ \A i \in DOMAIN trail : trail[i].hook # h
  <2>1. Len(saved[h]) = 0 /\ stale[h] = 0
    BY <1>1, <1>2
  <2>2. ASSUME NEW i \in DOMAIN trail, trail[i].hook = h PROVE FALSE
    <3>1. trail[i].pos \in stale[h] + 1 .. Len(saved[h])
      BY <2>2 DEF Saved, Kept
    <3>. QED BY <2>1, <3>1
  <2>. QED BY <2>1, <2>2
<1>3. ASSUME stale[h] = 0, \A i \in DOMAIN trail : trail[i].hook # h PROVE saved[h] = <<>>
  <2>1. \A q \in 1 .. Len(saved[h]) : FALSE
    <3> SUFFICES ASSUME NEW q \in 1 .. Len(saved[h]) PROVE FALSE
      OBVIOUS
    <3>1. q \in stale[h] + 1 .. Len(saved[h])
      BY <1>3
    <3>. QED BY <1>3, <3>1 DEF Saved, Covered
  <2>2. Len(saved[h]) = 0
    BY <1>1, <2>1
  <2>. QED BY <1>1, <2>2
<1>. QED BY <1>2, <1>3

(***************************************************************************)
(* The frames of the guest, and who owns the trampolines on the trail.     *)
(***************************************************************************)
Pending == {"jump", "on", "entry", "after"}

(* Each live function returns where the trail says.                          *)
Follows(trail, m, fr, l) ==
    /\ \A d \in 1 .. Len(fr) - 1 : ReturnsTo(trail, d, fr[d + 1])
    /\ m \in Pending => Within(trail, Len(fr)) /\ ReturnsTo(trail, Len(fr), l)
    /\ m = "guest"   => Within(trail, Len(fr) - 1)

(* A second trampoline on the trail is that of its hook; or the hook was     *)
(* removed in this run, and the hook that came by its trampoline has nothing *)
(* saved that is older.                                                      *)
Owners(trail, stale, t, unused, removed) ==
    /\ \A i \in DOMAIN trail : trail[i].hook \notin unused
    /\ \A h \in unused : stale[h] = 0
    /\ \A i \in DOMAIN trail, h \in Hooks : AfterOf(t, trail[i].slot, h) /\ h # trail[i].hook =>
          stale[h] = 0 /\ \A j \in DOMAIN trail : trail[j].hook = h => j > i
    /\ ~removed => \A i \in DOMAIN trail : AfterOf(t, trail[i].slot, trail[i].hook)

Told(trail, stale, m, fr, l, saved, t, unused, removed) ==
    /\ trail \in Seq(Return) /\ stale \in [Hooks -> Nat]
    /\ Nested(trail) /\ Follows(trail, m, fr, l)
    /\ Saved(trail, stale, saved) /\ Owners(trail, stale, t, unused, removed)

Tells(trail, stale) == Told(trail, stale, mode, frames, lr, savedLr, reg.trap, fresh, torn)

Trailed ==
    mode # "idle" /\ ~skewed =>
        \E trail, stale : Tells(trail, stale)

LEMMA PushOwners ==
    ASSUME NEW trail, NEW stale, NEW saved, Typed(trail, stale, saved),
           Saved(trail, stale, saved), NEW t, NEW unused, NEW removed \in BOOLEAN,
           Owners(trail, stale, t, unused, removed), NEW x \in Return, x.hook \notin unused,
           Unspent(t, saved, x.slot, x.hook), ~removed => AfterOf(t, x.slot, x.hook)
    PROVE  Owners(Append(trail, x), stale, t, unused, removed)
<1>. trail \in Seq(Return) /\ stale \in [Hooks -> Nat] /\ saved \in [Hooks -> Seq(Int)]
  BY DEF Typed
<1>a. PICK n : n = Len(trail)
  OBVIOUS
<1>b. PICK u : u = Append(trail, x)
  OBVIOUS
<1>1. /\ DOMAIN trail = 1 .. n /\ n \in Nat /\ \A i \in 1 .. n : trail[i].hook \in Hooks
      /\ x.hook \in Hooks
  BY <1>a, TrailFacts DEF Return
<1>2. /\ DOMAIN u = 1 .. n + 1 /\ u[n + 1] = x /\ \A i \in 1 .. n : u[i] = trail[i]
      /\ \A i \in 1 .. n + 1 : i = n + 1 \/ i \in 1 .. n
  BY <1>1, <1>a, <1>b, AppendProperties
<1>3. \A i \in DOMAIN u : u[i].hook \notin unused
  BY <1>1, <1>2 DEF Owners
<1>4. \A h \in unused : stale[h] = 0
  BY DEF Owners
<1>5. ASSUME NEW i \in DOMAIN u, NEW h \in Hooks, AfterOf(t, u[i].slot, h), h # u[i].hook
      PROVE  stale[h] = 0 /\ \A j \in DOMAIN u : u[j].hook = h => j > i
  <2>1. CASE i = n + 1
    <3>1. saved[h] = <<>> /\ x.hook # h
      BY <1>2, <1>5, <2>1 DEF Unspent
    <3>2. stale[h] = 0 /\ \A j \in 1 .. n : trail[j].hook # h
      <4>1. stale[h] = 0 /\ \A j \in DOMAIN trail : trail[j].hook # h
        <5>1. saved[h] = <<>> /\ h \in Hooks
          BY <3>1
        <5>. QED BY ONLY <5>1, NothingSaved, Typed(trail, stale, saved), Saved(trail, stale, saved)
      <4>. QED BY <1>1, <4>1
    <3>. QED BY <1>2, <3>1, <3>2
  <2>2. CASE i \in 1 .. n
    <3>1. stale[h] = 0 /\ \A j \in 1 .. n : trail[j].hook = h => j > i
      BY <1>1, <1>2, <1>5, <2>2 DEF Owners
    <3>2. n + 1 > i
      BY <1>1, <2>2
    <3>. QED BY <1>2, <3>1, <3>2
  <2>. QED BY <1>2, <2>1, <2>2
<1>6. ~removed => \A i \in DOMAIN u : AfterOf(t, u[i].slot, u[i].hook)
  BY <1>1, <1>2 DEF Owners
<1>7. Owners(u, stale, t, unused, removed)
  BY <1>3, <1>4, <1>5, <1>6 DEF Owners
<1>. QED BY <1>7, <1>b

LEMMA PopOwners ==
    ASSUME NEW trail \in Seq(Return), trail # <<>>, NEW stale, NEW t, NEW unused, NEW removed \in BOOLEAN,
           Owners(trail, stale, t, unused, removed)
    PROVE  Owners(Front(trail), stale, t, unused, removed)
<1>a. PICK u : u = Front(trail)
  OBVIOUS
<1>1. DOMAIN u \subseteq DOMAIN trail /\ \A i \in DOMAIN u : u[i] = trail[i]
  <2>1. u \in Seq(Return) /\ Len(u) = Len(trail) - 1 /\ \A i \in 1 .. Len(trail) - 1 : u[i] = trail[i]
    BY <1>a, FrontFacts
  <2>. QED BY <2>1
<1>2. Owners(u, stale, t, unused, removed)
  BY <1>1 DEF Owners
<1>. QED BY <1>2, <1>a

(* A call, an entry, a return and the way back into the function that called. *)
LEMMA CallFollows ==
    ASSUME NEW trail \in Seq(Return), NEW fr \in Seq(Int), fr # <<>>, NEW l, Follows(trail, "guest", fr, l)
    PROVE  Follows(trail, "jump", fr, Site(Len(fr)))
<1>1. Len(fr) \in Nat \ {0} /\ Within(trail, Len(fr) - 1) /\ DOMAIN trail = 1 .. Len(trail)
  BY DEF Follows
<1>2. \A i \in DOMAIN trail : trail[i].depth \in 1 .. Len(fr) /\ trail[i].depth # Len(fr)
  BY <1>1 DEF Within
<1>3. Within(trail, Len(fr)) /\ ReturnsTo(trail, Len(fr), Site(Len(fr)))
  BY <1>2 DEF Within, ReturnsTo
<1>4. \A d \in 1 .. Len(fr) - 1 : ReturnsTo(trail, d, fr[d + 1])
  BY DEF Follows
<1>. QED BY <1>3, <1>4 DEF Follows, Pending

LEMMA EnterFollows ==
    ASSUME NEW trail, NEW fr \in Seq(Int), NEW l \in Int, NEW m \in Pending, Follows(trail, m, fr, l)
    PROVE  Follows(trail, "guest", Append(fr, l), l)
<1>a. PICK n : n = Len(fr)
  OBVIOUS
<1>b. PICK u : u = Append(fr, l)
  OBVIOUS
<1>1. n \in Nat /\ Len(u) = n + 1 /\ u[n + 1] = l /\ \A i \in 1 .. n : u[i] = fr[i]
  BY <1>a, <1>b, AppendProperties
<1>2. Within(trail, n) /\ ReturnsTo(trail, n, l) /\ \A d \in 1 .. n - 1 : ReturnsTo(trail, d, fr[d + 1])
  BY <1>a DEF Follows
<1>3. ASSUME NEW d \in 1 .. n PROVE ReturnsTo(trail, d, u[d + 1])
  <2>1. CASE d = n
    BY <1>1, <1>2, <2>1
  <2>2. CASE d # n
    <3>1. d \in 1 .. n - 1 /\ d + 1 \in 1 .. n
      BY <1>1, <2>2
    <3>2. u[d + 1] = fr[d + 1]
      BY <1>1, <3>1
    <3>. QED BY <1>2, <3>1, <3>2
  <2>. QED BY <2>1, <2>2
<1>4. Len(u) - 1 = n
  BY <1>1
<1>5. Follows(trail, "guest", u, l)
  BY <1>2, <1>3, <1>4 DEF Follows, Pending
<1>. QED BY <1>5, <1>b

LEMMA ReturnFollows ==
    ASSUME NEW trail, NEW fr \in Seq(Int), Len(fr) > 1, NEW l, Follows(trail, "guest", fr, l)
    PROVE  Follows(trail, "jump", Front(fr), Last(fr))
<1>a. PICK n : n = Len(fr)
  OBVIOUS
<1>b. PICK u : u = Front(fr)
  OBVIOUS
<1>1. n \in Nat /\ n > 1 /\ Len(u) = n - 1 /\ Last(fr) = fr[n] /\ \A i \in 1 .. n - 1 : u[i] = fr[i]
  <2>1. fr # <<>>
    OBVIOUS
  <2>. QED BY <1>a, <1>b, <2>1, FrontFacts
<1>2. Within(trail, n - 1) /\ \A d \in 1 .. n - 1 : ReturnsTo(trail, d, fr[d + 1])
  BY <1>a DEF Follows
<1>3. ReturnsTo(trail, n - 1, Last(fr))
  <2>1. n - 1 \in 1 .. n - 1 /\ n - 1 + 1 = n
    BY <1>1
  <2>2. ReturnsTo(trail, n - 1, fr[n - 1 + 1])
    BY <1>2, <2>1
  <2>. QED BY <1>1, <2>1, <2>2
<1>4. ASSUME NEW d \in 1 .. Len(u) - 1 PROVE ReturnsTo(trail, d, u[d + 1])
  <2>1. d \in 1 .. n - 1 /\ d + 1 \in 1 .. n - 1
    BY <1>1
  <2>. QED BY <1>1, <1>2, <2>1
<1>5. Follows(trail, "jump", u, Last(fr))
  BY <1>1, <1>2, <1>3, <1>4 DEF Follows, Pending
<1>. QED BY <1>5, <1>b

LEMMA ResumeFollows ==
    ASSUME NEW trail \in Seq(Return), NEW fr \in Seq(Int), fr # <<>>, NEW l \in Int, l < 0,
           Follows(trail, "jump", fr, l)
    PROVE  l = Site(Len(fr)) /\ Follows(trail, "guest", fr, l)
<1>a. PICK n : n = Len(fr)
  OBVIOUS
<1>1. n \in Nat \ {0} /\ Within(trail, n) /\ ReturnsTo(trail, n, l)
  BY <1>a DEF Follows, Pending
<1>2. \A i \in DOMAIN trail : trail[i].slot \in Slot /\ trail[i].depth \in Nat
  BY TrailFacts
<1>3. l = Site(n) /\ \A i \in DOMAIN trail : trail[i].depth # n
  <2>1. \A i \in DOMAIN trail : l # trail[i].slot
    BY <1>2, GotHooksAssumption DEF Slot
  <2>. QED BY <1>1, <2>1 DEF ReturnsTo
<1>4. Within(trail, n - 1)
  BY <1>1, <1>3 DEF Within
<1>. QED BY <1>3, <1>4, <1>a DEF Follows, Pending

(***************************************************************************)
(* Every step of a run leaves a trail.                                     *)
(***************************************************************************)
(* Where a return address is pushed: the call returns through the hook.      *)
Pushed(trail, h, stale, k, fr, s, sv, t, unused, removed) ==
    \E x \in Return : /\ x.hook = h /\ x.depth = Len(fr)
                      /\ Told(Append(trail, x), stale, k, fr, s, sv, t, unused, removed)

LEMMA PushTold ==
    ASSUME NEW trail, NEW stale, NEW m \in Pending, NEW fr \in Seq(Int), fr # <<>>, NEW l \in Int,
           NEW saved, saved \in [Hooks -> Seq(Int)], NEW t, NEW unused, NEW removed \in BOOLEAN,
           Told(trail, stale, m, fr, l, saved, t, unused, removed),
           NEW h \in Hooks, h \notin unused, NEW s \in Slot, Unspent(t, saved, s, h), ~removed => AfterOf(t, s, h),
           NEW sv, sv = Filed(saved, h, l), NEW k \in Pending
    PROVE  Pushed(trail, h, stale, k, fr, s, sv, t, unused, removed)
<1>a. PICK n : n = Len(fr)
  OBVIOUS
<1>b. PICK p : p = Len(saved[h]) + 1
  OBVIOUS
<1>c. PICK x : x = [hook |-> h, slot |-> s, prev |-> l, depth |-> n, pos |-> p]
  OBVIOUS
<1>d. PICK u : u = Append(trail, x)
  OBVIOUS
<1>1. /\ x \in Return /\ x.hook = h /\ x.slot = s /\ x.prev = l /\ x.depth = n /\ x.pos = Len(saved[h]) + 1
      /\ n \in Nat /\ n > 0
  <2>1. n \in Nat /\ n > 0 /\ p \in Nat
    BY <1>a, <1>b
  <2>. QED BY <2>1, <1>b, <1>c DEF Return
<1>2. /\ trail \in Seq(Return) /\ stale \in [Hooks -> Nat]
      /\ Nested(trail) /\ Follows(trail, m, fr, l)
      /\ Saved(trail, stale, saved) /\ Owners(trail, stale, t, unused, removed)
  BY DEF Told
<1>e. Typed(trail, stale, saved)
  BY <1>2 DEF Typed
<1>3. /\ Within(trail, n) /\ ReturnsTo(trail, n, l) /\ \A d \in 1 .. n - 1 : ReturnsTo(trail, d, fr[d + 1])
  BY <1>2, <1>a DEF Follows
<1>4. /\ u \in Seq(Return) /\ Nested(u) /\ Within(u, n) /\ ReturnsTo(u, n, s)
      /\ \A d \in Nat : \A a : d < n /\ ReturnsTo(trail, d, a) => ReturnsTo(u, d, a)
  BY <1>1, <1>2, <1>3, <1>d, PushNested
<1>5. Saved(u, stale, sv)
  <2>1. sv = Filed(saved, h, x.prev)
    BY <1>1
  <2>. QED BY <1>1, <1>2, <1>e, <1>d, <2>1, PushSaved
<1>6. Owners(u, stale, t, unused, removed)
  <2>1. x.hook \notin unused /\ Unspent(t, saved, x.slot, x.hook) /\ (~removed => AfterOf(t, x.slot, x.hook))
    BY <1>1
  <2>. QED BY ONLY <1>1, <1>2, <1>e, <1>d, <2>1, PushOwners, removed \in BOOLEAN
<1>7. \A d \in 1 .. n - 1 : ReturnsTo(u, d, fr[d + 1])
  <2> SUFFICES ASSUME NEW d \in 1 .. n - 1 PROVE ReturnsTo(u, d, fr[d + 1])
    OBVIOUS
  <2>1. d \in Nat /\ d < n
    BY <1>1
  <2>. QED BY <1>3, <1>4, <2>1
<1>8. Follows(u, k, fr, s)
  BY <1>4, <1>7, <1>a DEF Follows, Pending
<1>9. Told(u, stale, k, fr, s, sv, t, unused, removed)
  BY <1>2, <1>4, <1>5, <1>6, <1>8 DEF Told
<1>. QED BY <1>1, <1>9, <1>a, <1>d DEF Pushed

(* Where one is taken off: it is the top of the trail if the trampoline is   *)
(* still its hook's, and otherwise the hook that has it now has none.        *)
Popped(trail, h, stale, k, fr, saved, sv, t, unused, removed) ==
    /\ saved[h] = <<>> => removed
    /\ saved[h] # <<>> =>
          /\ trail # <<>> /\ Last(trail).hook = h /\ Last(trail).depth = Len(fr)
          /\ Told(Front(trail), stale, k, fr, Last(saved[h]), sv, t, unused, removed)

LEMMA PopTold ==
    ASSUME NEW trail, NEW stale, NEW m \in Pending, NEW fr \in Seq(Int), fr # <<>>, NEW l \in Int, l > 0,
           NEW saved \in [Hooks -> Seq(Int)], NEW t, NEW unused, NEW removed \in BOOLEAN,
           Told(trail, stale, m, fr, l, saved, t, unused, removed),
           NEW h \in Hooks, AfterOf(t, l, h), NEW k \in Pending,
           NEW sv, sv = [saved EXCEPT ![h] = Front(@)]
    PROVE  Popped(trail, h, stale, k, fr, saved, sv, t, unused, removed)
<1>a. PICK n : n = Len(fr)
  OBVIOUS
<1>b. PICK x : x = Last(trail)
  OBVIOUS
<1>c. PICK u : u = Front(trail)
  OBVIOUS
<1>f. sv = [saved EXCEPT ![h] = Front(@)]
  OBVIOUS
<1>1. /\ trail \in Seq(Return) /\ stale \in [Hooks -> Nat]
      /\ Nested(trail) /\ Follows(trail, m, fr, l)
      /\ Saved(trail, stale, saved) /\ Owners(trail, stale, t, unused, removed)
      /\ n \in Nat /\ n > 0
  BY <1>a DEF Told
<1>e. Typed(trail, stale, saved)
  BY <1>1 DEF Typed
<1>2. /\ Within(trail, n) /\ ReturnsTo(trail, n, l) /\ \A d \in 1 .. n - 1 : ReturnsTo(trail, d, fr[d + 1])
  BY <1>1, <1>a DEF Follows
<1>3. trail # <<>> /\ x.depth = n /\ x.slot = l
  BY <1>1, <1>2, <1>b, TopReturn
<1>4. /\ Len(trail) \in DOMAIN trail /\ trail[Len(trail)] = x /\ x \in Return /\ x.hook \in Hooks
      /\ \A j \in DOMAIN trail : ~(j > Len(trail))
  <2>1. Len(trail) \in Nat \ {0} /\ trail[Len(trail)] = x
    BY <1>1, <1>3, <1>b, FrontFacts
  <2>2. DOMAIN trail = 1 .. Len(trail)
    BY <1>1
  <2>3. Len(trail) \in DOMAIN trail /\ \A j \in DOMAIN trail : ~(j > Len(trail))
    BY ONLY <2>1, <2>2
  <2>4. x \in Return /\ x.hook \in Hooks
    BY <1>1, <2>1, <2>3, TrailFacts
  <2>. QED BY <2>1, <2>3, <2>4
<1>5. ~removed => AfterOf(t, l, x.hook)
  BY <1>1, <1>3, <1>4 DEF Owners
<1>6. CASE h # x.hook
  <2>1. stale[h] = 0 /\ \A j \in DOMAIN trail : trail[j].hook = h => j > Len(trail)
    BY <1>1, <1>3, <1>4, <1>6 DEF Owners
  <2>2. saved[h] = <<>>
    <3>1. stale[h] = 0 /\ \A j \in DOMAIN trail : trail[j].hook # h
      BY <1>4, <2>1
    <3>. QED BY ONLY <1>1, <1>e, <3>1, NothingSaved, h \in Hooks
  <2>3. removed
    BY <1>4, <1>5, <1>6, AfterOwner
  <2>. QED BY <2>2, <2>3 DEF Popped
<1>7. CASE h = x.hook
  <2>1. saved[h] # <<>> /\ Last(saved[h]) = x.prev /\ Saved(u, stale, sv)
    <3>1. PopLeaves(saved, h, x, u, stale, sv)
      BY ONLY <1>1, <1>e, <1>3, <1>7, <1>b, <1>c, <1>f, PopSaved
    <3>. QED BY <3>1 DEF PopLeaves
  <2>2. /\ u \in Seq(Return) /\ Nested(u) /\ Within(u, n) /\ ReturnsTo(u, n, x.prev)
        /\ \A d \in Nat : \A a : d < n /\ ReturnsTo(trail, d, a) => ReturnsTo(u, d, a)
    BY <1>1, <1>2, <1>3, <1>b, <1>c, PopNested
  <2>3. Owners(u, stale, t, unused, removed)
    BY <1>1, <1>3, <1>c, PopOwners
  <2>4. \A d \in 1 .. n - 1 : ReturnsTo(u, d, fr[d + 1])
    <3> SUFFICES ASSUME NEW d \in 1 .. n - 1 PROVE ReturnsTo(u, d, fr[d + 1])
      OBVIOUS
    <3>1. d \in Nat /\ d < n
      BY <1>1
    <3>. QED BY <1>2, <2>2, <3>1
  <2>5. Follows(u, k, fr, x.prev)
    BY <2>2, <2>4, <1>a DEF Follows, Pending
  <2>6. Told(u, stale, k, fr, x.prev, sv, t, unused, removed)
    BY <1>1, <2>1, <2>2, <2>3, <2>5 DEF Told
  <2>. QED BY <1>3, <1>7, <1>a, <1>b, <1>c, <2>1, <2>6 DEF Popped
<1>. QED BY <1>6, <1>7

(* When hooks are registered and removed.                                    *)
LEMMA InstallTold ==
    ASSUME NEW trail, NEW stale, NEW m, NEW fr, NEW l,
           NEW saved, NEW t, NEW unused, NEW removed \in BOOLEAN,
           Told(trail, stale, m, fr, l, saved, t, unused, removed),
           NEW h \in unused, NEW rest \in SUBSET unused, NEW u,
           \A k \in Hooks \ {h} : \A s : AfterOf(u, s, k) <=> AfterOf(t, s, k)
    PROVE  Told(trail, stale, m, fr, l, saved, u, rest, removed)
<1>1. trail \in Seq(Return) /\ Owners(trail, stale, t, unused, removed)
  BY DEF Told
<1>2. \A i \in DOMAIN trail : trail[i].hook \in Hooks \ {h}
  BY <1>1, TrailFacts DEF Owners
<1>3. ASSUME NEW i \in DOMAIN trail, NEW k \in Hooks, AfterOf(u, trail[i].slot, k), k # trail[i].hook
      PROVE  stale[k] = 0 /\ \A j \in DOMAIN trail : trail[j].hook = k => j > i
  <2>1. CASE k = h
    BY <1>1, <1>2, <2>1 DEF Owners
  <2>2. CASE k # h
    BY <1>1, <1>3, <2>2 DEF Owners
  <2>. QED BY <2>1, <2>2
<1>4. ~removed => \A i \in DOMAIN trail : AfterOf(u, trail[i].slot, trail[i].hook)
  BY <1>1, <1>2 DEF Owners
<1>5. (\A i \in DOMAIN trail : trail[i].hook \notin rest) /\ \A k \in rest : stale[k] = 0
  BY <1>1 DEF Owners
<1>6. Owners(trail, stale, u, rest, removed)
  BY <1>3, <1>4, <1>5 DEF Owners
<1>. QED BY <1>6 DEF Told

LEMMA RemoveTold ==
    ASSUME NEW trail, NEW stale, NEW m, NEW fr, NEW l,
           NEW saved, NEW t, NEW unused, NEW removed \in BOOLEAN,
           Told(trail, stale, m, fr, l, saved, t, unused, removed),
           NEW u, \A k \in Hooks : \A s : AfterOf(u, s, k) => AfterOf(t, s, k)
    PROVE  Told(trail, stale, m, fr, l, saved, u, unused, TRUE)
<1>1. trail \in Seq(Return) /\ Owners(trail, stale, t, unused, removed)
  BY DEF Told
<1>2. Owners(trail, stale, u, unused, TRUE)
  BY <1>1 DEF Owners
<1>. QED BY <1>2 DEF Told

(* A run begins without a trail: what is saved is stale.                     *)
LEMMA RunTold ==
    ASSUME NEW saved \in [Hooks -> Seq(Int)], NEW unused \in SUBSET Hooks,
           \A h \in unused : saved[h] = <<>>, NEW l, NEW t, NEW removed
    PROVE  \E stale : Told(<<>>, stale, "guest", <<0>>, l, saved, t, unused, removed)
<1>a. PICK stale : stale = [h \in Hooks |-> Len(saved[h])]
  OBVIOUS
<1>b. PICK trail : trail = <<>>
  OBVIOUS
<1>1. /\ trail \in Seq(Return) /\ DOMAIN trail = {} /\ stale \in [Hooks -> Nat]
  <2>1. trail \in Seq(Return) /\ DOMAIN trail = {}
    BY <1>b
  <2>2. \A h \in Hooks : Len(saved[h]) \in Nat
    OBVIOUS
  <2>. QED BY <2>1, <2>2, <1>a
<1>2. Nested(trail)
  BY <1>1 DEF Nested
<1>3. Follows(trail, "guest", <<0>>, l)
  <2>1. Len(<<0>>) = 1 /\ "guest" \notin Pending
    BY DEF Pending
  <2>2. Within(trail, Len(<<0>>) - 1)
    BY <1>1 DEF Within
  <2>3. \A d \in 1 .. Len(<<0>>) - 1 : FALSE
    BY <2>1
  <2>. QED BY <2>1, <2>2, <2>3 DEF Follows
<1>4. Saved(trail, stale, saved)
  <2>1. \A h \in Hooks : stale[h] = Len(saved[h]) /\ Len(saved[h]) \in Nat
    BY <1>a
  <2>2. \A h \in Hooks : stale[h] <= Len(saved[h]) /\ \A q \in stale[h] + 1 .. Len(saved[h]) : FALSE
    BY <2>1
  <2>. QED BY <1>1, <2>2 DEF Saved, Rising, Kept, Covered
<1>5. Owners(trail, stale, t, unused, removed)
  <2>1. \A h \in unused : stale[h] = 0
    BY <1>a
  <2>. QED BY <1>1, <2>1 DEF Owners
<1>. QED BY <1>1, <1>2, <1>3, <1>4, <1>5, <1>b DEF Told
LEMMA ToldMoves ==
    ASSUME NEW trail, NEW stale, NEW m, NEW fr, NEW l, NEW saved, NEW t, NEW unused, NEW removed,
           Told(trail, stale, m, fr, l, saved, t, unused, removed),
           NEW k, NEW f, NEW a, Follows(trail, k, f, a)
    PROVE  Told(trail, stale, k, f, a, saved, t, unused, removed)
BY DEF Told

LEMMA ToldWaits ==
    ASSUME NEW trail, NEW stale, NEW m \in Pending, NEW fr, NEW l, NEW saved, NEW t, NEW unused, NEW removed,
           Told(trail, stale, m, fr, l, saved, t, unused, removed), NEW k \in Pending
    PROVE  Told(trail, stale, k, fr, l, saved, t, unused, removed)
BY DEF Told, Follows, Pending

LEMMA AfterAllocated ==
    ASSUME NEW r, Good(r), NEW h \in Hooks, NEW s, AfterOf(r.trap, s, h)
    PROVE  s \in Slot /\ Allocated(r.trap, s) /\ r.trap.slots[s].kind = "after"
<1>1. PICK g \in Gots \cup {ENTRY} : Has(r.trap, s, After(h, g))
  BY DEF AfterOf
<1>2. After(h, g) \in Handlers /\ After(h, g).kind = "after"
  BY HandlerFacts DEF After
<1>. QED BY <1>1, <1>2, TakenSlot DEF Has

(* A jump to a trampoline that is no hook's first is a return.               *)
LEMMA JumpReturns ==
    ASSUME RegistryInv, Aimed, mode = "jump", ~skewed,
           \/ at < 0
           \/ at > 0 /\ (Allocated(reg.trap, at) => Handler.kind = "after")
    PROVE  at = lr
<1>1. at # ORIGINAL
  BY DEF ORIGINAL
<1>2. ASSUME NEW h \in Chained(reg, G), at = reg.tramp[h][G] PROVE FALSE
  <2>1. at \in Slot /\ Has(reg.trap, at, On(h, G)) /\ h \in Hooks
    BY <1>2, FirstGot, TrampolineTraps DEF RegistryInv
  <2>2. On(h, G) \in Handlers /\ On(h, G).kind = "on"
    BY <2>1, FirstGot, HandlerFacts DEF On
  <2>3. Allocated(reg.trap, at) /\ Handler.kind = "on"
    BY <2>1, <2>2, TakenSlot DEF RegistryInv, Has, Handler
  <2>4. at > 0 /\ at \in Int
    BY <2>1, GotHooksAssumption DEF Slot
  <2>5. ~(at < 0)
    BY <2>4
  <2>6. Handler.kind = "after"
    BY <2>3, <2>5
  <2>. QED BY <2>3, <2>6
<1>. QED BY <1>1, <1>2 DEF Aimed, JumpSound

(* A return address that is a trampoline is one of its hook's.               *)
LEMMA ToldOwner ==
    ASSUME NEW trail, NEW stale, NEW m \in Pending, NEW fr \in Seq(Int), fr # <<>>, NEW l \in Int, l > 0,
           NEW saved, NEW t, NEW unused, NEW removed, ~removed,
           Told(trail, stale, m, fr, l, saved, t, unused, removed)
    PROVE  \E h \in Hooks : AfterOf(t, l, h)
<1>a. PICK n : n = Len(fr)
  OBVIOUS
<1>1. /\ trail \in Seq(Return) /\ Nested(trail) /\ Follows(trail, m, fr, l)
      /\ Owners(trail, stale, t, unused, removed) /\ n \in Nat /\ n > 0
  BY <1>a DEF Told
<1>2. Within(trail, n) /\ ReturnsTo(trail, n, l)
  BY <1>1, <1>a DEF Follows
<1>b. PICK x : x = Last(trail)
  OBVIOUS
<1>3. trail # <<>> /\ x.slot = l
  BY <1>1, <1>2, <1>b, TopReturn
<1>4. Len(trail) \in Nat \ {0} /\ trail[Len(trail)] = x /\ DOMAIN trail = 1 .. Len(trail)
  BY <1>1, <1>3, <1>b, FrontFacts, TrailFacts
<1>5. Len(trail) \in DOMAIN trail /\ x.hook \in Hooks
  BY <1>1, <1>4, TrailFacts
<1>. QED BY <1>1, <1>3, <1>4, <1>5 DEF Owners

CallsInv == RegistryInv /\ Basics /\ Aimed /\ Trailed /\ FaultOnlyIfTorn

LEMMA GuestTold ==
    ASSUME CallsInv, ~skewed, NEW trail, NEW stale, Tells(trail, stale),
           GuestCall \/ EnterOriginal \/ GuestReturn \/ Resume
    PROVE  Tells(trail, stale)'
<1>1. /\ savedLr' = savedLr /\ reg' = reg /\ fresh' = fresh /\ torn' = torn /\ mode # "idle"
  BY DEF GuestCall, EnterOriginal, GuestReturn, Resume, registered, past
<1>2. /\ Told(trail, stale, mode, frames, lr, savedLr, reg.trap, fresh, torn)
      /\ trail \in Seq(Return) /\ Follows(trail, mode, frames, lr)
  BY DEF Tells, Told
<1>3. frames \in Seq(Int) /\ frames # <<>> /\ lr \in Int
  BY <1>1 DEF CallsInv, Basics
<1>4. CASE GuestCall
  <2>1. mode = "guest" /\ mode' = "jump" /\ frames' = frames /\ lr' = Site(Len(frames))
    BY <1>4 DEF GuestCall, Jump
  <2>2. Follows(trail, "jump", frames, Site(Len(frames)))
    BY <1>2, <1>3, <2>1, CallFollows
  <2>. QED BY <1>1, <1>2, <2>1, <2>2, ToldMoves DEF Tells
<1>5. CASE EnterOriginal
  <2>1. mode = "jump" /\ mode' = "guest" /\ frames' = Append(frames, lr) /\ lr' = lr
    BY <1>5 DEF EnterOriginal, EnterBody
  <2>2. Follows(trail, "guest", Append(frames, lr), lr)
    BY <1>2, <1>3, <2>1, EnterFollows DEF Pending
  <2>. QED BY <1>1, <1>2, <2>1, <2>2, ToldMoves DEF Tells
<1>6. CASE GuestReturn
  <2>1. /\ mode = "guest" /\ mode' = "jump" /\ frames' = Front(frames) /\ lr' = Last(frames)
        /\ Len(frames) > 1
    BY <1>6 DEF GuestReturn, Jump
  <2>2. Follows(trail, "jump", Front(frames), Last(frames))
    BY <1>2, <1>3, <2>1, ReturnFollows
  <2>. QED BY <1>1, <1>2, <2>1, <2>2, ToldMoves DEF Tells
<1>7. CASE Resume
  <2>1. mode = "jump" /\ mode' = "guest" /\ frames' = frames /\ lr' = lr /\ at < 0
    BY <1>7 DEF Resume
  <2>2. at = lr
    BY <2>1, JumpReturns DEF CallsInv
  <2>3. Follows(trail, "guest", frames, lr)
    BY <1>2, <1>3, <2>1, <2>2, ResumeFollows
  <2>. QED BY <1>1, <1>2, <2>1, <2>3, ToldMoves DEF Tells
<1>. QED BY <1>4, <1>5, <1>6, <1>7

LEMMA RunBegins ==
    ASSUME CallsInv, Run
    PROVE  \E stale : Tells(<<>>, stale)'
<1>1. /\ savedLr' = savedLr /\ reg' = reg /\ fresh' = fresh /\ lr' = lr
      /\ mode' = "guest" /\ frames' = <<0>>
  BY DEF Run, registered
<1>2. savedLr \in [Hooks -> Seq(Int)] /\ fresh \in SUBSET Hooks /\ \A h \in fresh : savedLr[h] = <<>>
  BY DEF CallsInv, Basics
<1>a. PICK removed : removed = torn'
  OBVIOUS
<1>3. PICK stale : Told(<<>>, stale, "guest", <<0>>, lr, savedLr, reg.trap, fresh, removed)
  BY <1>2, RunTold
<1>4. Tells(<<>>, stale)'
  BY <1>1, <1>3, <1>a DEF Tells
<1>. QED BY <1>4

LEMMA GuestTrail ==
    ASSUME CallsInv, Run \/ GuestCall \/ EnterOriginal \/ GuestReturn \/ Resume \/ FinishRun
    PROVE  Trailed' /\ FaultOnlyIfTorn'
<1>1. CASE Run
  <2>1. Trailed'
    BY <1>1, RunBegins DEF Trailed
  <2>. QED BY <1>1, <2>1 DEF Run, FaultOnlyIfTorn
<1>2. CASE FinishRun
  BY <1>2 DEF FinishRun, CallsInv, Trailed, FaultOnlyIfTorn, past
<1>3. CASE GuestCall \/ EnterOriginal \/ GuestReturn \/ Resume
  <2>1. torn' = torn /\ skewed' = skewed /\ fault' = fault /\ mode # "idle"
    BY <1>3 DEF GuestCall, EnterOriginal, GuestReturn, Resume, past
  <2>2. FaultOnlyIfTorn'
    BY <2>1 DEF CallsInv, FaultOnlyIfTorn
  <2>3. ASSUME ~skewed PROVE Trailed'
    <3>1. PICK trail, stale : Tells(trail, stale)
      BY <2>1, <2>3 DEF CallsInv, Trailed
    <3>2. Tells(trail, stale)'
      BY <1>3, <2>3, <3>1, GuestTold
    <3>. QED BY <3>2 DEF Trailed
  <2>4. skewed => Trailed'
    BY <2>1 DEF Trailed
  <2>. QED BY <2>2, <2>3, <2>4
<1>. QED BY <1>1, <1>2, <1>3

LEMMA TrapFacts ==
    ASSUME CallsInv, TrapFreed \/ TrapOn \/ TrapAfter \/ ReachEntry
    PROVE  /\ reg' = reg /\ fresh' = fresh /\ torn' = torn /\ skewed' = skewed /\ mode = "jump"
           /\ at \in Int /\ frames \in Seq(Int) /\ frames # <<>> /\ lr \in Int /\ torn \in BOOLEAN
           /\ savedLr \in [Hooks -> Seq(Int)] /\ Good(reg)
BY DEF TrapFreed, TrapOn, TrapAfter, ReachEntry, registered, past, CallsInv, Basics, RegistryInv

LEMMA TrapTold ==
    ASSUME CallsInv, ~skewed, NEW trail, NEW stale, Tells(trail, stale), TrapOn \/ ReachEntry
    PROVE  Tells(trail, stale)'
<1>1. /\ reg' = reg /\ fresh' = fresh /\ torn' = torn /\ mode = "jump"
  BY TrapFacts
<1>2. /\ mode' \in {"on", "entry"} /\ frames' = frames /\ lr' = lr /\ savedLr' = savedLr
  BY DEF TrapOn, ReachEntry
<1>a. PICK k : k = mode'
  OBVIOUS
<1>3. Told(trail, stale, "jump", frames, lr, savedLr, reg.trap, fresh, torn)
  BY <1>1 DEF Tells
<1>4. "jump" \in Pending /\ k \in Pending
  BY <1>2, <1>a DEF Pending
<1>5. Told(trail, stale, k, frames, lr, savedLr, reg.trap, fresh, torn)
  BY ONLY <1>3, <1>4, ToldWaits
<1>. QED BY <1>1, <1>2, <1>5, <1>a DEF Tells

(* The trap of a second trampoline.                                          *)
LEMMA AfterTold ==
    ASSUME CallsInv, ~skewed, NEW trail, NEW stale, Tells(trail, stale), TrapAfter,
           NEW h, h = Handler.hook
    PROVE  /\ at = lr /\ h \in Hooks
           /\ savedLr[h] = <<>> => torn
           /\ savedLr[h] # <<>> => /\ trail # <<>> /\ Last(trail).hook = h /\ Last(trail).depth = Len(frames)
                                   /\ Tells(Front(trail), stale)'
<1>1. /\ reg' = reg /\ fresh' = fresh /\ torn' = torn /\ skewed' = skewed /\ mode = "jump"
      /\ at \in Int /\ frames \in Seq(Int) /\ frames # <<>> /\ lr \in Int /\ torn \in BOOLEAN
      /\ savedLr \in [Hooks -> Seq(Int)] /\ Good(reg)
  BY TrapFacts
<1>b. PICK sv : sv = [savedLr EXCEPT ![h] = Front(@)]
  OBVIOUS
<1>2. at > 0 /\ Allocated(reg.trap, at) /\ Handler.kind = "after"
  BY DEF TrapAfter
<1>3. at = lr
  BY <1>1, <1>2, JumpReturns DEF CallsInv
<1>4. h \in Hooks /\ AfterOf(reg.trap, lr, h)
  <2>1. Handler \in Handlers /\ Has(reg.trap, at, Handler)
    BY <1>1, <1>2 DEF Allocated, Handler, Has, Good, Registry, Table
  <2>2. h \in Hooks /\ Handler.got \in Gots \cup {ENTRY} /\ Handler = After(h, Handler.got)
    BY <1>2, <2>1 DEF Handlers, After
  <2>. QED BY <1>3, <2>1, <2>2 DEF AfterOf
<1>5. Popped(trail, h, stale, "after", frames, savedLr, sv, reg.trap, fresh, torn)
  <2>1. lr > 0 /\ "jump" \in Pending /\ "after" \in Pending
    BY <1>2, <1>3 DEF Pending
  <2>2. Told(trail, stale, "jump", frames, lr, savedLr, reg.trap, fresh, torn)
    BY <1>1 DEF Tells
  <2>. QED BY ONLY <1>1, <1>b, <1>4, <2>1, <2>2, PopTold
<1>6. ASSUME savedLr[h] # <<>> PROVE Tells(Front(trail), stale)'
  <2>1. /\ mode' = "after" /\ frames' = frames /\ lr' = Last(savedLr[h]) /\ savedLr' = sv
    BY <1>b, <1>6 DEF TrapAfter, SavedLr
  <2>a. PICK u : u = Front(trail)
    OBVIOUS
  <2>2. Told(u, stale, "after", frames, Last(savedLr[h]), sv, reg.trap, fresh, torn)
    BY <1>5, <1>6, <2>a DEF Popped
  <2>3. Tells(u, stale)'
    BY <1>1, <2>1, <2>2 DEF Tells
  <2>. QED BY <2>3, <2>a
<1>. QED BY <1>3, <1>4, <1>5, <1>6 DEF Popped

LEMMA TrapTrail ==
    ASSUME CallsInv, TrapFreed \/ TrapOn \/ TrapAfter \/ ReachEntry
    PROVE  Trailed' /\ FaultOnlyIfTorn'
<1>1. /\ reg' = reg /\ fresh' = fresh /\ torn' = torn /\ skewed' = skewed /\ mode = "jump"
      /\ at \in Int /\ frames \in Seq(Int) /\ frames # <<>> /\ lr \in Int /\ torn \in BOOLEAN
      /\ savedLr \in [Hooks -> Seq(Int)] /\ Good(reg)
  BY TrapFacts
<1>2. CASE skewed
  BY <1>1, <1>2 DEF Trailed, FaultOnlyIfTorn
<1>3. CASE ~skewed
  <2>1. PICK trail, stale : Tells(trail, stale)
    BY <1>1, <1>3 DEF CallsInv, Trailed
  <2>2. CASE TrapFreed
    <3>1. at > 0 /\ ~Allocated(reg.trap, at) /\ mode' = "idle"
      BY <2>2 DEF TrapFreed, Abort
    <3>2. at = lr
      BY <1>1, <1>3, <3>1, JumpReturns DEF CallsInv
    <3>3. ASSUME ~torn PROVE FALSE
      <4>1. PICK h \in Hooks : AfterOf(reg.trap, lr, h)
        BY <1>1, <2>1, <3>1, <3>2, <3>3, ToldOwner DEF Pending, Tells
      <4>. QED BY <1>1, <3>1, <3>2, <4>1, AfterAllocated
    <3>. QED BY <1>1, <3>1, <3>3 DEF Trailed, FaultOnlyIfTorn
  <2>3. CASE TrapOn \/ ReachEntry
    <3>1. Tells(trail, stale)'
      BY <1>3, <2>1, <2>3, TrapTold
    <3>2. fault' = fault
      BY <2>3 DEF TrapOn, ReachEntry
    <3>. QED BY <1>1, <3>1, <3>2 DEF CallsInv, Trailed, FaultOnlyIfTorn
  <2>4. CASE TrapAfter
    <3>a. PICK h : h = Handler.hook
      OBVIOUS
    <3>1. /\ savedLr[h] = <<>> => torn
          /\ savedLr[h] # <<>> => Tells(Front(trail), stale)'
      BY <1>3, <2>1, <2>4, <3>a, AfterTold
    <3>2. CASE savedLr[h] = <<>>
      <4>1. mode' = "idle"
        BY <2>4, <3>a, <3>2 DEF TrapAfter, Abort
      <4>. QED BY <1>1, <3>1, <3>2, <4>1 DEF Trailed, FaultOnlyIfTorn
    <3>3. CASE savedLr[h] # <<>>
      <4>1. fault' = fault
        BY <2>4, <3>a, <3>3 DEF TrapAfter
      <4>a. PICK u : u = Front(trail)
        OBVIOUS
      <4>2. Tells(u, stale)'
        BY <3>1, <3>3, <4>a
      <4>. QED BY <1>1, <4>1, <4>2 DEF CallsInv, Trailed, FaultOnlyIfTorn
    <3>. QED BY <3>2, <3>3
  <2>. QED BY <2>2, <2>3, <2>4
<1>. QED BY <1>2, <1>3

(* h, a callback of which calls the original, notes a return address at s.   *)
Grown(trail, stale, h, s) ==
    \/ s = NONE /\ Tells(trail, stale)
    \/ s # NONE /\ \E x \in Return : x.hook = h /\ x.depth = Len(frames) /\ Tells(Append(trail, x), stale)

LEMMA OnTold ==
    ASSUME CallsInv, ~skewed, NEW trail, NEW stale, Tells(trail, stale), OnCallsOriginal,
           NEW h, h = at, NEW s, s = reg.after[h][G]
    PROVE  /\ Places(h) = {} => torn
           /\ Places(h) # {} => Grown(trail, stale, h, s)'
<1>1. /\ reg' = reg /\ fresh' = fresh /\ torn' = torn /\ mode = "on"
      /\ frames \in Seq(Int) /\ frames # <<>> /\ lr \in Int /\ torn \in BOOLEAN
      /\ savedLr \in [Hooks -> Seq(Int)] /\ Good(reg)
  BY DEF OnCallsOriginal, registered, past, CallsInv, Basics, RegistryInv
<1>c. PICK sv : sv = savedLr'
  OBVIOUS
<1>2. h \in Hooks /\ h \notin fresh
  BY <1>1 DEF CallsInv, Basics
<1>3. Unspent(reg.trap, savedLr, s, h) /\ (~torn => h \in Chained(reg, G))
  BY <1>1 DEF CallsInv, Aimed, OnSound
<1>4. Places(h) = {} => torn
  BY <1>2, <1>3, OlderFacts DEF CallsInv
<1>5. ASSUME Places(h) # {} PROVE Grown(trail, stale, h, s)'
  <2>1. /\ mode' = "jump" /\ frames' = frames
        /\ lr' = IF s # NONE THEN s ELSE lr
        /\ sv = IF s # NONE THEN [savedLr EXCEPT ![h] = Append(@, lr)] ELSE savedLr
    BY <1>c, <1>5 DEF OnCallsOriginal, Jump
  <2>2. /\ "on" \in Pending /\ "jump" \in Pending
        /\ Told(trail, stale, "on", frames, lr, savedLr, reg.trap, fresh, torn)
    BY <1>1 DEF Pending, Tells
  <2>3. CASE s = NONE
    <3>1. Told(trail, stale, "jump", frames, lr, savedLr, reg.trap, fresh, torn)
      BY ONLY <2>2, ToldWaits
    <3>2. Tells(trail, stale)'
      BY <1>1, <2>1, <2>3, <3>1, <1>c DEF Tells
    <3>. QED BY <2>3, <3>2 DEF Grown
  <2>4. CASE s # NONE
    <3>1. s \in Slot
      <4>1. s \in Slot \cup {NONE}
        BY <1>1, <1>2, FirstGot DEF Good, Registry
      <4>. QED BY <2>4, <4>1
    <3>2. ~torn => AfterOf(reg.trap, s, h)
      BY <1>1, <1>2, <1>3, <2>4, FirstGot, OwnsAfter
    <3>3. sv = Filed(savedLr, h, lr) /\ lr' = s
      BY <2>1, <2>4 DEF Filed
    <3>4. Pushed(trail, h, stale, "jump", frames, s, sv, reg.trap, fresh, torn)
      BY ONLY <1>1, <1>2, <1>3, <2>2, <3>1, <3>2, <3>3, PushTold
    <3>5. PICK x \in Return : /\ x.hook = h /\ x.depth = Len(frames)
                              /\ Told(Append(trail, x), stale, "jump", frames, s, sv, reg.trap, fresh, torn)
      BY <3>4 DEF Pushed
    <3>a. PICK u : u = Append(trail, x)
      OBVIOUS
    <3>6. Tells(u, stale)'
      BY <1>1, <2>1, <3>3, <3>5, <3>a, <1>c DEF Tells
    <3>. QED BY <2>1, <2>4, <3>5, <3>6, <3>a DEF Grown
  <2>. QED BY <2>3, <2>4
<1>. QED BY <1>4, <1>5

LEMMA JumpTold ==
    ASSUME CallsInv, NEW trail, NEW stale, Tells(trail, stale),
           OnSkips \/ AfterReturns
    PROVE  Tells(trail, stale)'
<1>1. /\ reg' = reg /\ fresh' = fresh /\ torn' = torn /\ mode \in {"on", "after"}
      /\ mode' = "jump" /\ frames' = frames /\ lr' = lr /\ savedLr' = savedLr
  BY DEF OnSkips, AfterReturns, Jump, registered, past
<1>a. PICK k : k = mode
  OBVIOUS
<1>2. k \in Pending /\ "jump" \in Pending /\ Told(trail, stale, k, frames, lr, savedLr, reg.trap, fresh, torn)
  BY <1>1, <1>a DEF Pending, Tells
<1>3. Told(trail, stale, "jump", frames, lr, savedLr, reg.trap, fresh, torn)
  BY ONLY <1>2, ToldWaits
<1>. QED BY <1>1, <1>3 DEF Tells

LEMMA CallbackTrail ==
    ASSUME CallsInv, OnCallsOriginal \/ OnSkips \/ AfterReturns \/ CallbackRaises
    PROVE  Trailed' /\ FaultOnlyIfTorn'
<1>1. CASE CallbackRaises
  BY <1>1 DEF CallbackRaises, Abort, Trailed, FaultOnlyIfTorn
<1>2. CASE OnCallsOriginal \/ OnSkips \/ AfterReturns
  <2>1. torn' = torn /\ skewed' = skewed /\ mode # "idle" /\ torn \in BOOLEAN
    BY <1>2 DEF OnCallsOriginal, OnSkips, AfterReturns, past, CallsInv, Basics
  <2>2. CASE skewed
    BY <2>1, <2>2 DEF Trailed, FaultOnlyIfTorn
  <2>3. CASE ~skewed
    <3>1. PICK trail, stale : Tells(trail, stale)
      BY <2>1, <2>3 DEF CallsInv, Trailed
    <3>2. CASE OnSkips \/ AfterReturns
      <4>1. Tells(trail, stale)' /\ fault' = fault
        BY <3>1, <3>2, JumpTold DEF OnSkips, AfterReturns
      <4>. QED BY <2>1, <4>1 DEF CallsInv, Trailed, FaultOnlyIfTorn
    <3>3. CASE OnCallsOriginal
      <4>a. PICK h : h = at
        OBVIOUS
      <4>b. PICK s : s = reg.after[h][G]
        OBVIOUS
      <4>1. /\ Places(h) = {} => torn
            /\ Places(h) # {} => Grown(trail, stale, h, s)'
        BY <2>3, <3>1, <3>3, <4>a, <4>b, OnTold
      <4>2. CASE Places(h) = {}
        <5>1. mode' = "idle"
          BY <3>3, <4>a, <4>2 DEF OnCallsOriginal, Abort
        <5>. QED BY <2>1, <4>1, <4>2, <5>1 DEF Trailed, FaultOnlyIfTorn
      <4>3. CASE Places(h) # {}
        <5>1. fault' = fault
          BY <3>3, <4>a, <4>3 DEF OnCallsOriginal
        <5>2. Trailed'
          BY <4>1, <4>3 DEF Grown, Trailed
        <5>. QED BY <2>1, <5>1, <5>2 DEF CallsInv, FaultOnlyIfTorn
      <4>. QED BY <4>2, <4>3
    <3>. QED BY <1>2, <3>2, <3>3
  <2>. QED BY <2>2, <2>3
<1>. QED BY <1>1, <1>2

LEMMA EntryFacts ==
    ASSUME CallsInv, EntryCallsOriginal \/ EntrySkips \/ EntryDone
    PROVE  /\ reg' = reg /\ fresh' = fresh /\ torn' = torn /\ fault' = fault /\ mode = "entry"
           /\ frames \in Seq(Int) /\ frames # <<>> /\ lr \in Int /\ torn \in BOOLEAN
           /\ savedLr \in [Hooks -> Seq(Int)] /\ Good(reg) /\ (skewed => skewed')
BY DEF EntryCallsOriginal, EntrySkips, EntryDone, OnEntry, registered, past, CallsInv, Basics, RegistryInv

LEMMA HandlerTold ==
    ASSUME CallsInv, ~skewed, NEW trail, NEW stale, Tells(trail, stale), EntryCallsOriginal,
           NEW h, h = Head(todo), NEW s, s = reg.after[h][ENTRY]
    PROVE  Grown(trail, stale, h, s)'
<1>1. /\ reg' = reg /\ fresh' = fresh /\ torn' = torn /\ mode = "entry" /\ mode' = "entry" /\ frames' = frames
      /\ frames \in Seq(Int) /\ frames # <<>> /\ lr \in Int /\ torn \in BOOLEAN
      /\ savedLr \in [Hooks -> Seq(Int)] /\ Good(reg)
  BY EntryFacts DEF EntryCallsOriginal
<1>c. PICK sv : sv = savedLr'
  OBVIOUS
<1>2. h \in ToSet(todo) /\ h \in Hooks /\ h \notin fresh
  <2>1. todo \in Seq(Hooks) /\ todo # <<>> /\ ToSet(todo) \cap fresh = {}
    BY <1>1 DEF EntryCallsOriginal, OnEntry, CallsInv, Basics
  <2>2. h \in ToSet(todo) /\ h \in Hooks
    BY <2>1, TailFacts
  <2>. QED BY <2>1, <2>2
<1>3. Unspent(reg.trap, savedLr, s, h) /\ (~torn => h \in Replacing)
  BY <1>1, <1>2 DEF CallsInv, Aimed, EntrySound
<1>4. /\ lr' = IF s # NONE THEN s ELSE lr
      /\ sv = IF s # NONE THEN [savedLr EXCEPT ![h] = Append(@, lr)] ELSE savedLr
  BY <1>c DEF EntryCallsOriginal
<1>5. CASE s = NONE
  <2>1. Tells(trail, stale)'
    BY <1>1, <1>4, <1>5, <1>c DEF Tells
  <2>. QED BY <1>5, <2>1 DEF Grown
<1>6. CASE s # NONE
  <2>0. ENTRY \in Gots \cup {ENTRY}
    OBVIOUS
  <2>1. s \in Slot
    <3>1. s \in Slot \cup {NONE}
      BY <1>1, <1>2, <2>0 DEF Good, Registry
    <3>. QED BY <1>6, <3>1
  <2>2. ~torn => AfterOf(reg.trap, s, h)
    BY <1>1, <1>2, <1>3, <1>6, <2>0, OwnsAfter DEF Replacing
  <2>3. sv = Filed(savedLr, h, lr) /\ lr' = s
    BY <1>4, <1>6 DEF Filed
  <2>4. "entry" \in Pending /\ Told(trail, stale, "entry", frames, lr, savedLr, reg.trap, fresh, torn)
    BY <1>1 DEF Pending, Tells
  <2>5. Pushed(trail, h, stale, "entry", frames, s, sv, reg.trap, fresh, torn)
    BY ONLY <1>1, <1>2, <1>3, <2>1, <2>2, <2>3, <2>4, PushTold
  <2>6. PICK x \in Return : /\ x.hook = h /\ x.depth = Len(frames)
                            /\ Told(Append(trail, x), stale, "entry", frames, s, sv, reg.trap, fresh, torn)
    BY <2>5 DEF Pushed
  <2>a. PICK u : u = Append(trail, x)
    OBVIOUS
  <2>7. Tells(u, stale)'
    BY <1>1, <2>3, <2>6, <2>a, <1>c DEF Tells
  <2>. QED BY <1>1, <1>6, <2>6, <2>7, <2>a DEF Grown
<1>. QED BY <1>5, <1>6

LEMMA EntryTold ==
    ASSUME CallsInv, ~skewed, NEW trail, NEW stale, Tells(trail, stale), EntrySkips \/ EntryDone
    PROVE  Tells(trail, stale)'
<1>1. /\ reg' = reg /\ fresh' = fresh /\ torn' = torn /\ mode = "entry"
      /\ frames \in Seq(Int) /\ frames # <<>> /\ lr \in Int
  BY EntryFacts
<1>2. lr' = lr /\ savedLr' = savedLr
  BY DEF EntrySkips, EntryDone, registered
<1>3. Told(trail, stale, "entry", frames, lr, savedLr, reg.trap, fresh, torn) /\ "entry" \in Pending /\ "jump" \in Pending
  BY <1>1 DEF Tells, Pending
<1>4. CASE EntrySkips
  <2>1. mode' = "entry" /\ frames' = frames
    BY <1>1, <1>4 DEF EntrySkips
  <2>. QED BY <1>1, <1>2, <1>3, <2>1 DEF Tells
<1>5. CASE EntryDone
  <2>1. CASE EnterBody
    <3>1. mode' = "guest" /\ frames' = Append(frames, lr)
      BY <2>1 DEF EnterBody
    <3>2. Follows(trail, "entry", frames, lr)
      BY <1>3 DEF Told
    <3>3. Follows(trail, "guest", Append(frames, lr), lr)
      BY <1>1, <1>3, <3>2, EnterFollows
    <3>4. Told(trail, stale, "guest", Append(frames, lr), lr, savedLr, reg.trap, fresh, torn)
      BY <1>3, <3>3, ToldMoves
    <3>. QED BY <1>1, <1>2, <3>1, <3>4 DEF Tells
  <2>2. CASE Jump(pc) /\ UNCHANGED frames
    <3>1. mode' = "jump" /\ frames' = frames
      BY <2>2 DEF Jump
    <3>2. Told(trail, stale, "jump", frames, lr, savedLr, reg.trap, fresh, torn)
      BY ONLY <1>3, ToldWaits
    <3>. QED BY <1>1, <1>2, <3>1, <3>2 DEF Tells
  <2>. QED BY <1>5, <2>1, <2>2 DEF EntryDone
<1>. QED BY <1>4, <1>5

LEMMA EntryTrail ==
    ASSUME CallsInv, EntryCallsOriginal \/ EntrySkips \/ EntryDone
    PROVE  Trailed' /\ FaultOnlyIfTorn'
<1>1. fault' = fault /\ torn' = torn /\ mode = "entry" /\ (skewed => skewed')
  BY EntryFacts
<1>2. FaultOnlyIfTorn'
  BY <1>1 DEF CallsInv, FaultOnlyIfTorn
<1>3. CASE skewed'
  BY <1>2, <1>3 DEF Trailed
<1>4. CASE ~skewed'
  <2>1. PICK trail, stale : Tells(trail, stale)
    BY <1>1, <1>4 DEF CallsInv, Trailed
  <2>2. CASE EntrySkips \/ EntryDone
    <3>1. Tells(trail, stale)'
      BY <1>1, <1>4, <2>1, <2>2, EntryTold
    <3>. QED BY <1>2, <3>1 DEF Trailed
  <2>3. CASE EntryCallsOriginal
    <3>a. PICK h : h = Head(todo)
      OBVIOUS
    <3>b. PICK s : s = reg.after[h][ENTRY]
      OBVIOUS
    <3>1. Grown(trail, stale, h, s)'
      BY <1>1, <1>4, <2>1, <2>3, <3>a, <3>b, HandlerTold
    <3>2. Trailed'
      BY <3>1 DEF Grown, Trailed
    <3>. QED BY <1>2, <3>2
  <2>. QED BY <2>2, <2>3
<1>. QED BY <1>3, <1>4

LEMMA RegisteredTold ==
    ASSUME CallsInv, NEW h \in Hooks, NEW post \in BOOLEAN, InstallHook(h, post),
           NEW trail, NEW stale, Tells(trail, stale)
    PROVE  Tells(trail, stale)'
<1>1. /\ mode' = mode /\ frames' = frames /\ lr' = lr /\ savedLr' = savedLr /\ torn' = torn
      /\ h \in fresh /\ fresh' \subseteq fresh
  BY DEF InstallHook, machine, entry, past
<1>a. PICK rest : rest = fresh'
  OBVIOUS
<1>b. PICK u : u = reg'.trap
  OBVIOUS
<1>2. h \notin active /\ torn \in BOOLEAN /\ RegistryInv
  BY <1>1 DEF CallsInv, Basics
<1>3. \A k \in Hooks \ {h} : \A s : AfterOf(u, s, k) <=> AfterOf(reg.trap, s, k)
  BY <1>2, <1>b, InstallChange
<1>4. Told(trail, stale, mode, frames, lr, savedLr, reg.trap, fresh, torn)
  BY DEF Tells
<1>5. Told(trail, stale, mode, frames, lr, savedLr, u, rest, torn)
  BY ONLY <1>1, <1>2, <1>3, <1>4, <1>a, InstallTold
<1>. QED BY <1>1, <1>5, <1>a, <1>b DEF Tells

LEMMA InstallTrail ==
    ASSUME CallsInv, NEW h \in Hooks, NEW post \in BOOLEAN, InstallHook(h, post)
    PROVE  Trailed' /\ FaultOnlyIfTorn'
<1>1. mode' = mode /\ torn' = torn /\ skewed' = skewed /\ fault' = fault
  BY DEF InstallHook, machine, past
<1>2. FaultOnlyIfTorn'
  BY <1>1 DEF CallsInv, FaultOnlyIfTorn
<1>3. ASSUME mode # "idle", ~skewed PROVE Trailed'
  <2>1. PICK trail, stale : Tells(trail, stale)
    BY <1>3 DEF CallsInv, Trailed
  <2>2. Tells(trail, stale)'
    BY <2>1, RegisteredTold
  <2>. QED BY <2>2 DEF Trailed
<1>. QED BY <1>1, <1>2, <1>3 DEF Trailed

LEMMA RemoveTrail ==
    ASSUME CallsInv, NEW h \in Hooks, RemoveHook(h)
    PROVE  Trailed' /\ FaultOnlyIfTorn'
<1>1. /\ mode' = mode /\ frames' = frames /\ lr' = lr /\ savedLr' = savedLr
      /\ torn' = (torn \/ mode # "idle")
      /\ skewed' = skewed /\ fault' = fault /\ fresh' = fresh
  BY DEF RemoveHook
<1>2. FaultOnlyIfTorn'
  BY <1>1 DEF CallsInv, FaultOnlyIfTorn
<1>3. ASSUME mode # "idle", ~skewed PROVE Trailed'
  <2>1. PICK trail, stale : Told(trail, stale, mode, frames, lr, savedLr, reg.trap, fresh, torn)
    BY <1>3 DEF CallsInv, Trailed, Tells
  <2>b. PICK u : u = reg'.trap
    OBVIOUS
  <2>c. PICK removed : removed = torn'
    OBVIOUS
  <2>2. torn \in BOOLEAN /\ RegistryInv
    BY DEF CallsInv, Basics
  <2>3. \A k \in Hooks : \A s : AfterOf(u, s, k) => AfterOf(reg.trap, s, k)
    BY <2>2, <2>b, RemoveChange
  <2>4. Told(trail, stale, mode, frames, lr, savedLr, u, fresh, TRUE)
    BY ONLY <2>1, <2>2, <2>3, RemoveTold
  <2>5. removed = TRUE
    BY <1>1, <1>3, <2>c
  <2>6. Tells(trail, stale)'
    BY <1>1, <2>4, <2>5, <2>b, <2>c DEF Tells
  <2>. QED BY <2>6 DEF Trailed
<1>. QED BY <1>1, <1>2, <1>3 DEF Trailed

LEMMA CallsInductive == HSpec => []CallsInv
<1>1. HInit => CallsInv
  BY AimsBegin DEF HInit, CallsInv, Trailed, FaultOnlyIfTorn
<1>2. CallsInv /\ [HNext]_hvars => CallsInv'
  <2> SUFFICES ASSUME CallsInv, [HNext]_hvars PROVE CallsInv'
    OBVIOUS
  <2>1. RegistryInv' /\ Basics' /\ Aimed'
    BY AimsInductive DEF CallsInv
  <2>2. CASE UNCHANGED hvars
    <3>1. /\ reg' = reg /\ fresh' = fresh /\ savedLr' = savedLr /\ mode' = mode /\ lr' = lr /\ frames' = frames
          /\ torn' = torn /\ skewed' = skewed /\ fault' = fault
      BY <2>2 DEF hvars, registered, machine, past
    <3>. QED BY <2>1, <3>1 DEF CallsInv, Trailed, Tells, FaultOnlyIfTorn
  <2>3. CASE HNext
    <3>1. CASE \E h \in Hooks, post \in BOOLEAN : InstallHook(h, post)
      BY <2>1, <3>1, InstallTrail DEF CallsInv
    <3>2. CASE \E h \in Hooks : RemoveHook(h)
      BY <2>1, <3>2, RemoveTrail DEF CallsInv
    <3>. QED BY <2>1, <2>3, <3>1, <3>2, GuestTrail, TrapTrail, CallbackTrail, EntryTrail DEF HNext, CallsInv
  <2>. QED BY <2>2, <2>3
<1>. QED BY <1>1, <1>2, PTL DEF HSpec

(* A guest that returns to a return site returns into the function that made *)
(* the call (the SVC trampolines of hooks, with saved_lr).                   *)
THEOREM ReturnsAlwaysToCaller == HSpec => []ReturnsToCaller
<1>1. CallsInv => ReturnsToCaller
  <2> SUFFICES ASSUME CallsInv, mode = "jump", at < 0, ~skewed PROVE at = Site(Len(frames))
    BY DEF ReturnsToCaller
  <2>1. at = lr
    BY JumpReturns DEF CallsInv
  <2>2. PICK trail, stale : Tells(trail, stale)
    BY DEF CallsInv, Trailed
  <2>3. trail \in Seq(Return) /\ Follows(trail, "jump", frames, lr)
    BY <2>2 DEF Tells, Told
  <2>4. frames \in Seq(Int) /\ frames # <<>> /\ lr \in Int
    BY DEF CallsInv, Basics
  <2>. QED BY <2>1, <2>3, <2>4, ResumeFollows
<1>. QED BY <1>1, CallsInductive, PTL

(* Without a removal or a skew during the run, no trampoline is missing, no  *)
(* saved_lr empty and no hook out of its chain when the guest comes by.      *)
THEOREM FaultsOnlyAlwaysIfTorn == HSpec => []FaultOnlyIfTorn
<1>1. CallsInv => FaultOnlyIfTorn
  BY DEF CallsInv
<1>. QED BY <1>1, CallsInductive, PTL

(***************************************************************************)
(* Sequences without some of their elements, and sequences turned around.  *)
(***************************************************************************)
(* f[n] is what is left of the first n elements of s.                        *)
Filters(f, s, S, n) ==
    f = [i \in 0 .. n |-> IF i = 0 THEN <<>> ELSE IF s[i] \in S THEN Append(f[i - 1], s[i]) ELSE f[i - 1]]

LEMMA FilterExists ==
    ASSUME NEW n \in Nat, NEW s, NEW S
    PROVE  \E f : Filters(f, s, S, n)
<1> DEFINE Is(g, m) == g = [i \in 0 .. m |-> IF i = 0 THEN <<>> ELSE IF s[i] \in S THEN Append(g[i - 1], s[i]) ELSE g[i - 1]]
<1> DEFINE Bad == {m \in Nat : ~\E g : Is(g, m)}
<1>0. \A g, m : Filters(g, s, S, m) <=> Is(g, m)
  BY DEF Filters
<1>1. SUFFICES ASSUME Bad # {} PROVE FALSE
  <2>1. n \notin Bad
    BY <1>1
  <2>2. \E g : Is(g, n)
    BY <2>1
  <2>. QED BY <1>0, <2>2
<1>2. PICK m \in Bad : \A j \in Bad : m <= j
  BY <1>1, LeastNumber
<1>3. m \in Nat /\ ~\E g : Is(g, m)
  BY <1>2
<1>4. CASE m = 0
  <2>1. Is([i \in 0 .. 0 |-> <<>>], 0)
    OBVIOUS
  <2>. QED BY <1>3, <1>4, <2>1
<1>5. CASE m # 0
  <2>1. m - 1 \in Nat /\ ~(m <= m - 1)
    BY <1>3, <1>5
  <2>2. PICK g : Is(g, m - 1)
    BY <1>2, <2>1
  <2>a. PICK last : last = IF s[m] \in S THEN Append(g[m - 1], s[m]) ELSE g[m - 1]
    OBVIOUS
  <2>b. PICK f : f = [i \in 0 .. m |-> IF i = m THEN last ELSE g[i]]
    OBVIOUS
  <2>3. \A i \in 0 .. m : i # m => i \in 0 .. m - 1
    BY <1>3
  <2>4. \A i \in 0 .. m : f[i] = IF i = 0 THEN <<>> ELSE IF s[i] \in S THEN Append(f[i - 1], s[i]) ELSE f[i - 1]
    <3>1. ASSUME NEW i \in 0 .. m, i = m
          PROVE  f[i] = IF i = 0 THEN <<>> ELSE IF s[i] \in S THEN Append(f[i - 1], s[i]) ELSE f[i - 1]
      <4>1. f[i - 1] = g[m - 1] /\ f[i] = last /\ i # 0
        BY <1>3, <1>5, <2>b, <3>1
      <4>. QED BY <2>a, <3>1, <4>1
    <3>2. ASSUME NEW i \in 0 .. m, i # m
          PROVE  f[i] = IF i = 0 THEN <<>> ELSE IF s[i] \in S THEN Append(f[i - 1], s[i]) ELSE f[i - 1]
      <4>1. i \in 0 .. m - 1 /\ f[i] = g[i]
        BY <1>3, <2>b, <2>3, <3>2
      <4>2. g[i] = IF i = 0 THEN <<>> ELSE IF s[i] \in S THEN Append(g[i - 1], s[i]) ELSE g[i - 1]
        BY <2>2, <4>1
      <4>3. i # 0 => f[i - 1] = g[i - 1]
        BY <1>3, <2>b, <3>2
      <4>. QED BY <4>1, <4>2, <4>3
    <3>. QED BY <3>1, <3>2
  <2>5. f = [i \in 0 .. m |-> f[i]]
    BY <2>b
  <2>6. Is(f, m)
    BY <2>4, <2>5
  <2>. QED BY <1>3, <2>6
<1>. QED BY <1>4, <1>5

LEMMA OnlyIs ==
    ASSUME NEW T, NEW s \in Seq(T), NEW S
    PROVE  \E f : Filters(f, s, S, Len(s)) /\ Only(s, S) = f[Len(s)]
<1>a. PICK n : n = Len(s)
  OBVIOUS
<1> DEFINE f[i \in 0 .. n] ==
            IF i = 0 THEN <<>> ELSE IF s[i] \in S THEN Append(f[i - 1], s[i]) ELSE f[i - 1]
<1>1. Filters(f, s, S, n)
  <2>1. \E g : Filters(g, s, S, n)
    BY <1>a, FilterExists
  <2>. QED BY <2>1 DEF Filters
<1>2. Only(s, S) = f[n]
  BY <1>a DEF Only
<1>. QED BY <1>1, <1>2, <1>a

(* What is left depends only on the elements, and on which of them are kept. *)
LEMMA FilterAgrees ==
    ASSUME NEW n \in Nat, NEW f, NEW s, NEW S, Filters(f, s, S, n),
           NEW m \in Nat, n <= m, NEW g, NEW r, NEW R, Filters(g, r, R, m),
           \A i \in 1 .. n : s[i] = r[i] /\ (s[i] \in S <=> r[i] \in R)
    PROVE  f[n] = g[n]
<1> DEFINE Bad == {i \in 0 .. n : f[i] # g[i]}
<1>1. SUFFICES ASSUME Bad # {} PROVE FALSE
  <2>1. n \in 0 .. n /\ n \notin Bad
    BY <1>1
  <2>. QED BY <2>1
<1>2. PICK i \in Bad : \A j \in Bad : i <= j
  <2>1. Bad \in SUBSET Nat
    OBVIOUS
  <2>. QED BY <1>1, <2>1, LeastNumber
<1>3. i \in 0 .. n /\ i \in 0 .. m /\ f[i] # g[i]
  BY <1>2
<1>4. f[i] = IF i = 0 THEN <<>> ELSE IF s[i] \in S THEN Append(f[i - 1], s[i]) ELSE f[i - 1]
  BY <1>3 DEF Filters
<1>5. g[i] = IF i = 0 THEN <<>> ELSE IF r[i] \in R THEN Append(g[i - 1], r[i]) ELSE g[i - 1]
  BY <1>3 DEF Filters
<1>6. i # 0
  BY <1>3, <1>4, <1>5
<1>7. i - 1 \in 0 .. n /\ ~(i <= i - 1) /\ i \in 1 .. n
  BY <1>3, <1>6
<1>8. f[i - 1] = g[i - 1]
  BY <1>2, <1>7
<1>. QED BY <1>3, <1>4, <1>5, <1>6, <1>7, <1>8

LEMMA FilterTyped ==
    ASSUME NEW T, NEW s \in Seq(T), NEW S, NEW n \in 0 .. Len(s), NEW f, Filters(f, s, S, n)
    PROVE  f[n] \in Seq(T)
<1> DEFINE Bad == {i \in 0 .. n : f[i] \notin Seq(T)}
<1>1. SUFFICES ASSUME Bad # {} PROVE FALSE
  <2>1. n \in 0 .. n /\ n \notin Bad
    BY <1>1
  <2>. QED BY <2>1
<1>2. PICK i \in Bad : \A j \in Bad : i <= j
  <2>1. Bad \in SUBSET Nat
    OBVIOUS
  <2>. QED BY <1>1, <2>1, LeastNumber
<1>3. i \in 0 .. n /\ f[i] \notin Seq(T)
  BY <1>2
<1>4. f[i] = IF i = 0 THEN <<>> ELSE IF s[i] \in S THEN Append(f[i - 1], s[i]) ELSE f[i - 1]
  BY <1>3 DEF Filters
<1>5. i # 0
  BY <1>3, <1>4
<1>6. i - 1 \in 0 .. n /\ ~(i <= i - 1) /\ i \in 1 .. Len(s)
  BY <1>3, <1>5
<1>7. f[i - 1] \in Seq(T) /\ s[i] \in T
  BY <1>2, <1>6
<1>8. Append(f[i - 1], s[i]) \in Seq(T)
  BY <1>7
<1>. QED BY <1>3, <1>4, <1>5, <1>7, <1>8

LEMMA OnlyTyped ==
    ASSUME NEW T, NEW s \in Seq(T), NEW S
    PROVE  Only(s, S) \in Seq(T)
<1>1. PICK f : Filters(f, s, S, Len(s)) /\ Only(s, S) = f[Len(s)]
  BY OnlyIs
<1>2. Len(s) \in 0 .. Len(s)
  OBVIOUS
<1>. QED BY <1>1, <1>2, FilterTyped

LEMMA OnlyEmpty ==
    ASSUME NEW S
    PROVE  Only(<<>>, S) = <<>>
<1>a. PICK s : s = <<>>
  OBVIOUS
<1>1. s \in Seq({}) /\ Len(s) = 0
  BY <1>a
<1>2. PICK f : Filters(f, s, S, 0) /\ Only(s, S) = f[0]
  BY <1>1, OnlyIs
<1>3. f[0] = <<>>
  BY <1>2 DEF Filters
<1>. QED BY <1>2, <1>3, <1>a

LEMMA OnlyAppend ==
    ASSUME NEW T, NEW s \in Seq(T), NEW x \in T, NEW S
    PROVE  Only(Append(s, x), S) = IF x \in S THEN Append(Only(s, S), x) ELSE Only(s, S)
<1>a. PICK n : n = Len(s)
  OBVIOUS
<1>b. PICK t : t = Append(s, x)
  OBVIOUS
<1>1. n \in Nat /\ t \in Seq(T) /\ Len(t) = n + 1 /\ t[n + 1] = x /\ \A i \in 1 .. n : t[i] = s[i]
  BY <1>a, <1>b, AppendProperties
<1>2. PICK f : Filters(f, s, S, n) /\ Only(s, S) = f[n]
  BY <1>a, OnlyIs
<1>3. PICK g : Filters(g, t, S, n + 1) /\ Only(t, S) = g[n + 1]
  BY <1>1, OnlyIs
<1>4. f[n] = g[n]
  <2>1. n + 1 \in Nat /\ n <= n + 1
    BY <1>1
  <2>2. \A i \in 1 .. n : s[i] = t[i] /\ (s[i] \in S <=> t[i] \in S)
    BY <1>1
  <2>. QED BY <1>1, <1>2, <1>3, <2>1, <2>2, FilterAgrees
<1>5. g[n + 1] = IF t[n + 1] \in S THEN Append(g[n], t[n + 1]) ELSE g[n]
  <2>1. \A i \in 0 .. n + 1 : g[i] = IF i = 0 THEN <<>> ELSE IF t[i] \in S THEN Append(g[i - 1], t[i]) ELSE g[i - 1]
    BY <1>3 DEF Filters
  <2>2. n + 1 \in 0 .. n + 1 /\ n + 1 # 0 /\ n + 1 - 1 = n
    BY <1>1
  <2>a. PICK j : j = n + 1
    OBVIOUS
  <2>3. g[j] = IF j = 0 THEN <<>> ELSE IF t[j] \in S THEN Append(g[j - 1], t[j]) ELSE g[j - 1]
    BY <2>1, <2>2, <2>a
  <2>4. j - 1 = n /\ j # 0
    BY ONLY <1>1, <2>a
  <2>. QED BY <2>3, <2>4, <2>a
<1>. QED BY <1>1, <1>2, <1>3, <1>4, <1>5, <1>b

LEMMA OnlySame ==
    ASSUME NEW T, NEW s \in Seq(T), NEW S, NEW R, \A x \in ToSet(s) : x \in S <=> x \in R
    PROVE  Only(s, S) = Only(s, R)
<1>1. PICK f : Filters(f, s, S, Len(s)) /\ Only(s, S) = f[Len(s)]
  BY OnlyIs
<1>2. PICK g : Filters(g, s, R, Len(s)) /\ Only(s, R) = g[Len(s)]
  BY OnlyIs
<1>3. \A i \in 1 .. Len(s) : s[i] \in ToSet(s)
  BY DEF ToSet
<1>4. \A i \in 1 .. Len(s) : s[i] = s[i] /\ (s[i] \in S <=> s[i] \in R)
  BY <1>3
<1>5. Len(s) \in Nat /\ Len(s) <= Len(s)
  OBVIOUS
<1>. QED BY <1>1, <1>2, <1>4, <1>5, FilterAgrees

LEMMA OnlyNone ==
    ASSUME NEW T, NEW s \in Seq(T), NEW S, \A x \in ToSet(s) : x \notin S
    PROVE  Only(s, S) = <<>>
<1>1. PICK f : Filters(f, s, S, Len(s)) /\ Only(s, S) = f[Len(s)]
  BY OnlyIs
<1>a. PICK n : n = Len(s)
  OBVIOUS
<1>2. n \in Nat /\ \A i \in 1 .. n : s[i] \notin S
  BY <1>a DEF ToSet
<1> DEFINE Bad == {i \in 0 .. n : f[i] # <<>>}
<1>3. SUFFICES ASSUME Bad # {} PROVE FALSE
  <2>1. n \in 0 .. n /\ n \notin Bad
    BY <1>2, <1>3
  <2>. QED BY <1>1, <1>a, <2>1
<1>4. PICK i \in Bad : \A j \in Bad : i <= j
  <2>1. Bad \in SUBSET Nat
    OBVIOUS
  <2>. QED BY <1>3, <2>1, LeastNumber
<1>5. i \in 0 .. n /\ f[i] # <<>>
  BY <1>4
<1>6. f[i] = IF i = 0 THEN <<>> ELSE IF s[i] \in S THEN Append(f[i - 1], s[i]) ELSE f[i - 1]
  BY <1>1, <1>5, <1>a DEF Filters
<1>7. i # 0
  BY <1>5, <1>6
<1>8. i - 1 \in 0 .. n /\ ~(i <= i - 1) /\ i \in 1 .. n
  BY <1>2, <1>5, <1>7
<1>9. f[i - 1] = <<>>
  BY <1>4, <1>8, SMTT(30)
<1>. QED BY <1>2, <1>5, <1>6, <1>7, <1>8, <1>9

LEMMA ReverseFacts ==
    ASSUME NEW T, NEW s \in Seq(T)
    PROVE  /\ Reverse(s) \in Seq(T) /\ Len(Reverse(s)) = Len(s)
           /\ \A i \in 1 .. Len(s) : Reverse(s)[i] = s[Len(s) - i + 1]
           /\ Reverse(Reverse(s)) = s
<1>a. PICK n : n = Len(s)
  OBVIOUS
<1>b. PICK t : t = Reverse(s)
  OBVIOUS
<1>c. PICK u : u = Reverse(t)
  OBVIOUS
<1>1. n \in Nat /\ \A i \in 1 .. n : s[i] \in T /\ n - i + 1 \in 1 .. n
  BY <1>a
<1>2. t = [i \in 1 .. n |-> s[n - i + 1]]
  BY <1>a, <1>b DEF Reverse
<1>3. t \in Seq(T) /\ Len(t) = n /\ \A i \in 1 .. n : t[i] = s[n - i + 1]
  BY <1>1, <1>2
<1>4. u = [i \in 1 .. n |-> t[n - i + 1]]
  BY <1>3, <1>c DEF Reverse
<1>5. \A i \in 1 .. n : u[i] = s[i]
  <2> SUFFICES ASSUME NEW i \in 1 .. n PROVE u[i] = s[i]
    OBVIOUS
  <2>1. n - i + 1 \in 1 .. n /\ n - (n - i + 1) + 1 = i
    BY <1>1
  <2>. QED BY <1>3, <1>4, <2>1
<1>6. u \in Seq(T) /\ Len(u) = n
  BY <1>1, <1>4, <1>5
<1>7. u = s
  BY <1>5, <1>6, <1>a, SeqEqual
<1>. QED BY <1>3, <1>7, <1>a, <1>b, <1>c

(* Taking the last off one end and noting it at the other.                   *)
LEMMA ReverseMoves ==
    ASSUME NEW T, NEW s \in Seq(T), NEW r \in Seq(T), NEW x \in T
    PROVE  Append(s, x) \o Reverse(r) = s \o Reverse(Append(r, x))
<1>a. PICK n : n = Len(s)
  OBVIOUS
<1>b. PICK m : m = Len(r)
  OBVIOUS
<1>c. PICK a : a = Append(s, x)
  OBVIOUS
<1>d. PICK b : b = Append(r, x)
  OBVIOUS
<1>e. PICK p : p = Reverse(r)
  OBVIOUS
<1>f. PICK q : q = Reverse(b)
  OBVIOUS
<1>1. n \in Nat /\ a \in Seq(T) /\ Len(a) = n + 1 /\ a[n + 1] = x /\ \A i \in 1 .. n : a[i] = s[i]
  BY <1>a, <1>c, AppendProperties
<1>2. m \in Nat /\ b \in Seq(T) /\ Len(b) = m + 1 /\ b[m + 1] = x /\ \A i \in 1 .. m : b[i] = r[i]
  BY <1>b, <1>d, AppendProperties
<1>3. p \in Seq(T) /\ Len(p) = m /\ \A i \in 1 .. m : p[i] = r[m - i + 1]
  BY <1>b, <1>e, ReverseFacts
<1>4. q \in Seq(T) /\ Len(q) = m + 1 /\ \A i \in 1 .. m + 1 : q[i] = b[m + 1 - i + 1]
  BY <1>2, <1>f, ReverseFacts
<1>5. q[1] = x /\ \A i \in 2 .. m + 1 : q[i] = p[i - 1]
  <2>1. 1 \in 1 .. m + 1 /\ m + 1 - 1 + 1 = m + 1
    BY <1>2
  <2>2. q[1] = x
    BY <1>2, <1>4, <2>1
  <2>3. ASSUME NEW i \in 2 .. m + 1 PROVE q[i] = p[i - 1]
    <3>1. i \in 1 .. m + 1 /\ i - 1 \in 1 .. m /\ m + 1 - i + 1 = m - (i - 1) + 1 /\ m + 1 - i + 1 \in 1 .. m
      BY <1>2
    <3>. QED BY <1>2, <1>3, <1>4, <3>1
  <2>. QED BY <2>2, <2>3
<1>g. PICK u : u = a \o p
  OBVIOUS
<1>h. PICK v : v = s \o q
  OBVIOUS
<1>6. u \in Seq(T) /\ Len(u) = n + 1 + m /\ \A i \in 1 .. n + 1 + m : u[i] = IF i <= n + 1 THEN a[i] ELSE p[i - (n + 1)]
  <2>1. /\ u \in Seq(T) /\ Len(u) = Len(a) + Len(p)
        /\ \A i \in 1 .. Len(a) + Len(p) : u[i] = IF i <= Len(a) THEN a[i] ELSE p[i - Len(a)]
    BY ONLY <1>1, <1>3, <1>g, ConcatProperties
  <2>. QED BY <1>1, <1>3, <2>1
<1>7. v \in Seq(T) /\ Len(v) = n + (m + 1) /\ \A i \in 1 .. n + (m + 1) : v[i] = IF i <= n THEN s[i] ELSE q[i - n]
  BY <1>4, <1>a, <1>h, ConcatProperties
<1>8. Len(v) = n + 1 + m /\ \A i \in 1 .. n + 1 + m : v[i] = IF i <= n THEN s[i] ELSE q[i - n]
  BY <1>1, <1>2, <1>7
<1>9. ASSUME NEW i \in 1 .. n + 1 + m PROVE u[i] = v[i]
  <2>1. CASE i <= n
    <3>1. i \in 1 .. n /\ i <= n + 1
      BY <1>1, <2>1
    <3>. QED BY <1>1, <1>6, <1>8, <2>1, <3>1
  <2>2. CASE i = n + 1
    <3>1. ~(i <= n) /\ i <= n + 1 /\ i - n = 1
      BY <1>1, <2>2
    <3>. QED BY <1>1, <1>5, <1>6, <1>8, <2>2, <3>1
  <2>3. CASE i > n + 1
    <3>1. ~(i <= n) /\ ~(i <= n + 1) /\ i - n \in 2 .. m + 1 /\ i - n - 1 = i - (n + 1)
      BY <1>1, <1>2, <2>3
    <3>. QED BY <1>5, <1>6, <1>8, <3>1
  <2>. QED BY <1>1, <2>1, <2>2, <2>3
<1>10. u = v
  BY <1>6, <1>7, <1>8, <1>9, SeqEqual
<1>. QED BY <1>10, <1>c, <1>d, <1>e, <1>f, <1>g, <1>h

(***************************************************************************)
(* The hooks of the trail that the function called at depth d returns      *)
(* through, the first to be passed last.                                   *)
(***************************************************************************)
At(d) == {x \in Return : x.depth = d}

HooksOf(q) == [i \in 1 .. Len(q) |-> q[i].hook]

Part(trail, d) == HooksOf(Only(trail, At(d)))

LEMMA HooksOfAppend ==
    ASSUME NEW q \in Seq(Return), NEW x \in Return
    PROVE  /\ HooksOf(q) \in Seq(Hooks)
           /\ HooksOf(Append(q, x)) = Append(HooksOf(q), x.hook)
<1>a. PICK n : n = Len(q)
  OBVIOUS
<1>b. PICK u : u = Append(q, x)
  OBVIOUS
<1>c. PICK p : p = HooksOf(q)
  OBVIOUS
<1>d. PICK v : v = HooksOf(u)
  OBVIOUS
<1>e. PICK w : w = Append(p, x.hook)
  OBVIOUS
<1>1. n \in Nat /\ u \in Seq(Return) /\ Len(u) = n + 1 /\ u[n + 1] = x /\ \A i \in 1 .. n : u[i] = q[i]
  BY <1>a, <1>b, AppendProperties
<1>2. (\A i \in 1 .. n : q[i].hook \in Hooks) /\ x.hook \in Hooks
  BY <1>a, TrailFacts DEF Return
<1>3. p = [i \in 1 .. n |-> q[i].hook]
  BY <1>a, <1>c DEF HooksOf
<1>4. p \in Seq(Hooks) /\ Len(p) = n /\ \A i \in 1 .. n : p[i] = q[i].hook
  BY <1>1, <1>2, <1>3
<1>5. v = [i \in 1 .. n + 1 |-> u[i].hook]
  BY <1>1, <1>d DEF HooksOf
<1>6. \A i \in 1 .. n + 1 : u[i].hook \in Hooks
  BY <1>1, TrailFacts
<1>7. n + 1 \in Nat
  BY <1>1
<1>8. v \in Seq(Hooks) /\ Len(v) = n + 1 /\ \A i \in 1 .. n + 1 : v[i] = u[i].hook
  BY <1>5, <1>6, <1>7
<1>9. w \in Seq(Hooks) /\ Len(w) = n + 1 /\ w[n + 1] = x.hook /\ \A i \in 1 .. n : w[i] = p[i]
  BY <1>2, <1>4, <1>e, AppendProperties
<1>10. \A i \in 1 .. n + 1 : v[i] = w[i]
  <2> SUFFICES ASSUME NEW i \in 1 .. n + 1 PROVE v[i] = w[i]
    OBVIOUS
  <2>1. CASE i = n + 1
    BY <1>1, <1>8, <1>9, <2>1
  <2>2. CASE i # n + 1
    <3>1. i \in 1 .. n
      BY <1>1, <2>2
    <3>. QED BY <1>1, <1>4, <1>8, <1>9, <3>1
  <2>. QED BY <2>1, <2>2
<1>11. v = w
  BY <1>8, <1>9, <1>10, SeqEqual
<1>. QED BY <1>4, <1>11, <1>b, <1>c, <1>d, <1>e

LEMMA PartTyped ==
    ASSUME NEW trail \in Seq(Return), NEW d
    PROVE  Part(trail, d) \in Seq(Hooks)
<1>1. Only(trail, At(d)) \in Seq(Return)
  BY OnlyTyped
<1>2. \A i \in 1 .. Len(Only(trail, At(d))) : Only(trail, At(d))[i].hook \in Hooks
  BY <1>1, TrailFacts
<1>3. Len(Only(trail, At(d))) \in Nat
  BY <1>1
<1>. QED BY <1>2, <1>3 DEF Part, HooksOf

LEMMA NoPart ==
    ASSUME NEW trail \in Seq(Return), NEW d \in Nat, Within(trail, d - 1)
    PROVE  Part(trail, d) = <<>>
<1>1. \A x \in ToSet(trail) : x \notin At(d)
  BY DEF Within, ToSet, At
<1>2. Only(trail, At(d)) = <<>>
  BY <1>1, OnlyNone
<1>3. Len(<<>>) = 0
  OBVIOUS
<1>. QED BY <1>2, <1>3 DEF Part, HooksOf

LEMMA PartPush ==
    ASSUME NEW trail \in Seq(Return), NEW x \in Return, NEW d
    PROVE  Part(Append(trail, x), d) = IF x.depth = d THEN Append(Part(trail, d), x.hook) ELSE Part(trail, d)
<1>1. Only(Append(trail, x), At(d)) = IF x \in At(d) THEN Append(Only(trail, At(d)), x) ELSE Only(trail, At(d))
  BY OnlyAppend
<1>2. Only(trail, At(d)) \in Seq(Return)
  BY OnlyTyped
<1>3. x \in At(d) <=> x.depth = d
  BY DEF At
<1>. QED BY <1>1, <1>2, <1>3, HooksOfAppend DEF Part

LEMMA FrontLast ==
    ASSUME NEW S, NEW s \in Seq(S), s # <<>>
    PROVE  s = Append(Front(s), Last(s))
<1>a. PICK n : n = Len(s)
  OBVIOUS
<1>b. PICK f : f = Front(s)
  OBVIOUS
<1>c. PICK x : x = Last(s)
  OBVIOUS
<1>d. PICK u : u = Append(f, x)
  OBVIOUS
<1>1. /\ f \in Seq(S) /\ Len(f) = n - 1 /\ n \in Nat \ {0}
      /\ (\A i \in 1 .. n - 1 : f[i] = s[i]) /\ x = s[n] /\ x \in S
  BY <1>a, <1>b, <1>c, FrontFacts
<1>2. u \in Seq(S) /\ Len(u) = n /\ u[n] = x /\ \A i \in 1 .. n - 1 : u[i] = f[i]
  BY <1>1, <1>d, AppendProperties
<1>3. \A i \in 1 .. n : i = n \/ i \in 1 .. n - 1
  BY <1>1
<1>4. \A i \in 1 .. n : u[i] = s[i]
  BY <1>1, <1>2, <1>3
<1>5. u = s
  BY <1>2, <1>4, <1>a, SeqEqual
<1>. QED BY <1>5, <1>b, <1>c, <1>d

LEMMA PartPop ==
    ASSUME NEW trail \in Seq(Return), trail # <<>>, NEW x, x = Last(trail), NEW t, t = Front(trail), NEW d
    PROVE  Part(trail, d) = IF x.depth = d THEN Append(Part(t, d), x.hook) ELSE Part(t, d)
<1>1. trail = Append(t, x) /\ t \in Seq(Return) /\ x \in Return
  BY FrontLast, FrontFacts
<1>. QED BY <1>1, PartPush

(***************************************************************************)
(* A call on its way: seg are the hooks whose second trampolines it is     *)
(* still to pass, the last of them first.                                  *)
(***************************************************************************)
Call ==
    [chain : Seq(Hooks), ons : Seq(Hooks), skip : BOOLEAN, breaks : Seq(Hooks),
     ins : Seq(Hooks), skips : SUBSET Hooks, bodies : Nat, afters : Seq(Hooks)]

Starts(s, t) == Len(s) <= Len(t) /\ \A i \in 1 .. Len(s) : s[i] = t[i]

(* The hooks on the import that ran are the newest of its chain.             *)
Newer(c) == Len(c.ons) <= Len(c.chain) /\ \A i \in 1 .. Len(c.ons) : c.ons[i] = c.chain[Len(c.chain) - i + 1]

AllRan(c) == Newer(c) /\ Len(c.ons) = Len(c.chain)

(* The call is over, but for post_calls.                                     *)
Over(c) ==
    /\ Newer(c) /\ (c.skip \/ Len(c.ons) = Len(c.chain))
    /\ c.ins = c.breaks /\ (c.skip => c.breaks = <<>>)
    /\ c.bodies = (IF c.skip \/ c.skips # {} THEN 0 ELSE 1)

Back(c, seg) == Over(c) /\ Noted(c) = seg \o Reverse(c.afters)

Young(c) == ~c.skip /\ c.bodies = 0 /\ c.afters = <<>>

(* It is among the hooks on the import, of which those in s have called on.  *)
Onward(c, s, seg) ==
    /\ Young(c) /\ c.breaks = <<>> /\ c.ins = <<>> /\ c.skips = {}
    /\ Newer(c) /\ Starts(c.chain, reg.chain[G]) /\ seg = Only(s, WithPost(G))

NextOf(c) ==
    IF Len(c.ons) = Len(c.chain) THEN ORIGINAL ELSE reg.tramp[c.chain[Len(c.chain) - Len(c.ons)]][G]

(* It is among the hooks on the entry of the original.                       *)
Inward(c, seg) ==
    /\ Young(c) /\ AllRan(c)
    /\ c.breaks = c.ins \o todo /\ Distinct(c.breaks)
    /\ c.skips \subseteq ToSet(c.ins) /\ (pc = ORIGINAL <=> c.skips = {})
    /\ seg = Noted(c)

Returning(c, seg) == mode \in {"jump", "after"} /\ (mode = "jump" => at = lr) /\ Back(c, seg)
Calling(c, seg)   == mode = "jump" /\ at = NextOf(c) /\ Onward(c, c.ons, seg)
Deciding(c, seg)  == mode = "on" /\ c.ons # <<>> /\ Last(c.ons) = at /\ Onward(c, Front(c.ons), seg)
Entering(c, seg)  == mode = "entry" /\ Inward(c, seg)

Underway(c, seg) == Returning(c, seg) \/ Calling(c, seg) \/ Deciding(c, seg) \/ Entering(c, seg)

(* The hooks that a call has met are not new any more.                       *)
Known(c) == ToSet(c.ons) \cap fresh = {} /\ ToSet(c.ins) \cap fresh = {}

Depth == IF mode = "guest" THEN Len(frames) - 1 ELSE Len(frames)

Composed(trail) ==
    /\ Len(calls) = Depth
    /\ \A i \in 1 .. Len(calls) : Known(calls[i])
    /\ \A i \in 1 .. Len(frames) - 1 : Back(calls[i], Part(trail, i))
    /\ mode # "guest" => Underway(calls[Len(frames)], Part(trail, Len(frames)))

Composes == \E trail, stale : Tells(trail, stale) /\ Composed(trail)

ComposeInv ==
    /\ CallsInv
    /\ calls \in Seq(Call)
    /\ mode = "idle" \/ Untold => calls = <<>>
    /\ done # NoCall => mode = "guest"
    /\ CallsCompose
    /\ mode # "idle" /\ ~Untold => Composes

LEMMA CallFacts ==
    ASSUME NEW c \in Call
    PROVE  /\ c.chain \in Seq(Hooks) /\ c.ons \in Seq(Hooks) /\ c.skip \in BOOLEAN /\ c.breaks \in Seq(Hooks)
           /\ c.ins \in Seq(Hooks) /\ c.skips \subseteq Hooks /\ c.bodies \in Nat /\ c.afters \in Seq(Hooks)
BY DEF Call

LEMMA CallTyped ==
    ASSUME NEW s \in Seq(Hooks), NEW e \in Seq(Hooks), NEW f \in BOOLEAN, NEW z \in SUBSET Hooks, NEW n \in Nat
    PROVE  [chain |-> s, ons |-> e, skip |-> f, breaks |-> e, ins |-> e, skips |-> z,
            bodies |-> n, afters |-> e] \in Call
BY DEF Call

LEMMA NewCall ==
    ASSUME NEW s \in Seq(Hooks), NEW c, c = [NoCall EXCEPT !.chain = s]
    PROVE  /\ c \in Call /\ Young(c) /\ c.chain = s /\ c.ons = <<>> /\ c.breaks = <<>>
           /\ c.ins = <<>> /\ c.skips = {}
<1>1. c = [chain |-> s, ons |-> <<>>, skip |-> FALSE, breaks |-> <<>>, ins |-> <<>>,
           skips |-> {}, bodies |-> 0, afters |-> <<>>]
  BY DEF NoCall
<1>2. <<>> \in Seq(Hooks) /\ {} \in SUBSET Hooks /\ 0 \in Nat
  OBVIOUS
<1>3. FALSE \in BOOLEAN
  OBVIOUS
<1>4. c \in Call
  BY ONLY <1>1, <1>2, <1>3, CallTyped, s \in Seq(Hooks)
<1>5. ~c.skip /\ c.bodies = 0 /\ c.afters = <<>>
  BY <1>1
<1>. QED BY <1>1, <1>4, <1>5 DEF Young

LEMMA CallStays ==
    ASSUME NEW c \in Call
    PROVE  /\ [c EXCEPT !.skip = TRUE] \in Call
           /\ \A n \in Nat : [c EXCEPT !.bodies = n] \in Call
           /\ \A s \in Seq(Hooks) :
                 /\ [c EXCEPT !.ons = s] \in Call /\ [c EXCEPT !.breaks = s] \in Call
                 /\ [c EXCEPT !.ins = s] \in Call /\ [c EXCEPT !.afters = s] \in Call
                 /\ \A z \in SUBSET Hooks : [c EXCEPT !.ins = s, !.skips = z] \in Call
BY ZenonT(60) DEF Call

(* What is done to the last of the calls.                                    *)
Amended(cs, ds, d) ==
    /\ ds \in Seq(Call) /\ Len(ds) = Len(cs) /\ ds[Len(cs)] = d
    /\ \A i \in 1 .. Len(cs) - 1 : ds[i] = cs[i]

LEMMA Amends ==
    ASSUME NEW cs \in Seq(Call), cs # <<>>, NEW d \in Call, NEW ds, ds = [cs EXCEPT ![Len(cs)] = d]
    PROVE  Amended(cs, ds, d) /\ Last(cs) = cs[Len(cs)] /\ Last(cs) \in Call
<1>a. PICK n : n = Len(cs)
  OBVIOUS
<1>1. n \in Nat \ {0} /\ n \in 1 .. n /\ cs[n] \in Call
  BY <1>a
<1>2. ds \in Seq(Call) /\ Len(ds) = n /\ \A i \in 1 .. n : ds[i] = IF i = n THEN d ELSE cs[i]
  BY <1>1, <1>a, ExceptSeq
<1>3. \A i \in 1 .. n - 1 : i \in 1 .. n /\ i # n
  BY <1>1
<1>4. ds[n] = d /\ \A i \in 1 .. n - 1 : ds[i] = cs[i]
  BY <1>1, <1>2, <1>3
<1>. QED BY <1>1, <1>2, <1>4, <1>a DEF Amended, Last

LEMMA SameCall ==
    ASSUME reg' = reg, NEW c, NEW s, NEW seg
    PROVE  /\ Back(c, seg)' <=> Back(c, seg)
           /\ Noted(c)' = Noted(c) /\ NextOf(c)' = NextOf(c)
           /\ Onward(c, s, seg)' <=> Onward(c, s, seg)
<1>1. WithPost(G)' = WithPost(G) /\ WithPost(ENTRY)' = WithPost(ENTRY)
  BY DEF WithPost
<1>2. Noted(c)' = Noted(c)
  BY <1>1 DEF Noted
<1>. QED BY <1>1, <1>2 DEF Back, NextOf, Onward

LEMMA OnItsWay ==
    ASSUME ComposeInv, ~Untold, mode \in Pending, NEW trail, NEW stale, Tells(trail, stale), Composed(trail),
           NEW n, n = Len(frames), NEW c, c = Last(calls)
    PROVE  /\ n \in Nat \ {0} /\ calls \in Seq(Call) /\ calls # <<>> /\ Len(calls) = n /\ c = calls[n]
           /\ c \in Call /\ Known(c) /\ Underway(c, Part(trail, n))
           /\ trail \in Seq(Return) /\ lr \in Int /\ lr # ORIGINAL
           /\ RegistryInv /\ CallsInv /\ ~torn /\ ~skewed
<1>1. mode # "idle" /\ mode # "guest"
  BY DEF Pending
<1>2. frames \in Seq(Int) /\ frames # <<>> /\ lr \in Int /\ RegistryInv /\ CallsInv
  BY <1>1 DEF ComposeInv, CallsInv, Basics
<1>3. n \in Nat \ {0}
  BY <1>2
<1>4. calls \in Seq(Call) /\ Len(calls) = n
  BY <1>1 DEF ComposeInv, Composed, Depth
<1>5. calls # <<>> /\ c = calls[n] /\ c \in Call /\ n \in 1 .. Len(calls)
  BY <1>3, <1>4 DEF Last
<1>6. Known(c) /\ Underway(c, Part(trail, n))
  BY <1>1, <1>5 DEF Composed
<1>7. trail \in Seq(Return) /\ Nested(trail) /\ Follows(trail, mode, frames, lr)
  BY DEF Tells, Told
<1>8. lr # ORIGINAL
  <2>1. Within(trail, n) /\ ReturnsTo(trail, n, lr)
    BY <1>7 DEF Follows
  <2>2. lr >= 0 => lr > 0
    BY <1>2, <1>3, <1>7, <2>1, TopReturn
  <2>. QED BY <1>2, <2>2 DEF ORIGINAL
<1>. QED BY <1>2, <1>3, <1>4, <1>5, <1>6, <1>7, <1>8 DEF Untold

(* A step that concerns the call that is on its way, and no other.           *)
LEMMA MovesOn ==
    ASSUME ComposeInv, ~Untold, mode \in Pending, NEW trail, NEW stale, Tells(trail, stale), Composed(trail),
           NEW n, n = Len(frames), mode' \in Pending, frames' = frames, reg' = reg, fresh' = fresh,
           NEW d, Known(d), NEW ds, ds = calls', Amended(calls, ds, d), NEW t,
           \A e \in 1 .. n - 1 : Part(t, e) = Part(trail, e), Underway(d, Part(t, n))'
    PROVE  calls' \in Seq(Call) /\ Composed(t)'
<1>a. PICK cs : cs = calls
  OBVIOUS
<1>1. n \in Nat \ {0} /\ Len(cs) = n
  BY <1>a, OnItsWay
<1>2. ds \in Seq(Call) /\ Len(ds) = n /\ ds[n] = d /\ \A i \in 1 .. n - 1 : ds[i] = cs[i]
  BY <1>1, <1>a DEF Amended
<1>3. Depth' = n
  BY DEF Depth, Pending
<1>4. ASSUME NEW i \in 1 .. n PROVE Known(ds[i])'
  <2>1. Known(ds[i])
    <3>1. CASE i = n
      BY <1>2, <3>1
    <3>2. CASE i # n
      <4>1. i \in 1 .. n - 1 /\ i \in 1 .. Len(calls)
        BY <1>1, <1>a, <3>2
      <4>. QED BY <1>2, <1>a, <4>1 DEF Composed
    <3>. QED BY <3>1, <3>2
  <2>. QED BY <2>1 DEF Known
<1>5. ASSUME NEW i \in 1 .. n - 1 PROVE Back(ds[i], Part(t, i))'
  <2>1. Back(calls[i], Part(trail, i))
    BY <1>5 DEF Composed
  <2>a. PICK c : c = ds[i]
    OBVIOUS
  <2>b. PICK seg : seg = Part(t, i)
    OBVIOUS
  <2>2. Back(c, seg)
    BY <1>2, <1>5, <1>a, <2>1, <2>a, <2>b
  <2>3. Back(c, seg)'
    BY <2>2, SameCall
  <2>. QED BY <2>3, <2>a, <2>b
<1>6. Len(frames') = n
  OBVIOUS
<1>7. Underway(ds[n], Part(t, n))'
  BY <1>2
<1>. QED BY <1>2, <1>3, <1>4, <1>5, <1>6, <1>7 DEF Composed

(* A call that comes into the body of the original, or back to its caller.   *)
LEMMA Enters ==
    ASSUME ComposeInv, ~Untold, mode \in Pending, NEW trail, NEW stale, Tells(trail, stale), Composed(trail),
           NEW n, n = Len(frames), mode' = "guest", frames' = Append(frames, lr), reg' = reg, fresh' = fresh,
           NEW d, Known(d), NEW ds, ds = calls', Amended(calls, ds, d), Back(d, Part(trail, n))
    PROVE  calls' \in Seq(Call) /\ Composed(trail)'
<1>a. PICK cs : cs = calls
  OBVIOUS
<1>1. n \in Nat \ {0} /\ Len(cs) = n
  BY <1>a, OnItsWay
<1>2. ds \in Seq(Call) /\ Len(ds) = n /\ ds[n] = d /\ \A i \in 1 .. n - 1 : ds[i] = cs[i]
  BY <1>1, <1>a DEF Amended
<1>3. Len(frames') = n + 1 /\ Depth' = n
  <2>1. frames \in Seq(Int) /\ lr \in Int
    BY DEF ComposeInv, CallsInv, Basics
  <2>2. Len(Append(frames, lr)) = n + 1
    BY <2>1, AppendProperties
  <2>3. Len(frames') = n + 1
    BY <2>2
  <2>. QED BY <1>1, <2>3 DEF Depth
<1>4. ASSUME NEW i \in 1 .. n PROVE Known(ds[i])'
  <2>1. Known(ds[i])
    <3>1. CASE i = n
      BY <1>2, <3>1
    <3>2. CASE i # n
      <4>1. i \in 1 .. n - 1 /\ i \in 1 .. Len(calls)
        BY <1>1, <1>a, <3>2
      <4>. QED BY <1>2, <1>a, <4>1 DEF Composed
    <3>. QED BY <3>1, <3>2
  <2>. QED BY <2>1 DEF Known
<1>5. ASSUME NEW i \in 1 .. n PROVE Back(ds[i], Part(trail, i))'
  <2>a. PICK c : c = ds[i]
    OBVIOUS
  <2>b. PICK seg : seg = Part(trail, i)
    OBVIOUS
  <2>1. Back(c, seg)
    <3>1. CASE i = n
      BY <1>2, <3>1, <2>a, <2>b
    <3>2. CASE i # n
      <4>1. i \in 1 .. n - 1
        BY <1>1, <3>2
      <4>2. Back(calls[i], Part(trail, i))
        BY <4>1 DEF Composed
      <4>. QED BY <1>2, <1>a, <2>a, <2>b, <4>1, <4>2
    <3>. QED BY <3>1, <3>2
  <2>2. Back(c, seg)'
    BY <2>1, SameCall
  <2>. QED BY <2>2, <2>a, <2>b
<1>6. Len(frames') - 1 = n
  BY <1>1, <1>3
<1>. QED BY <1>2, <1>3, <1>4, <1>5, <1>6 DEF Composed

(***************************************************************************)
(* The steps of the guest.                                                 *)
(***************************************************************************)
LEMMA RunComposes ==
    ASSUME ComposeInv, Run
    PROVE  calls' \in Seq(Call) /\ Composes'
<1>1. calls' = <<>> /\ mode' = "guest" /\ frames' = <<0>>
  BY DEF Run, ComposeInv
<1>2. PICK stale : Tells(<<>>, stale)'
  BY RunBegins DEF ComposeInv
<1>3. Len(frames') = 1 /\ Len(calls') = 0
  BY <1>1
<1>4. Depth' = 0
  BY <1>1, <1>3 DEF Depth
<1>5. Composed(<<>>)'
  BY <1>1, <1>3, <1>4 DEF Composed
<1>. QED BY <1>1, <1>2, <1>5 DEF Composes

(* The calls that the guest has under way while one of its functions runs.   *)
LEMMA InTheGuest ==
    ASSUME ComposeInv, ~Untold, mode = "guest", NEW trail, NEW stale, Tells(trail, stale), Composed(trail),
           NEW n, n = Len(frames)
    PROVE  /\ n \in Nat \ {0} /\ frames \in Seq(Int) /\ frames # <<>> /\ calls \in Seq(Call) /\ Len(calls) = n - 1
           /\ trail \in Seq(Return) /\ Within(trail, n - 1) /\ Part(trail, n) = <<>>
           /\ \A i \in 1 .. n - 1 : Known(calls[i]) /\ Back(calls[i], Part(trail, i))
<1>1. mode # "idle" /\ frames \in Seq(Int) /\ frames # <<>>
  BY DEF ComposeInv, CallsInv, Basics
<1>2. n \in Nat \ {0}
  BY <1>1
<1>3. calls \in Seq(Call) /\ Len(calls) = n - 1
  BY <1>1 DEF ComposeInv, Composed, Depth
<1>4. trail \in Seq(Return) /\ Follows(trail, mode, frames, lr)
  BY DEF Tells, Told
<1>5. Within(trail, n - 1)
  BY <1>4 DEF Follows
<1>6. Part(trail, n) = <<>>
  BY <1>2, <1>4, <1>5, NoPart
<1>7. \A i \in 1 .. n - 1 : Known(calls[i]) /\ Back(calls[i], Part(trail, i))
  BY <1>3 DEF Composed
<1>. QED BY <1>1, <1>2, <1>3, <1>4, <1>5, <1>6, <1>7

LEMMA CallBegins ==
    ASSUME NEW s, s = reg.chain[G], s \in Seq(Hooks), NEW c, c = [NoCall EXCEPT !.chain = s], Good(reg)
    PROVE  c \in Call /\ Known(c) /\ Onward(c, c.ons, <<>>) /\ NextOf(c) = reg.got[G]
<1>1. /\ c \in Call /\ Young(c) /\ c.chain = s /\ c.ons = <<>> /\ c.breaks = <<>>
      /\ c.ins = <<>> /\ c.skips = {}
  BY NewCall
<1>2. Len(<<>>) = 0 /\ ToSet(<<>>) = {} /\ Len(s) \in Nat
  BY DEF ToSet
<1>3. Known(c)
  BY <1>1, <1>2 DEF Known
<1>4. Newer(c)
  BY <1>1, <1>2 DEF Newer
<1>5. Starts(c.chain, reg.chain[G])
  BY <1>1, <1>2 DEF Starts
<1>6. Onward(c, c.ons, <<>>)
  BY <1>1, <1>4, <1>5, OnlyEmpty DEF Onward
<1>7. reg.got[G] = Newest(reg, G)
  BY FirstGot DEF Good
<1>8. NextOf(c) = Newest(reg, G)
  <2>1. CASE s = <<>>
    BY <1>1, <1>2, <2>1 DEF NextOf, Newest
  <2>2. CASE s # <<>>
    <3>1. Len(s) # 0 /\ Len(s) - 0 = Len(s)
      BY <1>2, <2>2
    <3>2. Last(s) = s[Len(s)]
      BY DEF Last
    <3>. QED BY <1>1, <1>2, <2>2, <3>1, <3>2 DEF NextOf, Newest
  <2>. QED BY <2>1, <2>2
<1>. QED BY <1>1, <1>3, <1>6, <1>7, <1>8

LEMMA CallComposes ==
    ASSUME ComposeInv, ~Untold, NEW trail, NEW stale, Tells(trail, stale), Composed(trail), GuestCall
    PROVE  calls' \in Seq(Call) /\ Composes'
<1>a. PICK n : n = Len(frames)
  OBVIOUS
<1>b. PICK s : s = reg.chain[G]
  OBVIOUS
<1>c. PICK c : c = [NoCall EXCEPT !.chain = s]
  OBVIOUS
<1>d. PICK ds : ds = calls'
  OBVIOUS
<1>1. /\ mode = "guest" /\ mode' = "jump" /\ at' = reg.got[G] /\ frames' = frames /\ reg' = reg /\ fresh' = fresh
      /\ ds = Append(calls, c) /\ skewed' = skewed /\ torn' = torn
  BY <1>b, <1>c, <1>d DEF GuestCall, Jump, registered, past, Untold
<1>2. /\ n \in Nat \ {0} /\ calls \in Seq(Call) /\ Len(calls) = n - 1 /\ Part(trail, n) = <<>>
      /\ \A i \in 1 .. n - 1 : Known(calls[i]) /\ Back(calls[i], Part(trail, i))
  BY <1>1, <1>a, InTheGuest
<1>3. Good(reg) /\ s \in Seq(Hooks)
  <2>1. Good(reg)
    BY DEF ComposeInv, CallsInv, RegistryInv
  <2>. QED BY <1>b, <2>1, FirstGot DEF Good, Registry
<1>4. c \in Call /\ Known(c) /\ Onward(c, c.ons, <<>>) /\ NextOf(c) = reg.got[G]
  BY <1>3, <1>b, <1>c, CallBegins
<1>5. ds \in Seq(Call) /\ Len(ds) = n /\ ds[n] = c /\ \A i \in 1 .. n - 1 : ds[i] = calls[i]
  <2>1. n - 1 + 1 = n
    BY <1>2
  <2>. QED BY <1>1, <1>2, <1>4, <2>1, AppendProperties
<1>6. Tells(trail, stale)'
  BY GuestTold DEF ComposeInv, Untold
<1>7. Depth' = n /\ Len(frames') = n
  BY <1>1, <1>a DEF Depth
<1>8. ASSUME NEW i \in 1 .. n PROVE Known(ds[i])'
  <2>1. Known(ds[i])
    <3>1. CASE i = n
      BY <1>4, <1>5, <3>1
    <3>2. CASE i # n
      <4>1. i \in 1 .. n - 1
        BY <1>2, <3>2
      <4>. QED BY <1>2, <1>5, <4>1
    <3>. QED BY <3>1, <3>2
  <2>. QED BY <1>1, <2>1 DEF Known
<1>9. ASSUME NEW i \in 1 .. n - 1 PROVE Back(ds[i], Part(trail, i))'
  <2>a. PICK d : d = ds[i]
    OBVIOUS
  <2>b. PICK seg : seg = Part(trail, i)
    OBVIOUS
  <2>1. Back(d, seg)
    BY <1>2, <1>5, <2>a, <2>b
  <2>2. Back(d, seg)'
    BY <1>1, <2>1, SameCall
  <2>. QED BY <2>2, <2>a, <2>b
<1>10. Underway(ds[n], Part(trail, n))'
  <2>e. PICK e : e = c.ons
    OBVIOUS
  <2>1. Onward(c, e, <<>>)' /\ NextOf(c)' = NextOf(c)
    <3>1. Onward(c, e, <<>>)
      BY <1>4, <2>e
    <3>. QED BY <1>1, <3>1, SameCall
  <2>2. Calling(c, <<>>)'
    BY <1>1, <1>4, <2>1, <2>e DEF Calling
  <2>3. Underway(c, <<>>)'
    BY <2>2 DEF Underway
  <2>. QED BY <1>2, <1>5, <2>3
<1>11. Composed(trail)'
  BY <1>1, <1>5, <1>7, <1>8, <1>9, <1>10, <1>d DEF Composed
<1>. QED BY <1>5, <1>6, <1>11, <1>d DEF Composes

LEMMA ReturnComposes ==
    ASSUME ComposeInv, ~Untold, NEW trail, NEW stale, Tells(trail, stale), Composed(trail), GuestReturn
    PROVE  calls' \in Seq(Call) /\ Composes'
<1>a. PICK n : n = Len(frames)
  OBVIOUS
<1>b. PICK cs : cs = calls
  OBVIOUS
<1>1. /\ mode = "guest" /\ mode' = "jump" /\ at' = lr' /\ frames' = Front(frames) /\ reg' = reg /\ fresh' = fresh
      /\ calls' = cs /\ n > 1
  BY <1>a, <1>b DEF GuestReturn, Jump, registered
<1>2. /\ n \in Nat \ {0} /\ cs \in Seq(Call) /\ Len(cs) = n - 1 /\ frames \in Seq(Int) /\ frames # <<>>
      /\ \A i \in 1 .. n - 1 : Known(cs[i]) /\ Back(cs[i], Part(trail, i))
  BY <1>1, <1>a, <1>b, InTheGuest
<1>3. Len(frames') = n - 1
  BY <1>1, <1>2, <1>a, FrontFacts
<1>4. Depth' = n - 1
  BY <1>1, <1>3 DEF Depth
<1>5. Tells(trail, stale)'
  BY GuestTold DEF ComposeInv, Untold
<1>6. ASSUME NEW i \in 1 .. n - 1 PROVE Known(cs[i])' /\ Back(cs[i], Part(trail, i))'
  <2>a. PICK d : d = cs[i]
    OBVIOUS
  <2>b. PICK seg : seg = Part(trail, i)
    OBVIOUS
  <2>1. Back(d, seg) /\ Known(d)
    BY <1>2, <2>a, <2>b
  <2>2. Back(d, seg)'
    BY <1>1, <2>1, SameCall
  <2>3. Known(d)'
    BY <1>1, <2>1 DEF Known
  <2>. QED BY <2>2, <2>3, <2>a, <2>b
<1>7. n - 1 \in 1 .. n - 1 /\ \A i \in 1 .. n - 2 : i \in 1 .. n - 1
  BY <1>1, <1>2
<1>8. Underway(cs[n - 1], Part(trail, n - 1))'
  <2>1. Back(cs[n - 1], Part(trail, n - 1))'
    BY <1>6, <1>7
  <2>2. Returning(cs[n - 1], Part(trail, n - 1))'
    BY <1>1, <2>1 DEF Returning
  <2>. QED BY <2>2 DEF Underway
<1>9. Len(frames') - 1 = n - 2
  BY <1>2, <1>3
<1>10. Composed(trail)'
  BY <1>1, <1>2, <1>3, <1>4, <1>6, <1>7, <1>8, <1>9 DEF Composed
<1>. QED BY <1>1, <1>2, <1>5, <1>10 DEF Composes

(* Where a call goes from the hooks on the import.                           *)
LEMMA NextFacts ==
    ASSUME NEW c \in Call, NEW s, NEW seg, Onward(c, s, seg), Good(reg)
    PROVE  \/ NextOf(c) = ORIGINAL /\ AllRan(c)
           \/ \E j \in 1 .. Len(reg.chain[G]) : \E h \in Chained(reg, G) :
                 /\ j = Len(c.chain) - Len(c.ons) /\ h = reg.chain[G][j] /\ h = c.chain[j] /\ h \in Hooks
                 /\ NextOf(c) = reg.tramp[h][G] /\ NextOf(c) \in Slot /\ Has(reg.trap, NextOf(c), On(h, G))
<1>a. PICK n : n = Len(c.chain)
  OBVIOUS
<1>b. PICK m : m = Len(c.ons)
  OBVIOUS
<1>c. PICK t : t = reg.chain[G]
  OBVIOUS
<1>1. n \in Nat /\ m \in Nat
  BY <1>a, <1>b, CallFacts
<1>2. t \in Seq(Hooks)
  BY <1>c, FirstGot DEF Good, Registry
<1>3. Newer(c) /\ m <= n /\ n <= Len(t) /\ \A i \in 1 .. n : c.chain[i] = t[i]
  BY <1>a, <1>b, <1>c DEF Onward, Newer, Starts
<1>4. CASE m = n
  BY <1>3, <1>4, <1>a, <1>b, SMTT(30) DEF NextOf, AllRan
<1>5. CASE m # n
  <2>a. PICK j : j = n - m
    OBVIOUS
  <2>1. j \in 1 .. n /\ j \in 1 .. Len(t)
    BY <1>1, <1>2, <1>3, <1>5, <2>a
  <2>b. PICK h : h = t[j]
    OBVIOUS
  <2>2. h = c.chain[j] /\ h \in Hooks /\ h \in Chained(reg, G)
    BY <1>2, <1>3, <1>c, <2>1, <2>b DEF Chained, ToSet
  <2>3. NextOf(c) = reg.tramp[h][G]
    BY <1>5, <1>a, <1>b, <2>2, <2>a DEF NextOf
  <2>4. reg.tramp[h][G] \in Slot /\ Has(reg.trap, reg.tramp[h][G], On(h, G))
    BY <2>2, FirstGot, TrampolineTraps
  <2>. QED BY <1>a, <1>b, <1>c, <2>1, <2>2, <2>3, <2>4, <2>a, <2>b
<1>. QED BY <1>4, <1>5

(* A call that is over, with all its post_calls, is what CallsCompose says.  *)
OverFits == \A c \in Call : Back(c, <<>>) /\ done = c => CallsCompose

LEMMA OverComposes == OverFits
<1> SUFFICES ASSUME NEW c \in Call, Back(c, <<>>), done = c PROVE CallsCompose
  BY DEF OverFits
<1>1. /\ Newer(c) /\ (c.skip \/ Len(c.ons) = Len(c.chain))
      /\ c.ins = c.breaks /\ (c.skip => c.breaks = <<>>)
      /\ c.bodies = (IF c.skip \/ c.skips # {} THEN 0 ELSE 1)
  BY DEF Back, Over
<1>a. PICK s : s = c.chain
  OBVIOUS
<1>b. PICK o : o = c.ons
  OBVIOUS
<1>c. PICK r : r = Reverse(s)
  OBVIOUS
<1>2. s \in Seq(Hooks) /\ o \in Seq(Hooks) /\ c.afters \in Seq(Hooks)
  BY <1>a, <1>b, CallFacts
<1>3. r \in Seq(Hooks) /\ Len(r) = Len(s) /\ \A i \in 1 .. Len(s) : r[i] = s[Len(s) - i + 1]
  BY <1>2, <1>c, ReverseFacts
<1>4. Len(o) \in Nat /\ Len(s) \in Nat /\ Len(o) <= Len(s) /\ \A i \in 1 .. Len(o) : o[i] = s[Len(s) - i + 1]
  BY <1>1, <1>2, <1>a, <1>b DEF Newer
<1>5. \A i \in 1 .. Len(o) : i \in 1 .. Len(s)
  BY <1>4
<1>6. \A i \in 1 .. Len(o) : o[i] = r[i]
  BY <1>3, <1>4, <1>5
<1>7. IsPrefix(o, r)
  <2>1. SubSeq(o, 1, Len(o)) = [i \in 1 .. Len(o) |-> o[i]]
    BY <1>2, <1>4
  <2>2. SubSeq(r, 1, Len(o)) = [i \in 1 .. Len(o) |-> r[i]]
    BY <1>3, <1>4
  <2>. QED BY <1>3, <1>4, <1>6, <2>1, <2>2 DEF IsPrefix
<1>8. c.skip \/ o = r
  <2>1. ASSUME Len(o) = Len(s) PROVE o = r
    BY <1>2, <1>3, <1>6, <2>1, SeqEqual
  <2>. QED BY <1>1, <1>a, <1>b, <2>1
<1>9. c.afters = Reverse(Noted(c))
  <2>1. Noted(c) = <<>> \o Reverse(c.afters)
    BY DEF Back
  <2>a. PICK p : p = Reverse(c.afters)
    OBVIOUS
  <2>2. p \in Seq(Hooks) /\ Reverse(p) = c.afters
    BY <1>2, <2>a, ReverseFacts
  <2>3. <<>> \o p = p
    BY <2>2
  <2>. QED BY <2>1, <2>2, <2>3, <2>a
<1>. QED BY <1>1, <1>7, <1>8, <1>9, <1>a, <1>b, <1>c DEF CallsCompose

LEMMA ResumeComposes ==
    ASSUME ComposeInv, ~Untold, NEW trail, NEW stale, Tells(trail, stale), Composed(trail), Resume
    PROVE  calls' \in Seq(Call) /\ Composes' /\ CallsCompose'
<1>a. PICK n : n = Len(frames)
  OBVIOUS
<1>b. PICK cs : cs = calls
  OBVIOUS
<1>c. PICK c : c = Last(calls)
  OBVIOUS
<1>d. PICK ds : ds = calls'
  OBVIOUS
<1>1. /\ mode = "jump" /\ at < 0 /\ mode' = "guest" /\ frames' = frames /\ reg' = reg /\ fresh' = fresh
      /\ ds = Front(cs) /\ done' = c
  BY <1>b, <1>c, <1>d DEF Resume, registered, Untold, Current
<1>2. /\ n \in Nat \ {0} /\ cs \in Seq(Call) /\ cs # <<>> /\ Len(cs) = n /\ c = cs[n]
      /\ c \in Call /\ Underway(c, Part(trail, n)) /\ lr \in Int /\ trail \in Seq(Return) /\ RegistryInv /\ CallsInv
      /\ ~torn /\ ~skewed
  BY <1>1, <1>a, <1>b, <1>c, OnItsWay DEF Pending
<1>3. at = lr /\ lr < 0
  BY <1>1, <1>2, JumpReturns DEF CallsInv
<1>4. Part(trail, n) = <<>>
  <2>1. Follows(trail, "jump", frames, lr)
    BY <1>1 DEF Tells, Told
  <2>2. frames \in Seq(Int) /\ frames # <<>>
    BY <1>1, <1>2 DEF CallsInv, Basics
  <2>3. Follows(trail, "guest", frames, lr)
    BY <1>2, <1>3, <2>1, <2>2, ResumeFollows
  <2>4. Within(trail, n - 1)
    BY <2>3, <1>a DEF Follows
  <2>. QED BY <1>2, <2>4, NoPart
<1>5. Back(c, <<>>)
  <2>1. Underway(c, <<>>)
    BY <1>2, <1>4
  <2>2. ~Calling(c, <<>>)
    <3> SUFFICES ASSUME Calling(c, <<>>) PROVE FALSE
      OBVIOUS
    <3>1. at = NextOf(c) /\ Onward(c, c.ons, <<>>)
      BY DEF Calling
    <3>2. Good(reg)
      BY <1>2 DEF RegistryInv
    <3>3. NextOf(c) = ORIGINAL \/ NextOf(c) \in Slot
      BY <1>2, <3>1, <3>2, NextFacts
    <3>. QED BY <1>1, <3>1, <3>3 DEF ORIGINAL, Slot
  <2>. QED BY <1>1, <2>1, <2>2 DEF Underway, Returning, Deciding, Entering
<1>6. CallsCompose'
  <2>1. Back(c, <<>>)'
    BY <1>1, <1>5, SameCall
  <2>2. OverFits'
    BY OverComposes, PTL
  <2>. QED BY <1>1, <1>2, <2>1, <2>2 DEF OverFits
<1>7. ds \in Seq(Call) /\ Len(ds) = n - 1 /\ \A i \in 1 .. n - 1 : ds[i] = cs[i]
  BY <1>1, <1>2, FrontFacts
<1>8. Tells(trail, stale)'
  BY GuestTold DEF ComposeInv, Untold
<1>9. Depth' = n - 1 /\ Len(frames') = n
  BY <1>1, <1>a DEF Depth
<1>10. ASSUME NEW i \in 1 .. n - 1 PROVE Known(ds[i])' /\ Back(ds[i], Part(trail, i))'
  <2>a. PICK d : d = ds[i]
    OBVIOUS
  <2>b. PICK seg : seg = Part(trail, i)
    OBVIOUS
  <2>1. d = cs[i] /\ i \in 1 .. Len(cs)
    BY <1>2, <1>7, <2>a
  <2>2. Back(d, seg) /\ Known(d)
    BY <1>a, <1>b, <2>1, <2>b DEF Composed
  <2>3. Back(d, seg)'
    BY <1>1, <2>2, SameCall
  <2>4. Known(d)'
    BY <1>1, <2>2 DEF Known
  <2>. QED BY <2>3, <2>4, <2>a, <2>b
<1>11. Composed(trail)'
  BY <1>1, <1>7, <1>9, <1>10, <1>d DEF Composed
<1>. QED BY <1>6, <1>7, <1>8, <1>11, <1>d DEF Composes

LEMMA BodyComposes ==
    ASSUME ComposeInv, ~Untold, NEW trail, NEW stale, Tells(trail, stale), Composed(trail), EnterOriginal
    PROVE  calls' \in Seq(Call) /\ Composes'
<1>a. PICK n : n = Len(frames)
  OBVIOUS
<1>c. PICK c : c = Last(calls)
  OBVIOUS
<1>e. PICK b : b = c.bodies + 1
  OBVIOUS
<1>f. PICK d : d = [c EXCEPT !.bodies = b]
  OBVIOUS
<1>d. PICK ds : ds = calls'
  OBVIOUS
<1>1. /\ mode = "jump" /\ at = ORIGINAL /\ mode' = "guest" /\ frames' = Append(frames, lr) /\ reg' = reg
      /\ fresh' = fresh /\ ds = [calls EXCEPT ![Len(calls)] = d]
  BY <1>c, <1>d, <1>e, <1>f DEF EnterOriginal, EnterBody, registered, Untold, Current, Outstanding
<1>2. /\ n \in Nat \ {0} /\ calls \in Seq(Call) /\ calls # <<>> /\ Len(calls) = n
      /\ c \in Call /\ Known(c) /\ Underway(c, Part(trail, n)) /\ lr # ORIGINAL /\ RegistryInv
  BY <1>1, <1>a, <1>c, OnItsWay DEF Pending
<1>3. Calling(c, Part(trail, n))
  BY <1>1, <1>2 DEF Underway, Returning, Deciding, Entering
<1>4. at = NextOf(c) /\ Onward(c, c.ons, Part(trail, n)) /\ Good(reg)
  BY <1>2, <1>3 DEF Calling, RegistryInv
<1>5. AllRan(c)
  <2>1. \A s \in Slot : s # ORIGINAL
    BY DEF ORIGINAL, Slot
  <2>. QED BY <1>1, <1>2, <1>4, <2>1, NextFacts
<1>6. /\ ~c.skip /\ c.bodies = 0 /\ c.afters = <<>> /\ c.breaks = <<>> /\ c.ins = <<>> /\ c.skips = {}
      /\ Part(trail, n) = Only(c.ons, WithPost(G))
  BY <1>4 DEF Onward, Young
<1>7. d \in Call
  <2>1. b \in Nat
    BY <1>6, <1>e
  <2>. QED BY <1>2, <1>f, <2>1, CallStays
<1>8. /\ d.chain = c.chain /\ d.ons = c.ons /\ d.skip = c.skip /\ d.breaks = <<>> /\ d.ins = <<>>
      /\ d.skips = {} /\ d.bodies = 1 /\ d.afters = <<>>
  BY <1>2, <1>6, <1>e, <1>f DEF Call
<1>9. Known(d)
  BY <1>2, <1>6, <1>8 DEF Known
<1>10. Over(d)
  BY <1>5, <1>6, <1>8 DEF Over, AllRan, Newer
<1>11. Back(d, Part(trail, n))
  <2>1. Called(d) = c.ons
    BY <1>6, <1>8 DEF Called
  <2>2. Entered(d) = <<>>
    BY <1>8, OnlyEmpty DEF Entered
  <2>a. PICK p : p = Only(c.ons, WithPost(G))
    OBVIOUS
  <2>3. Noted(d) = p \o <<>>
    BY <2>1, <2>2, <2>a, OnlyEmpty DEF Noted
  <2>4. Reverse(<<>>) = <<>>
    BY DEF Reverse
  <2>. QED BY <1>6, <1>8, <1>10, <2>3, <2>4, <2>a DEF Back
<1>12. Amended(calls, ds, d)
  BY <1>1, <1>2, <1>7, Amends
<1>13. calls' \in Seq(Call) /\ Composed(trail)'
  BY <1>1, <1>9, <1>11, <1>12, <1>a, <1>d, Enters DEF Pending
<1>14. Tells(trail, stale)'
  BY GuestTold DEF ComposeInv, Untold
<1>. QED BY <1>13, <1>14 DEF Composes

(***************************************************************************)
(* The trampolines.                                                        *)
(***************************************************************************)
EndsWith(t, S, s, x) ==
    /\ t \in Seq(S) /\ t # <<>> /\ Front(t) = s /\ Last(t) = x
    /\ Len(t) = Len(s) + 1 /\ t[Len(s) + 1] = x /\ \A i \in 1 .. Len(s) : t[i] = s[i]
    /\ ToSet(t) = ToSet(s) \cup {x}

LEMMA AppendEnds ==
    ASSUME NEW S, NEW s \in Seq(S), NEW x \in S, NEW t, t = Append(s, x)
    PROVE  EndsWith(t, S, s, x)
<1>a. PICK n : n = Len(s)
  OBVIOUS
<1>1. n \in Nat /\ t \in Seq(S) /\ Len(t) = n + 1 /\ t[n + 1] = x /\ \A i \in 1 .. n : t[i] = s[i]
  BY <1>a, AppendProperties
<1>2. t # <<>>
  BY <1>1
<1>b. PICK f : f = Front(t)
  OBVIOUS
<1>3. f \in Seq(S) /\ Len(f) = n /\ (\A i \in 1 .. n : f[i] = t[i]) /\ Last(t) = x
  <2>1. f \in Seq(S) /\ Len(f) = Len(t) - 1 /\ (\A i \in 1 .. Len(t) - 1 : f[i] = t[i]) /\ Last(t) = t[Len(t)]
    BY <1>1, <1>2, <1>b, FrontFacts
  <2>2. Len(t) - 1 = n
    BY <1>1
  <2>. QED BY <1>1, <2>1, <2>2
<1>4. f = s
  BY <1>1, <1>3, <1>a, SeqEqual
<1>5. ToSet(t) = ToSet(s) \cup {x}
  <2>1. DOMAIN t = 1 .. n + 1 /\ DOMAIN s = 1 .. n
    BY <1>1, <1>a
  <2>2. \A i \in 1 .. n + 1 : i \in 1 .. n \/ i = n + 1
    BY <1>1
  <2>3. n + 1 \in 1 .. n + 1 /\ \A i \in 1 .. n : i \in 1 .. n + 1
    BY <1>1
  <2>. QED BY <1>1, <2>1, <2>2, <2>3 DEF ToSet
<1>. QED BY <1>1, <1>2, <1>3, <1>4, <1>5, <1>a, <1>b DEF EndsWith

LEMMA ChainedOld ==
    ASSUME CallsInv, NEW h \in Chained(reg, G)
    PROVE  h \notin fresh
BY FirstGot DEF CallsInv, Basics, RegistryInv

(* The hook that is called next is the one that is noted.                    *)
Begun(d, c, h, seg) ==
    /\ d \in Call /\ Known(d) /\ d.ons # <<>> /\ Last(d.ons) = h /\ Front(d.ons) = c.ons
    /\ Onward(d, Front(d.ons), seg)

LEMMA HookBegins ==
    ASSUME CallsInv, NEW c \in Call, Known(c), NEW seg, Onward(c, c.ons, seg), NextOf(c) # ORIGINAL,
           NEW h, h = reg.trap.slots[NextOf(c)].hook, NEW o, o = Append(c.ons, h), NEW d, d = [c EXCEPT !.ons = o]
    PROVE  Begun(d, c, h, seg)
<1>1. Good(reg)
  BY DEF CallsInv, RegistryInv
<1>2. PICK j \in 1 .. Len(reg.chain[G]), k \in Chained(reg, G) :
          /\ j = Len(c.chain) - Len(c.ons) /\ k = c.chain[j] /\ k \in Hooks
          /\ Has(reg.trap, NextOf(c), On(k, G))
  BY <1>1, NextFacts
<1>3. h = k
  BY <1>2 DEF Has, On
<1>4. h \in Hooks /\ h \notin fresh
  BY <1>2, <1>3, ChainedOld
<1>a. PICK m : m = Len(c.ons)
  OBVIOUS
<1>b. PICK n : n = Len(c.chain)
  OBVIOUS
<1>5. m \in Nat /\ n \in Nat /\ c.ons \in Seq(Hooks)
  BY <1>a, <1>b, CallFacts
<1>6. /\ o \in Seq(Hooks) /\ o # <<>> /\ Front(o) = c.ons /\ Last(o) = h
      /\ Len(o) = m + 1 /\ o[m + 1] = h /\ (\A i \in 1 .. m : o[i] = c.ons[i]) /\ ToSet(o) = ToSet(c.ons) \cup {h}
  <2>a. PICK p : p = c.ons
    OBVIOUS
  <2>1. p \in Seq(Hooks) /\ h \in Hooks /\ o = Append(p, h)
    BY <1>4, <1>5, <2>a
  <2>2. EndsWith(o, Hooks, p, h)
    BY ONLY <2>1, AppendEnds
  <2>. QED BY <1>a, <2>2, <2>a DEF EndsWith
<1>7. d \in Call
  BY <1>6, CallStays
<1>8. /\ d.chain = c.chain /\ d.ons = o /\ d.skip = c.skip /\ d.breaks = c.breaks /\ d.ins = c.ins
      /\ d.skips = c.skips /\ d.bodies = c.bodies /\ d.afters = c.afters
  BY DEF Call
<1>9. Known(d)
  BY <1>4, <1>6, <1>8 DEF Known
<1>10. j = n - m /\ j >= 1
  BY ONLY <1>2, <1>a, <1>b, <1>5
<1>11. Newer(d)
  <2>1. m <= n /\ \A i \in 1 .. m : c.ons[i] = c.chain[n - i + 1]
    BY <1>a, <1>b DEF Onward, Newer
  <2>2. m + 1 <= n /\ n - (m + 1) + 1 = j
    BY <1>5, <1>10
  <2>3. ASSUME NEW i \in 1 .. m + 1 PROVE o[i] = c.chain[n - i + 1]
    <3>1. CASE i = m + 1
      BY <1>2, <1>3, <1>6, <2>2, <3>1
    <3>2. CASE i # m + 1
      <4>1. i \in 1 .. m
        BY <1>5, <3>2
      <4>. QED BY <1>6, <2>1, <4>1
    <3>. QED BY <3>1, <3>2
  <2>. QED BY <1>6, <1>8, <1>b, <2>2, <2>3 DEF Newer
<1>12. Onward(d, c.ons, seg)
  BY <1>8, <1>11 DEF Onward, Young
<1>. QED BY <1>6, <1>7, <1>8, <1>9, <1>12 DEF Begun

LEMMA OnComposes ==
    ASSUME ComposeInv, ~Untold, NEW trail, NEW stale, Tells(trail, stale), Composed(trail), TrapOn
    PROVE  calls' \in Seq(Call) /\ Composes'
<1>a. PICK n : n = Len(frames)
  OBVIOUS
<1>c. PICK c : c = Last(calls)
  OBVIOUS
<1>h. PICK h : h = Handler.hook
  OBVIOUS
<1>e. PICK o : o = Append(c.ons, h)
  OBVIOUS
<1>f. PICK d : d = [c EXCEPT !.ons = o]
  OBVIOUS
<1>d. PICK ds : ds = calls'
  OBVIOUS
<1>1. /\ mode = "jump" /\ at > 0 /\ Handler.kind = "on" /\ mode' = "on" /\ at' = h /\ frames' = frames
      /\ reg' = reg /\ fresh' = fresh /\ ds = [calls EXCEPT ![Len(calls)] = d]
  BY <1>c, <1>d, <1>e, <1>f, <1>h DEF TrapOn, registered, Untold, Current, Outstanding
<1>2. /\ n \in Nat \ {0} /\ calls \in Seq(Call) /\ calls # <<>> /\ Len(calls) = n
      /\ c \in Call /\ Known(c) /\ Underway(c, Part(trail, n)) /\ lr \in Int /\ CallsInv /\ ~torn /\ ~skewed
  BY <1>1, <1>a, <1>c, OnItsWay DEF Pending
<1>3. at # lr
  <2> SUFFICES ASSUME at = lr PROVE FALSE
    OBVIOUS
  <2>1. frames \in Seq(Int) /\ frames # <<>> /\ lr > 0
    BY <1>1, <1>2 DEF CallsInv, Basics
  <2>2. Told(trail, stale, "jump", frames, lr, savedLr, reg.trap, fresh, torn)
    BY <1>1 DEF Tells
  <2>3. \E k \in Hooks : AfterOf(reg.trap, lr, k)
    <3>1. "jump" \in Pending /\ lr \in Int /\ ~torn
      BY <1>2 DEF Pending
    <3>. QED BY ONLY <2>1, <2>2, <3>1, ToldOwner
  <2>4. Handler.kind = "after"
    BY <1>2, <2>3, AfterAllocated DEF CallsInv, RegistryInv, Handler
  <2>. QED BY <1>1, <2>4
<1>4. at = NextOf(c) /\ Onward(c, c.ons, Part(trail, n))
  BY <1>1, <1>2, <1>3 DEF Underway, Returning, Calling, Deciding, Entering
<1>b. PICK seg : seg = Part(trail, n)
  OBVIOUS
<1>5. /\ d \in Call /\ Known(d) /\ d.ons # <<>> /\ Last(d.ons) = h /\ Onward(d, Front(d.ons), seg)
  <2>1. h = reg.trap.slots[NextOf(c)].hook /\ NextOf(c) # ORIGINAL
    BY <1>1, <1>4, <1>h DEF Handler, ORIGINAL
  <2>2. c \in Call /\ Known(c) /\ CallsInv /\ Onward(c, c.ons, seg)
    BY <1>2, <1>4, <1>b
  <2>3. Begun(d, c, h, seg)
    BY ONLY <1>e, <1>f, <2>1, <2>2, HookBegins
  <2>. QED BY <2>3 DEF Begun
<1>6. Underway(d, seg)'
  <2>e. PICK e : e = Front(d.ons)
    OBVIOUS
  <2>1. Onward(d, e, seg)'
    BY <1>1, <1>5, <2>e, SameCall
  <2>2. Deciding(d, seg)'
    BY <1>1, <1>5, <2>1, <2>e DEF Deciding
  <2>. QED BY <2>2 DEF Underway
<1>7. Amended(calls, ds, d)
  BY <1>1, <1>2, <1>5, Amends
<1>8. calls' \in Seq(Call) /\ Composed(trail)'
  BY <1>1, <1>5, <1>6, <1>7, <1>a, <1>b, <1>d, MovesOn DEF Pending
<1>9. Tells(trail, stale)'
  BY <1>2, TrapTold
<1>. QED BY <1>8, <1>9 DEF Composes

LEMMA ReachComposes ==
    ASSUME ComposeInv, ~Untold, NEW trail, NEW stale, Tells(trail, stale), Composed(trail), ReachEntry
    PROVE  calls' \in Seq(Call) /\ Composes'
<1>a. PICK n : n = Len(frames)
  OBVIOUS
<1>c. PICK c : c = Last(calls)
  OBVIOUS
<1>e. PICK b : b = reg.breaks
  OBVIOUS
<1>f. PICK d : d = [c EXCEPT !.breaks = b]
  OBVIOUS
<1>d. PICK ds : ds = calls'
  OBVIOUS
<1>1. /\ mode = "jump" /\ at = ORIGINAL /\ mode' = "entry" /\ todo' = b /\ pc' = ORIGINAL /\ frames' = frames
      /\ reg' = reg /\ fresh' = fresh /\ ds = [calls EXCEPT ![Len(calls)] = d]
  BY <1>c, <1>d, <1>e, <1>f DEF ReachEntry, registered, Untold, Current, Outstanding
<1>2. /\ n \in Nat \ {0} /\ calls \in Seq(Call) /\ calls # <<>> /\ Len(calls) = n /\ lr # ORIGINAL
      /\ c \in Call /\ Known(c) /\ Underway(c, Part(trail, n)) /\ CallsInv /\ ~torn /\ ~skewed
  BY <1>1, <1>a, <1>c, OnItsWay DEF Pending
<1>b. PICK seg : seg = Part(trail, n)
  OBVIOUS
<1>3. at = NextOf(c) /\ Onward(c, c.ons, seg) /\ Good(reg)
  BY <1>1, <1>2, <1>b DEF Underway, Returning, Calling, Deciding, Entering, CallsInv, RegistryInv
<1>5. AllRan(c)
  <2>1. \A s \in Slot : s # ORIGINAL
    BY DEF ORIGINAL, Slot
  <2>. QED BY <1>1, <1>2, <1>3, <2>1, NextFacts
<1>6. /\ ~c.skip /\ c.bodies = 0 /\ c.afters = <<>> /\ c.breaks = <<>> /\ c.ins = <<>> /\ c.skips = {}
      /\ seg = Only(c.ons, WithPost(G))
  BY <1>3 DEF Onward, Young
<1>7. b \in Seq(Hooks) /\ Distinct(b)
  BY <1>3, <1>e DEF Good, Registry
<1>8. d \in Call
  BY <1>2, <1>7, <1>f, CallStays
<1>9. /\ d.chain = c.chain /\ d.ons = c.ons /\ d.skip = c.skip /\ d.breaks = b /\ d.ins = <<>>
      /\ d.skips = {} /\ d.bodies = 0 /\ d.afters = <<>>
  BY <1>2, <1>6, <1>f DEF Call
<1>10. Known(d)
  BY <1>2, <1>6, <1>9 DEF Known
<1>11. Noted(d) = seg
  <2>1. Called(d) = c.ons
    BY <1>6, <1>9 DEF Called
  <2>2. Entered(d) = <<>>
    BY <1>9, OnlyEmpty DEF Entered
  <2>3. Noted(d) = seg \o <<>>
    BY <1>6, <2>1, <2>2, OnlyEmpty DEF Noted
  <2>4. seg \in Seq(Hooks)
    BY <1>b, <1>2, OnItsWay, <1>1, PartTyped DEF Pending
  <2>. QED BY <2>3, <2>4
<1>12. Underway(d, seg)'
  <2>1. Noted(d)' = seg
    BY <1>1, <1>11, SameCall
  <2>2. Young(d) /\ AllRan(d)
    BY <1>5, <1>6, <1>9 DEF Young, AllRan, Newer
  <2>3. d.breaks = d.ins \o b
    BY <1>7, <1>9
  <2>4. Inward(d, seg)'
    BY <1>1, <1>7, <1>9, <2>1, <2>2, <2>3 DEF Inward
  <2>. QED BY <1>1, <2>4 DEF Underway, Entering
<1>13. Amended(calls, ds, d)
  BY <1>1, <1>2, <1>8, Amends
<1>14. calls' \in Seq(Call) /\ Composed(trail)'
  BY <1>1, <1>10, <1>12, <1>13, <1>a, <1>b, <1>d, MovesOn DEF Pending
<1>15. Tells(trail, stale)'
  BY <1>2, TrapTold
<1>. QED BY <1>14, <1>15 DEF Composes

(* The call that returns is the one whose hook is noted.                     *)
LEMMA AfterComposes ==
    ASSUME ComposeInv, ~Untold, NEW trail, NEW stale, Tells(trail, stale), Composed(trail), TrapAfter
    PROVE  calls' \in Seq(Call) /\ Composes'
<1>a. PICK n : n = Len(frames)
  OBVIOUS
<1>c. PICK c : c = Last(calls)
  OBVIOUS
<1>h. PICK h : h = Handler.hook
  OBVIOUS
<1>e. PICK o : o = Append(c.afters, h)
  OBVIOUS
<1>f. PICK d : d = [c EXCEPT !.afters = o]
  OBVIOUS
<1>d. PICK ds : ds = calls'
  OBVIOUS
<1>0. mode = "jump" /\ at > 0 /\ Handler.kind = "after" /\ reg' = reg /\ fresh' = fresh
  BY DEF TrapAfter, registered
<1>2. /\ n \in Nat \ {0} /\ calls \in Seq(Call) /\ calls # <<>> /\ Len(calls) = n /\ trail \in Seq(Return)
      /\ c \in Call /\ Known(c) /\ Underway(c, Part(trail, n)) /\ lr \in Int /\ CallsInv /\ ~torn /\ ~skewed
  BY <1>0, <1>a, <1>c, OnItsWay DEF Pending
<1>b. PICK t : t = Front(trail)
  OBVIOUS
<1>3. /\ at = lr /\ h \in Hooks /\ trail # <<>> /\ Last(trail).hook = h /\ Last(trail).depth = n
      /\ savedLr[h] # <<>> /\ Tells(t, stale)'
  BY <1>2, <1>a, <1>b, <1>h, AfterTold
<1>1. mode' = "after" /\ frames' = frames /\ ds = [calls EXCEPT ![Len(calls)] = d]
  BY <1>3, <1>c, <1>d, <1>e, <1>f, <1>h DEF TrapAfter, Untold, Current, Outstanding
<1>4. Back(c, Part(trail, n))
  <2>1. ~Calling(c, Part(trail, n))
    <3> SUFFICES ASSUME Calling(c, Part(trail, n)) PROVE FALSE
      OBVIOUS
    <3>1. at = NextOf(c) /\ Onward(c, c.ons, Part(trail, n)) /\ Good(reg)
      BY <1>2 DEF Calling, CallsInv, RegistryInv
    <3>2. PICK k \in Hooks : Has(reg.trap, at, On(k, G))
      <4>a. PICK e : e = c.ons
        OBVIOUS
      <4>b. PICK seg : seg = Part(trail, n)
        OBVIOUS
      <4>1. c \in Call /\ Onward(c, e, seg) /\ Good(reg) /\ at = NextOf(c) /\ at # ORIGINAL
        BY <1>0, <1>2, <3>1, <4>a, <4>b DEF ORIGINAL
      <4>2. \E k \in Hooks : Has(reg.trap, NextOf(c), On(k, G))
        BY ONLY <4>1, NextFacts
      <4>. QED BY <4>1, <4>2
    <3>. QED BY <1>0, <3>2 DEF Has, On, Handler
  <2>. QED BY <1>0, <1>2, <2>1 DEF Underway, Returning, Deciding, Entering
<1>g. PICK p : p = Part(t, n)
  OBVIOUS
<1>5. p \in Seq(Hooks) /\ Part(trail, n) = Append(p, h) /\ \A i \in 1 .. n - 1 : Part(t, i) = Part(trail, i)
  <2>x. PICK x : x = Last(trail)
    OBVIOUS
  <2>1. trail \in Seq(Return) /\ trail # <<>> /\ t = Front(trail)
    BY <1>2, <1>3, <1>b
  <2>2. \A i : Part(trail, i) = IF x.depth = i THEN Append(Part(t, i), x.hook) ELSE Part(t, i)
    BY ONLY <2>1, <2>x, PartPop
  <2>3. t \in Seq(Return)
    BY <2>1, FrontFacts
  <2>4. p \in Seq(Hooks)
    BY <2>3, <1>g, PartTyped
  <2>5. \A i \in 1 .. n - 1 : i # n
    BY <1>2
  <2>. QED BY <1>3, <1>g, <2>2, <2>4, <2>5, <2>x
<1>6. c.afters \in Seq(Hooks) /\ o \in Seq(Hooks)
  BY <1>2, <1>3, <1>e, CallFacts
<1>7. d \in Call
  BY <1>2, <1>6, <1>f, CallStays
<1>8. /\ d.chain = c.chain /\ d.ons = c.ons /\ d.skip = c.skip /\ d.breaks = c.breaks /\ d.ins = c.ins
      /\ d.skips = c.skips /\ d.bodies = c.bodies /\ d.afters = o
  BY <1>2, <1>f DEF Call
<1>9. Known(d)
  BY <1>2, <1>8 DEF Known
<1>10. Back(d, p)
  <2>1. Over(d)
    BY <1>4, <1>8 DEF Back, Over, Newer
  <2>2. Noted(d) = Noted(c)
    BY <1>8 DEF Noted, Called, Entered
  <2>3. Noted(c) = Append(p, h) \o Reverse(c.afters)
    BY <1>4, <1>5 DEF Back
  <2>4. Append(p, h) \o Reverse(c.afters) = p \o Reverse(o)
    <3>a. PICK r : r = c.afters
      OBVIOUS
    <3>1. p \in Seq(Hooks) /\ r \in Seq(Hooks) /\ h \in Hooks
      BY <1>3, <1>5, <1>6, <3>a
    <3>2. Append(p, h) \o Reverse(r) = p \o Reverse(Append(r, h))
      BY ONLY <3>1, ReverseMoves
    <3>. QED BY <3>2, <3>a, <1>e
  <2>. QED BY <1>8, <2>1, <2>2, <2>3, <2>4 DEF Back
<1>11. Underway(d, p)'
  <2>1. Back(d, p)'
    BY <1>0, <1>10, SameCall
  <2>. QED BY <1>1, <2>1 DEF Underway, Returning
<1>12. Amended(calls, ds, d)
  BY <1>1, <1>2, <1>7, Amends
<1>13. calls' \in Seq(Call) /\ Composed(t)'
  BY <1>0, <1>1, <1>5, <1>9, <1>11, <1>12, <1>a, <1>d, <1>g, MovesOn DEF Pending
<1>. QED BY <1>3, <1>13 DEF Composes

(***************************************************************************)
(* The hooks on the entry of the original.                                 *)
(***************************************************************************)
LEMMA GrownPart ==
    ASSUME NEW trail \in Seq(Return), NEW stale, NEW h, NEW s, Grown(trail, stale, h, s)', s' = s,
           NEW n, n = Len(frames), frames' = frames, n \in Nat
    PROVE  \E t : /\ Tells(t, stale)' /\ Part(t, n) = IF s = NONE THEN Part(trail, n) ELSE Append(Part(trail, n), h)
                  /\ \A e \in 1 .. n - 1 : Part(t, e) = Part(trail, e)
<1>1. CASE s = NONE
  BY <1>1 DEF Grown
<1>2. CASE s # NONE
  <2>1. PICK x \in Return : x.hook = h /\ x.depth = n /\ Tells(Append(trail, x), stale)'
    BY <1>2 DEF Grown
  <2>2. \A d : Part(Append(trail, x), d) = IF x.depth = d THEN Append(Part(trail, d), x.hook) ELSE Part(trail, d)
    BY PartPush
  <2>3. \A e \in 1 .. n - 1 : e # n
    OBVIOUS
  <2>a. PICK t : t = Append(trail, x)
    OBVIOUS
  <2>4. /\ Part(t, n) = Append(Part(trail, n), h)
        /\ \A e \in 1 .. n - 1 : Part(t, e) = Part(trail, e)
    BY <2>1, <2>2, <2>3, <2>a
  <2>5. Tells(t, stale)'
    BY <2>1, <2>a
  <2>. QED BY <1>2, <2>4, <2>5
<1>. QED BY <1>1, <1>2

LEMMA HeadMoves ==
    ASSUME NEW S, NEW s \in Seq(S), NEW t \in Seq(S), t # <<>>
    PROVE  s \o t = Append(s, Head(t)) \o Tail(t)
<1>a. PICK h : h = Head(t)
  OBVIOUS
<1>b. PICK r : r = Tail(t)
  OBVIOUS
<1>c. PICK a : a = Append(s, h)
  OBVIOUS
<1>d. PICK n : n = Len(s)
  OBVIOUS
<1>e. PICK m : m = Len(r)
  OBVIOUS
<1>1. h \in S /\ r \in Seq(S) /\ m \in Nat /\ Len(t) = m + 1 /\ t[1] = h /\ \A i \in 1 .. m : r[i] = t[i + 1]
  BY <1>a, <1>b, <1>e
<1>2. n \in Nat /\ a \in Seq(S) /\ Len(a) = n + 1 /\ a[n + 1] = h /\ \A i \in 1 .. n : a[i] = s[i]
  BY <1>1, <1>c, <1>d, AppendProperties
<1>f. PICK u : u = s \o t
  OBVIOUS
<1>g. PICK v : v = a \o r
  OBVIOUS
<1>3. u \in Seq(S) /\ Len(u) = n + (m + 1) /\ \A i \in 1 .. n + (m + 1) : u[i] = IF i <= n THEN s[i] ELSE t[i - n]
  <2>1. /\ u \in Seq(S) /\ Len(u) = Len(s) + Len(t)
        /\ \A i \in 1 .. Len(s) + Len(t) : u[i] = IF i <= Len(s) THEN s[i] ELSE t[i - Len(s)]
    BY <1>f, ConcatProperties
  <2>. QED BY <1>1, <1>d, <2>1
<1>4. v \in Seq(S) /\ Len(v) = (n + 1) + m /\ \A i \in 1 .. (n + 1) + m : v[i] = IF i <= n + 1 THEN a[i] ELSE r[i - (n + 1)]
  <2>1. /\ v \in Seq(S) /\ Len(v) = Len(a) + Len(r)
        /\ \A i \in 1 .. Len(a) + Len(r) : v[i] = IF i <= Len(a) THEN a[i] ELSE r[i - Len(a)]
    BY ONLY <1>1, <1>2, <1>g, ConcatProperties
  <2>. QED BY <1>2, <1>e, <2>1
<1>5. n + (m + 1) = (n + 1) + m
  BY <1>1, <1>2
<1>6. ASSUME NEW i \in 1 .. n + (m + 1) PROVE u[i] = v[i]
  <2>0. i \in 1 .. (n + 1) + m
    BY <1>5
  <2>1. CASE i <= n
    <3>1. i \in 1 .. n /\ i <= n + 1
      BY <1>2, <2>1
    <3>. QED BY <1>2, <1>3, <1>4, <2>0, <2>1, <3>1
  <2>2. CASE i = n + 1
    <3>1. ~(i <= n) /\ i <= n + 1 /\ i - n = 1
      BY <1>2, <2>2
    <3>2. u[i] = t[1] /\ v[i] = a[n + 1]
      BY <1>3, <1>4, <2>0, <2>2, <3>1
    <3>. QED BY <1>1, <1>2, <3>2
  <2>3. CASE i > n + 1
    <3>1. ~(i <= n) /\ ~(i <= n + 1) /\ i - (n + 1) \in 1 .. m /\ i - (n + 1) + 1 = i - n
      BY <1>1, <1>2, <2>3
    <3>2. u[i] = t[i - n] /\ v[i] = r[i - (n + 1)]
      BY <1>3, <1>4, <2>0, <3>1
    <3>. QED BY <1>1, <3>1, <3>2
  <2>. QED BY <1>2, <2>1, <2>2, <2>3
<1>7. u = v
  BY <1>3, <1>4, <1>5, <1>6, SeqEqual
<1>. QED BY <1>7, <1>a, <1>b, <1>c, <1>f, <1>g

(* The next handler on the entry, and those that ran before it.              *)
LEMMA NextHandler ==
    ASSUME NEW b, NEW s \in Seq(Hooks), NEW t \in Seq(Hooks), t # <<>>, b = s \o t, Distinct(b),
           NEW h, h = Head(t)
    PROVE  h \in Hooks /\ h \notin ToSet(s) /\ h \in ToSet(t) /\ b = Append(s, h) \o Tail(t)
<1>1. h \in Hooks /\ h \in ToSet(t) /\ t[1] = h /\ Len(t) \in Nat \ {0}
  BY TailFacts
<1>2. b = Append(s, h) \o Tail(t)
  BY HeadMoves
<1>a. PICK n : n = Len(s)
  OBVIOUS
<1>3. n \in Nat /\ DOMAIN s = 1 .. n
  BY <1>a
<1>4. /\ b \in Seq(Hooks) /\ Len(b) = n + Len(t)
      /\ \A i \in 1 .. n + Len(t) : b[i] = IF i <= n THEN s[i] ELSE t[i - n]
  BY <1>a, ConcatProperties
<1>5. n + 1 \in 1 .. n + Len(t) /\ ~(n + 1 <= n) /\ n + 1 - n = 1 /\ DOMAIN b = 1 .. n + Len(t)
  BY <1>1, <1>3, <1>4
<1>6. b[n + 1] = h
  <2>a. PICK j : j = n + 1
    OBVIOUS
  <2>1. b[j] = IF j <= n THEN s[j] ELSE t[j - n]
    BY <1>4, <1>5, <2>a
  <2>2. ~(j <= n) /\ j - n = 1
    BY ONLY <1>3, <2>a
  <2>3. b[j] = t[1]
    BY <2>1, <2>2
  <2>. QED BY <1>1, <2>3, <2>a
<1>7. ASSUME NEW i \in 1 .. n PROVE s[i] # h
  <2>1. i \in 1 .. n + Len(t) /\ i <= n /\ i # n + 1
    BY <1>1, <1>3
  <2>2. b[i] = s[i]
    BY <1>4, <2>1
  <2>. QED BY <1>5, <1>6, <2>1, <2>2 DEF Distinct
<1>8. h \notin ToSet(s)
  BY <1>3, <1>7 DEF ToSet
<1>. QED BY <1>1, <1>2, <1>8

LEMMA AppendAssoc ==
    ASSUME NEW S, NEW s \in Seq(S), NEW t \in Seq(S), NEW x \in S
    PROVE  s \o Append(t, x) = Append(s \o t, x)
<1>a. PICK a : a = Append(t, x)
  OBVIOUS
<1>b. PICK u : u = s \o a
  OBVIOUS
<1>c. PICK w : w = s \o t
  OBVIOUS
<1>d. PICK v : v = Append(w, x)
  OBVIOUS
<1>e. PICK n : n = Len(s)
  OBVIOUS
<1>f. PICK m : m = Len(t)
  OBVIOUS
<1>1. n \in Nat /\ m \in Nat /\ a \in Seq(S) /\ Len(a) = m + 1 /\ a[m + 1] = x /\ \A i \in 1 .. m : a[i] = t[i]
  BY <1>a, <1>e, <1>f, AppendProperties
<1>2. /\ u \in Seq(S) /\ Len(u) = n + (m + 1)
      /\ \A i \in 1 .. n + (m + 1) : u[i] = IF i <= n THEN s[i] ELSE a[i - n]
  <2>1. /\ u \in Seq(S) /\ Len(u) = Len(s) + Len(a)
        /\ \A i \in 1 .. Len(s) + Len(a) : u[i] = IF i <= Len(s) THEN s[i] ELSE a[i - Len(s)]
    <3>1. s \in Seq(S) /\ a \in Seq(S)
      BY <1>1
    <3>. QED BY ONLY <3>1, <1>b, ConcatProperties
  <2>. QED BY <1>1, <1>e, <2>1
<1>3. /\ w \in Seq(S) /\ Len(w) = n + m
      /\ \A i \in 1 .. n + m : w[i] = IF i <= n THEN s[i] ELSE t[i - n]
  BY <1>c, <1>e, <1>f, ConcatProperties
<1>4. n + m \in Nat /\ n + (m + 1) = n + m + 1
  BY <1>1
<1>5. v \in Seq(S) /\ Len(v) = n + m + 1 /\ v[n + m + 1] = x /\ \A i \in 1 .. n + m : v[i] = w[i]
  BY <1>3, <1>4, <1>d, AppendProperties
<1>6. ASSUME NEW i \in 1 .. n + m + 1 PROVE u[i] = v[i]
  <2>0. i \in 1 .. n + (m + 1)
    BY <1>4
  <2>1. CASE i = n + m + 1
    <3>1. ~(i <= n) /\ i - n = m + 1
      BY <1>1, <2>1
    <3>. QED BY <1>1, <1>2, <1>5, <2>0, <2>1, <3>1
  <2>2. CASE i # n + m + 1
    <3>1. i \in 1 .. n + m /\ (~(i <= n) => i - n \in 1 .. m)
      BY <1>1, <1>4, <2>2
    <3>. QED BY <1>1, <1>2, <1>3, <1>5, <2>0, <3>1
  <2>. QED BY <2>1, <2>2
<1>7. u = v
  BY <1>2, <1>4, <1>5, <1>6, SeqEqual
<1>. QED BY <1>7, <1>a, <1>b, <1>c, <1>d

(* What a call that is among the hooks on the entry has noted, and what a    *)
(* handler adds to it that calls on, or that skips the call.                 *)
HandlerNotes(c, h, d, e) ==
    /\ h \in Hooks \ fresh /\ d \in Call /\ e \in Call /\ Known(d) /\ Known(e)
    /\ Noted(d) = (IF h \in WithPost(ENTRY) THEN Append(Noted(c), h) ELSE Noted(c))
    /\ Noted(e) = Noted(c)
    /\ d.ins = Append(c.ins, h) /\ e.ins = Append(c.ins, h) /\ d.skips = c.skips /\ e.skips = c.skips \cup {h}
    /\ d.breaks = d.ins \o Tail(todo) /\ d.skips \subseteq ToSet(d.ins)
    /\ e.breaks = e.ins \o Tail(todo) /\ e.skips \subseteq ToSet(e.ins)
    /\ d.breaks = c.breaks /\ e.breaks = c.breaks
    /\ Young(d) /\ AllRan(d) /\ Young(e) /\ AllRan(e)

LEMMA HandlerRuns ==
    ASSUME CallsInv, NEW c \in Call, Known(c), NEW seg, Entering(c, seg), todo # <<>>, NEW h, h = Head(todo),
           NEW i, i = Append(c.ins, h), NEW z, z = c.skips \cup {h},
           NEW d, d = [c EXCEPT !.ins = i], NEW e, e = [c EXCEPT !.ins = i, !.skips = z]
    PROVE  HandlerNotes(c, h, d, e)
<1>1. /\ mode = "entry" /\ Young(c) /\ AllRan(c) /\ c.breaks = c.ins \o todo /\ Distinct(c.breaks)
      /\ c.skips \subseteq ToSet(c.ins)
  BY DEF Entering, Inward
<1>2. todo \in Seq(Hooks) /\ ToSet(todo) \cap fresh = {}
  BY <1>1 DEF CallsInv, Basics
<1>3. c.ins \in Seq(Hooks) /\ c.ons \in Seq(Hooks) /\ c.skips \subseteq Hooks
  BY CallFacts
<1>a. PICK s : s = c.ins
  OBVIOUS
<1>b. PICK b : b = c.breaks
  OBVIOUS
<1>4. h \in Hooks /\ h \notin ToSet(s) /\ h \in ToSet(todo) /\ b = Append(s, h) \o Tail(todo)
  <2>1. s \in Seq(Hooks) /\ todo \in Seq(Hooks) /\ b = s \o todo /\ Distinct(b)
    BY <1>1, <1>2, <1>3, <1>a, <1>b
  <2>2. todo # <<>> /\ h = Head(todo) /\ Distinct(s \o todo)
    BY <2>1
  <2>. QED BY ONLY <2>1, <2>2, NextHandler, ZenonT(60)
<1>5. h \notin fresh
  BY <1>2, <1>4
<1>6. i \in Seq(Hooks) /\ ToSet(i) = ToSet(s) \cup {h}
  <2>1. s \in Seq(Hooks) /\ h \in Hooks /\ i = Append(s, h)
    BY <1>3, <1>4, <1>a
  <2>2. EndsWith(i, Hooks, s, h)
    BY ONLY <2>1, AppendEnds
  <2>. QED BY <2>2 DEF EndsWith
<1>7. z \in SUBSET Hooks
  BY <1>3, <1>4
<1>8. d \in Call /\ e \in Call
  BY <1>6, <1>7, CallStays
<1>9. /\ d.chain = c.chain /\ d.ons = c.ons /\ d.skip = c.skip /\ d.breaks = c.breaks /\ d.ins = i
      /\ d.skips = c.skips /\ d.bodies = c.bodies /\ d.afters = c.afters
  BY DEF Call
<1>10. /\ e.chain = c.chain /\ e.ons = c.ons /\ e.skip = c.skip /\ e.breaks = c.breaks /\ e.ins = i
       /\ e.skips = z /\ e.bodies = c.bodies /\ e.afters = c.afters
  BY DEF Call
<1>11. Known(d) /\ Known(e)
  BY <1>5, <1>6, <1>9, <1>10, <1>a DEF Known
<1>12. Young(d) /\ AllRan(d) /\ Young(e) /\ AllRan(e)
  BY <1>1, <1>9, <1>10 DEF Young, AllRan, Newer
<1>c. PICK A : A = Only(Called(c), WithPost(G))
  OBVIOUS
<1>f. PICK B : B = Only(s, Hooks \ c.skips)
  OBVIOUS
<1>g. PICK W : W = WithPost(ENTRY)
  OBVIOUS
<1>13. Called(d) = Called(c) /\ Called(e) = Called(c) /\ Called(c) \in Seq(Hooks)
  <2>1. ~c.skip
    BY <1>1 DEF Young
  <2>. QED BY <1>3, <1>9, <1>10, <2>1 DEF Called
<1>14. A \in Seq(Hooks) /\ B \in Seq(Hooks)
  <2>1. A \in Seq(Hooks)
    BY <1>13, <1>c, OnlyTyped
  <2>. QED BY <1>3, <1>a, <1>f, <2>1, OnlyTyped
<1>15. Noted(c) = A \o Only(B, W)
  BY <1>a, <1>c, <1>f, <1>g DEF Noted, Entered
<1>16. Entered(d) = Append(B, h)
  <2>1. s \in Seq(Hooks) /\ h \in Hooks /\ h \in Hooks \ c.skips
    BY <1>1, <1>3, <1>4, <1>a
  <2>k. PICK K : K = Hooks \ c.skips
    OBVIOUS
  <2>2. Only(Append(s, h), K) = Append(Only(s, K), h)
    BY <2>1, <2>k, OnlyAppend
  <2>. QED BY <1>9, <1>a, <1>f, <2>2, <2>k DEF Entered
<1>17. Entered(e) = B
  <2>k. PICK K : K = Hooks \ z
    OBVIOUS
  <2>l. PICK L : L = Hooks \ c.skips
    OBVIOUS
  <2>1. s \in Seq(Hooks) /\ h \in Hooks /\ h \notin K
    BY <1>3, <1>4, <1>a, <2>k
  <2>2. Only(Append(s, h), K) = Only(s, K)
    BY <2>1, OnlyAppend
  <2>3. \A x \in ToSet(s) : x \in K <=> x \in L
    BY <1>4, <2>k, <2>l
  <2>4. Only(s, K) = Only(s, L)
    BY <2>1, <2>3, OnlySame
  <2>. QED BY <1>10, <1>a, <1>f, <2>2, <2>4, <2>k, <2>l DEF Entered
<1>18. Noted(d) = IF h \in W THEN Append(Noted(c), h) ELSE Noted(c)
  <2>1. Only(Append(B, h), W) = IF h \in W THEN Append(Only(B, W), h) ELSE Only(B, W)
    BY <1>4, <1>14, OnlyAppend
  <2>2. Noted(d) = A \o Only(Append(B, h), W)
    BY <1>13, <1>16, <1>c, <1>g DEF Noted
  <2>p. PICK P : P = Only(B, W)
    OBVIOUS
  <2>3. P \in Seq(Hooks)
    BY <1>14, <2>p, OnlyTyped
  <2>4. A \o Append(P, h) = Append(A \o P, h)
    BY <1>4, <1>14, <2>3, AppendAssoc
  <2>. QED BY <1>15, <2>1, <2>2, <2>4, <2>p
<1>19. Noted(e) = Noted(c)
  BY <1>13, <1>15, <1>17, <1>c, <1>g DEF Noted
<1>20. d.skips \subseteq ToSet(d.ins) /\ e.skips \subseteq ToSet(e.ins)
  BY <1>1, <1>6, <1>9, <1>10, <1>a
<1>. QED BY <1>4, <1>5, <1>8, <1>9, <1>10, <1>11, <1>12, <1>18, <1>19, <1>20, <1>a, <1>b, <1>g DEF HandlerNotes

LEMMA HandlerComposes ==
    ASSUME ComposeInv, ~Untold, NEW trail, NEW stale, Tells(trail, stale), Composed(trail),
           EntryCallsOriginal \/ EntrySkips
    PROVE  calls' \in Seq(Call) /\ Composes'
<1>a. PICK n : n = Len(frames)
  OBVIOUS
<1>c. PICK c : c = Last(calls)
  OBVIOUS
<1>h. PICK h : h = Head(todo)
  OBVIOUS
<1>e. PICK i : i = Append(c.ins, h)
  OBVIOUS
<1>z. PICK z : z = c.skips \cup {h}
  OBVIOUS
<1>f. PICK d : d = [c EXCEPT !.ins = i]
  OBVIOUS
<1>g. PICK e : e = [c EXCEPT !.ins = i, !.skips = z]
  OBVIOUS
<1>d. PICK ds : ds = calls'
  OBVIOUS
<1>r. PICK rest : rest = Tail(todo)
  OBVIOUS
<1>b. PICK seg : seg = Part(trail, n)
  OBVIOUS
<1>1. /\ mode = "entry" /\ todo # <<>> /\ mode' = "entry" /\ todo' = rest /\ frames' = frames /\ reg' = reg /\ fresh' = fresh
  BY <1>r DEF EntryCallsOriginal, EntrySkips, OnEntry, registered
<1>2. /\ n \in Nat \ {0} /\ calls \in Seq(Call) /\ calls # <<>> /\ Len(calls) = n /\ lr # ORIGINAL
      /\ c \in Call /\ Known(c) /\ Underway(c, seg) /\ CallsInv /\ ~torn /\ ~skewed /\ trail \in Seq(Return)
  BY <1>1, <1>a, <1>b, <1>c, OnItsWay DEF Pending
<1>3. Entering(c, seg) /\ seg = Noted(c) /\ (pc = ORIGINAL <=> c.skips = {}) /\ Distinct(c.breaks)
  BY <1>1, <1>2 DEF Underway, Returning, Calling, Deciding, Entering, Inward
<1>4. HandlerNotes(c, h, d, e)
  BY ONLY <1>1, <1>2, <1>3, <1>h, <1>e, <1>z, <1>f, <1>g, HandlerRuns
<1>5. CASE EntryCallsOriginal
  <2>s. PICK s : s = reg.after[h][ENTRY]
    OBVIOUS
  <2>1. ds = [calls EXCEPT ![Len(calls)] = d] /\ pc' = pc
    BY <1>2, <1>5, <1>c, <1>d, <1>e, <1>f, <1>h DEF EntryCallsOriginal, Untold, Current, Outstanding
  <2>2. Grown(trail, stale, h, s)'
    BY <1>2, <1>5, <1>h, <2>s, HandlerTold
  <2>3. PICK t : /\ Tells(t, stale)' /\ Part(t, n) = IF s = NONE THEN seg ELSE Append(seg, h)
                 /\ \A k \in 1 .. n - 1 : Part(t, k) = Part(trail, k)
    BY <1>1, <1>2, <1>a, <1>b, <2>2, <2>s, GrownPart
  <2>p. PICK p : p = Part(t, n)
    OBVIOUS
  <2>4. p = Noted(d)
    BY <1>3, <1>4, <2>3, <2>p, <2>s DEF HandlerNotes, WithPost
  <2>5. Underway(d, p)'
    <3>1. Noted(d)' = p
      BY <1>1, <2>4, SameCall
    <3>2. Inward(d, p)'
      BY <1>1, <1>3, <1>4, <1>r, <2>1, <3>1 DEF Inward, HandlerNotes
    <3>. QED BY <1>1, <3>2 DEF Underway, Entering
  <2>6. d \in Call /\ Known(d)
    BY <1>4 DEF HandlerNotes
  <2>7. Amended(calls, ds, d)
    BY <1>2, <2>1, <2>6, Amends
  <2>8. calls' \in Seq(Call) /\ Composed(t)'
    BY <1>1, <1>a, <1>d, <2>3, <2>5, <2>6, <2>7, <2>p, MovesOn DEF Pending
  <2>. QED BY <2>3, <2>8 DEF Composes
<1>6. CASE EntrySkips
  <2>1. ds = [calls EXCEPT ![Len(calls)] = e] /\ pc' = lr
    BY <1>2, <1>6, <1>c, <1>d, <1>e, <1>g, <1>h, <1>z DEF EntrySkips, Untold, Current, Outstanding
  <2>2. Tells(trail, stale)'
    BY <1>2, <1>6, EntryTold
  <2>5. Underway(e, seg)'
    <3>1. Noted(e)' = seg
      <4>1. Noted(e) = seg
        BY <1>3, <1>4 DEF HandlerNotes
      <4>. QED BY <1>1, <4>1, SameCall
    <3>2. pc' # ORIGINAL /\ e.skips # {}
      BY <1>2, <1>4, <2>1 DEF HandlerNotes
    <3>3. Inward(e, seg)'
      BY <1>1, <1>3, <1>4, <1>r, <3>1, <3>2 DEF Inward, HandlerNotes
    <3>. QED BY <1>1, <3>3 DEF Underway, Entering
  <2>6. e \in Call /\ Known(e)
    BY <1>4 DEF HandlerNotes
  <2>7. Amended(calls, ds, e)
    BY <1>2, <2>1, <2>6, Amends
  <2>8. calls' \in Seq(Call) /\ Composed(trail)'
    BY <1>1, <1>a, <1>b, <1>d, <2>5, <2>6, <2>7, MovesOn DEF Pending
  <2>. QED BY <2>2, <2>8 DEF Composes
<1>. QED BY <1>5, <1>6

LEMMA EntryComposes ==
    ASSUME ComposeInv, ~Untold, NEW trail, NEW stale, Tells(trail, stale), Composed(trail), EntryDone, ~skewed'
    PROVE  calls' \in Seq(Call) /\ Composes'
<1>a. PICK n : n = Len(frames)
  OBVIOUS
<1>c. PICK c : c = Last(calls)
  OBVIOUS
<1>e. PICK b : b = c.bodies + 1
  OBVIOUS
<1>f. PICK d : d = [c EXCEPT !.bodies = b]
  OBVIOUS
<1>d. PICK ds : ds = calls'
  OBVIOUS
<1>b. PICK seg : seg = Part(trail, n)
  OBVIOUS
<1>1. mode = "entry" /\ todo = <<>> /\ reg' = reg /\ fresh' = fresh /\ lr' = lr
  BY DEF EntryDone, registered
<1>2. /\ n \in Nat \ {0} /\ calls \in Seq(Call) /\ calls # <<>> /\ Len(calls) = n /\ c = calls[n]
      /\ c \in Call /\ Known(c) /\ Underway(c, seg) /\ CallsInv /\ ~torn /\ ~skewed /\ trail \in Seq(Return)
  BY <1>1, <1>a, <1>b, <1>c, OnItsWay DEF Pending
<1>3. Inward(c, seg)
  BY <1>1, <1>2 DEF Underway, Returning, Calling, Deciding, Entering
<1>4. /\ Young(c) /\ AllRan(c) /\ c.breaks = c.ins /\ (pc = ORIGINAL <=> c.skips = {}) /\ seg = Noted(c)
      /\ ~c.skip /\ c.bodies = 0 /\ c.afters = <<>>
  <2>1. c.ins \in Seq(Hooks)
    BY <1>2, CallFacts
  <2>2. c.ins \o <<>> = c.ins
    BY <2>1
  <2>. QED BY <1>1, <1>3, <2>2 DEF Inward, Young
<1>5. seg \o Reverse(<<>>) = seg
  <2>1. seg \in Seq(Hooks)
    BY <1>2, <1>b, PartTyped
  <2>2. Reverse(<<>>) = <<>>
    BY DEF Reverse
  <2>. QED BY <2>1, <2>2
<1>6. Tells(trail, stale)'
  BY <1>2, EntryTold
<1>7. CASE pc = ORIGINAL
  <2>1. /\ mode' = "guest" /\ frames' = Append(frames, lr) /\ ds = [calls EXCEPT ![Len(calls)] = d]
    BY <1>2, <1>7, <1>c, <1>d, <1>e, <1>f DEF EntryDone, EnterBody, Skews, Untold, Current, Outstanding
  <2>2. d \in Call
    <3>1. b \in Nat
      BY <1>4, <1>e
    <3>. QED BY <1>2, <1>f, <3>1, CallStays
  <2>3. /\ d.chain = c.chain /\ d.ons = c.ons /\ d.skip = c.skip /\ d.breaks = c.breaks /\ d.ins = c.ins
        /\ d.skips = c.skips /\ d.bodies = 1 /\ d.afters = c.afters
    BY <1>2, <1>4, <1>e, <1>f DEF Call
  <2>4. Known(d)
    BY <1>2, <2>3 DEF Known
  <2>5. Over(d)
    BY <1>4, <1>7, <2>3 DEF Over, AllRan, Newer
  <2>6. Noted(d) = Noted(c)
    BY <2>3 DEF Noted, Called, Entered
  <2>7. Back(d, seg)
    BY <1>4, <1>5, <2>3, <2>5, <2>6 DEF Back
  <2>8. Amended(calls, ds, d)
    BY <1>2, <2>1, <2>2, Amends
  <2>9. calls' \in Seq(Call) /\ Composed(trail)'
    BY <1>1, <1>a, <1>b, <1>d, <2>1, <2>4, <2>7, <2>8, Enters DEF Pending
  <2>. QED BY <1>6, <2>9 DEF Composes
<1>8. CASE pc # ORIGINAL
  <2>1. mode' = "jump" /\ at' = lr' /\ frames' = frames /\ ds = calls
    BY <1>1, <1>8, <1>d DEF EntryDone, Jump, Skews
  <2>2. Back(c, seg)
    <3>1. Over(c)
      BY <1>4, <1>8 DEF Over, AllRan
    <3>. QED BY <1>4, <1>5, <3>1 DEF Back
  <2>3. Underway(c, seg)'
    <3>1. Back(c, seg)'
      BY <1>1, <2>2, SameCall
    <3>. QED BY <2>1, <3>1 DEF Underway, Returning
  <2>4. Amended(calls, ds, c)
    BY <1>2, <2>1 DEF Amended
  <2>5. calls' \in Seq(Call) /\ Composed(trail)'
    BY <1>1, <1>2, <1>a, <1>b, <1>d, <2>1, <2>3, <2>4, MovesOn DEF Pending
  <2>. QED BY <1>6, <2>5 DEF Composes
<1>. QED BY <1>7, <1>8

(***************************************************************************)
(* The callbacks of the hooks on the import.                               *)
(***************************************************************************)
(* A hook is found in its chain where it is, and the one before it is next.  *)
LEMMA FoundOnce ==
    ASSUME CallsInv, NEW c \in Call, c.ons # <<>>, NEW h, h = Last(c.ons), NEW s, NEW seg, Onward(c, s, seg),
           Places(h) # {}
    PROVE  Older(CHOOSE i \in Places(h) : \A j \in Places(h) : i <= j) = NextOf(c)
<1>a. PICK m : m = Len(c.ons)
  OBVIOUS
<1>b. PICK n : n = Len(c.chain)
  OBVIOUS
<1>c. PICK t : t = reg.chain[G]
  OBVIOUS
<1>d. PICK j : j = n - m + 1
  OBVIOUS
<1>1. m \in Nat \ {0} /\ n \in Nat /\ h = c.ons[m]
  <2>1. c.ons \in Seq(Hooks) /\ c.chain \in Seq(Hooks)
    BY CallFacts
  <2>. QED BY <1>a, <1>b, <2>1 DEF Last
<1>2. Good(reg) /\ t \in Seq(Hooks) /\ Distinct(t)
  BY <1>c, FirstGot DEF CallsInv, RegistryInv, Good, Registry
<1>3. /\ m <= n /\ n <= Len(t) /\ (\A i \in 1 .. m : c.ons[i] = c.chain[n - i + 1])
      /\ \A i \in 1 .. n : c.chain[i] = t[i]
  BY <1>a, <1>b, <1>c DEF Onward, Newer, Starts
<1>4. j \in 1 .. n /\ j \in 1 .. Len(t) /\ m \in 1 .. m
  BY <1>1, <1>2, <1>3, <1>d
<1>5. t[j] = h
  <2>1. c.ons[m] = c.chain[n - m + 1]
    BY <1>3, <1>4
  <2>. QED BY <1>1, <1>3, <1>4, <1>d, <2>1
<1>6. \A i \in DOMAIN t : t[i] \in Chained(reg, G)
  BY <1>c DEF Chained, ToSet
<1>7. \A i \in Places(h) : i = j
  <2> SUFFICES ASSUME NEW i \in Places(h) PROVE i = j
    OBVIOUS
  <2>1. i \in DOMAIN t /\ reg.tramp[t[i]][G] = reg.tramp[h][G]
    BY <1>c DEF Places, SameHook
  <2>2. j \in DOMAIN t /\ DOMAIN t = 1 .. Len(t)
    BY <1>2, <1>4
  <2>k. PICK k : k = t[i]
    OBVIOUS
  <2>3. k \in Chained(reg, G) /\ h \in Chained(reg, G)
    BY <1>5, <1>6, <2>1, <2>2, <2>k
  <2>4. Has(reg.trap, reg.tramp[k][G], On(k, G)) /\ Has(reg.trap, reg.tramp[h][G], On(h, G))
    BY <1>2, <2>3, FirstGot, TrampolineTraps
  <2>5. On(k, G) = On(h, G)
    BY <2>1, <2>4, <2>k DEF Has
  <2>6. k = h
    BY <2>5 DEF On
  <2>. QED BY <1>2, <1>5, <2>1, <2>2, <2>6, <2>k DEF Distinct
<1>8. (CHOOSE i \in Places(h) : \A k \in Places(h) : i <= k) = j
  <2>1. Places(h) = {j}
    BY <1>7
  <2>2. \A i, k \in Places(h) : i <= k
    BY <1>1, <1>7, <1>d
  <2>. QED BY <2>1, <2>2
<1>9. Older(j) = NextOf(c)
  <2>1. CASE m = n
    <3>1. j = 1
      BY <1>1, <1>d, <2>1
    <3>. QED BY <1>a, <1>b, <2>1, <3>1 DEF Older, NextOf
  <2>2. CASE m # n
    <3>1. j # 1 /\ j - 1 = n - m /\ j - 1 \in 1 .. n
      BY <1>1, <1>3, <1>d, <2>2
    <3>2. c.chain[n - m] = t[j - 1]
      BY <1>3, <3>1
    <3>3. NextOf(c) = reg.tramp[c.chain[n - m]][G]
      BY <1>a, <1>b, <2>2 DEF NextOf
    <3>4. Older(j) = reg.tramp[t[j - 1]][G]
      BY <1>c, <3>1 DEF Older
    <3>. QED BY <3>2, <3>3, <3>4
  <2>. QED BY <2>1, <2>2
<1>. QED BY <1>8, <1>9

LEMMA CallsOnComposes ==
    ASSUME ComposeInv, ~Untold, NEW trail, NEW stale, Tells(trail, stale), Composed(trail), OnCallsOriginal
    PROVE  calls' \in Seq(Call) /\ Composes'
<1>a. PICK n : n = Len(frames)
  OBVIOUS
<1>c. PICK c : c = Last(calls)
  OBVIOUS
<1>h. PICK h : h = at
  OBVIOUS
<1>s. PICK s : s = reg.after[h][G]
  OBVIOUS
<1>d. PICK ds : ds = calls'
  OBVIOUS
<1>b. PICK seg : seg = Part(trail, n)
  OBVIOUS
<1>1. mode = "on" /\ reg' = reg /\ fresh' = fresh
  BY DEF OnCallsOriginal, registered
<1>2. /\ n \in Nat \ {0} /\ calls \in Seq(Call) /\ calls # <<>> /\ Len(calls) = n /\ c = calls[n]
      /\ c \in Call /\ Known(c) /\ Underway(c, seg) /\ CallsInv /\ ~torn /\ ~skewed /\ trail \in Seq(Return)
  BY <1>1, <1>a, <1>b, <1>c, OnItsWay DEF Pending
<1>3. c.ons # <<>> /\ Last(c.ons) = h /\ Onward(c, Front(c.ons), seg)
  BY <1>1, <1>2, <1>h DEF Underway, Returning, Calling, Deciding, Entering
<1>4. Places(h) # {} /\ Grown(trail, stale, h, s)'
  BY <1>2, <1>h, <1>s, OnTold
<1>5. mode' = "jump" /\ at' = NextOf(c) /\ frames' = frames /\ ds = calls
  <2>1. Older(CHOOSE i \in Places(h) : \A j \in Places(h) : i <= j) = NextOf(c)
    BY <1>2, <1>3, <1>4, FoundOnce
  <2>. QED BY <1>4, <1>d, <1>h, <2>1 DEF OnCallsOriginal, Jump
<1>6. PICK t : /\ Tells(t, stale)' /\ Part(t, n) = IF s = NONE THEN seg ELSE Append(seg, h)
               /\ \A k \in 1 .. n - 1 : Part(t, k) = Part(trail, k)
  BY <1>1, <1>2, <1>4, <1>5, <1>a, <1>b, <1>s, GrownPart, SMTT(30)
<1>p. PICK p : p = Part(t, n)
  OBVIOUS
<1>o. PICK o : o = c.ons
  OBVIOUS
<1>7. p = Only(o, WithPost(G))
  <2>f. PICK f : f = Front(o)
    OBVIOUS
  <2>1. o \in Seq(Hooks) /\ o # <<>>
    BY <1>2, <1>3, <1>o, CallFacts
  <2>2. o = Append(f, h) /\ f \in Seq(Hooks) /\ h \in Hooks
    BY <1>3, <1>o, <2>1, <2>f, FrontLast, FrontFacts
  <2>w. PICK W : W = WithPost(G)
    OBVIOUS
  <2>3. Only(Append(f, h), W) = IF h \in W THEN Append(Only(f, W), h) ELSE Only(f, W)
    BY <2>2, OnlyAppend
  <2>4. seg = Only(f, W)
    BY <1>3, <1>o, <2>f, <2>w DEF Onward
  <2>5. h \in W <=> s # NONE
    BY <1>s, <2>2, <2>w DEF WithPost
  <2>. QED BY <1>6, <1>p, <2>2, <2>3, <2>4, <2>5, <2>w
<1>8. Underway(c, p)'
  <2>1. Onward(c, o, p)
    BY <1>3, <1>7 DEF Onward
  <2>2. Onward(c, o, p)' /\ NextOf(c)' = NextOf(c)
    BY <1>1, <2>1, SameCall
  <2>3. Calling(c, p)'
    BY <1>5, <1>o, <2>2 DEF Calling
  <2>. QED BY <2>3 DEF Underway
<1>9. Amended(calls, ds, c)
  BY <1>2, <1>5 DEF Amended
<1>10. calls' \in Seq(Call) /\ Composed(t)'
  BY <1>1, <1>2, <1>5, <1>6, <1>8, <1>9, <1>a, <1>d, <1>p, MovesOn DEF Pending
<1>. QED BY <1>6, <1>10 DEF Composes

LEMMA SkipComposes ==
    ASSUME ComposeInv, ~Untold, NEW trail, NEW stale, Tells(trail, stale), Composed(trail), OnSkips
    PROVE  calls' \in Seq(Call) /\ Composes'
<1>a. PICK n : n = Len(frames)
  OBVIOUS
<1>c. PICK c : c = Last(calls)
  OBVIOUS
<1>f. PICK d : d = [c EXCEPT !.skip = TRUE]
  OBVIOUS
<1>d. PICK ds : ds = calls'
  OBVIOUS
<1>b. PICK seg : seg = Part(trail, n)
  OBVIOUS
<1>1. mode = "on" /\ mode' = "jump" /\ at' = lr' /\ frames' = frames /\ reg' = reg /\ fresh' = fresh
  BY DEF OnSkips, Jump, registered
<1>2. /\ n \in Nat \ {0} /\ calls \in Seq(Call) /\ calls # <<>> /\ Len(calls) = n /\ c = calls[n]
      /\ c \in Call /\ Known(c) /\ Underway(c, seg) /\ CallsInv /\ ~torn /\ ~skewed /\ trail \in Seq(Return)
  BY <1>1, <1>a, <1>b, <1>c, OnItsWay DEF Pending
<1>3. Onward(c, Front(c.ons), seg)
  BY <1>1, <1>2 DEF Underway, Returning, Calling, Deciding, Entering
<1>4. ds = [calls EXCEPT ![Len(calls)] = d]
  BY <1>2, <1>c, <1>d, <1>f DEF OnSkips, Untold, Current, Outstanding
<1>5. /\ c.bodies = 0 /\ c.afters = <<>> /\ c.breaks = <<>> /\ c.ins = <<>> /\ c.skips = {} /\ Newer(c)
      /\ seg = Only(Front(c.ons), WithPost(G))
  BY <1>3 DEF Onward, Young
<1>6. d \in Call
  BY <1>2, <1>f, CallStays
<1>7. /\ d.chain = c.chain /\ d.ons = c.ons /\ d.breaks = <<>> /\ d.ins = <<>>
      /\ d.skips = {} /\ d.bodies = 0 /\ d.afters = <<>>
  BY <1>2, <1>5, <1>f DEF Call
<1>8. d.skip
  BY <1>2, <1>f DEF Call
<1>9. Known(d)
  BY <1>2, <1>5, <1>7 DEF Known
<1>10. Back(d, seg)
  <2>1. Over(d)
    BY <1>5, <1>7, <1>8 DEF Over, Newer
  <2>2. Called(d) = Front(c.ons)
    BY <1>7, <1>8 DEF Called
  <2>3. Entered(d) = <<>>
    BY <1>7, OnlyEmpty DEF Entered
  <2>4. Noted(d) = seg \o <<>>
    BY <1>5, <2>2, <2>3, OnlyEmpty DEF Noted
  <2>5. Reverse(<<>>) = <<>>
    BY DEF Reverse
  <2>. QED BY <1>7, <2>1, <2>4, <2>5 DEF Back
<1>11. Underway(d, seg)'
  <2>1. Back(d, seg)'
    BY <1>1, <1>10, SameCall
  <2>. QED BY <1>1, <2>1 DEF Underway, Returning
<1>12. Amended(calls, ds, d)
  BY <1>2, <1>4, <1>6, Amends
<1>13. calls' \in Seq(Call) /\ Composed(trail)'
  BY <1>1, <1>9, <1>11, <1>12, <1>a, <1>b, <1>d, MovesOn DEF Pending
<1>14. Tells(trail, stale)'
  BY <1>2, JumpTold
<1>. QED BY <1>13, <1>14 DEF Composes

LEMMA BackComposes ==
    ASSUME ComposeInv, ~Untold, NEW trail, NEW stale, Tells(trail, stale), Composed(trail), AfterReturns
    PROVE  calls' \in Seq(Call) /\ Composes'
<1>a. PICK n : n = Len(frames)
  OBVIOUS
<1>c. PICK c : c = Last(calls)
  OBVIOUS
<1>d. PICK ds : ds = calls'
  OBVIOUS
<1>b. PICK seg : seg = Part(trail, n)
  OBVIOUS
<1>1. /\ mode = "after" /\ mode' = "jump" /\ at' = lr' /\ frames' = frames /\ reg' = reg /\ fresh' = fresh
      /\ ds = calls
  BY <1>d DEF AfterReturns, Jump, registered
<1>2. /\ n \in Nat \ {0} /\ calls \in Seq(Call) /\ calls # <<>> /\ Len(calls) = n /\ c = calls[n]
      /\ c \in Call /\ Known(c) /\ Underway(c, seg) /\ CallsInv /\ ~torn /\ ~skewed /\ trail \in Seq(Return)
  BY <1>1, <1>a, <1>b, <1>c, OnItsWay DEF Pending
<1>3. Back(c, seg)
  BY <1>1, <1>2 DEF Underway, Returning, Calling, Deciding, Entering
<1>4. Underway(c, seg)'
  <2>1. Back(c, seg)'
    BY <1>1, <1>3, SameCall
  <2>. QED BY <1>1, <2>1 DEF Underway, Returning
<1>5. Amended(calls, ds, c)
  BY <1>1, <1>2 DEF Amended
<1>6. calls' \in Seq(Call) /\ Composed(trail)'
  BY <1>1, <1>2, <1>4, <1>5, <1>a, <1>b, <1>d, MovesOn DEF Pending
<1>7. Tells(trail, stale)'
  BY <1>2, JumpTold
<1>. QED BY <1>6, <1>7 DEF Composes

(***************************************************************************)
(* A hook that is installed during the run: the calls have not met it.     *)
(***************************************************************************)
LEMMA OnlyWithin ==
    ASSUME NEW T, NEW s \in Seq(T), NEW S
    PROVE  ToSet(Only(s, S)) \subseteq ToSet(s)
<1>a. PICK U : U = ToSet(s)
  OBVIOUS
<1>1. Len(s) \in Nat /\ DOMAIN s = 1 .. Len(s) /\ s = [i \in 1 .. Len(s) |-> s[i]]
  OBVIOUS
<1>2. \A i \in 1 .. Len(s) : s[i] \in U
  BY <1>1, <1>a DEF ToSet
<1>3. s \in Seq(U)
  BY <1>1, <1>2
<1>4. Only(s, S) \in Seq(U)
  BY <1>3, OnlyTyped
<1>. QED BY <1>4, <1>a DEF ToSet

LEMMA UnmetNoted ==
    ASSUME NEW c \in Call, Known(c), NEW h \in fresh, \A k \in Hooks \ {h} : reg'.after[k] = reg.after[k]
    PROVE  /\ Noted(c)' = Noted(c)
           /\ \A s \in Seq(Hooks) : ToSet(s) \subseteq ToSet(c.ons) =>
                 Only(s, WithPost(G))' = Only(s, WithPost(G))
<1>w. PICK W : W = WithPost(G)
  OBVIOUS
<1>v. PICK V : V = WithPost(G)'
  OBVIOUS
<1>x. PICK X : X = WithPost(ENTRY)
  OBVIOUS
<1>y. PICK Y : Y = WithPost(ENTRY)'
  OBVIOUS
<1>1. \A k \in Hooks \ {h} : (k \in W <=> k \in V) /\ (k \in X <=> k \in Y)
  BY <1>v, <1>w, <1>x, <1>y DEF WithPost
<1>2. c.ons \in Seq(Hooks) /\ c.ins \in Seq(Hooks) /\ h \notin ToSet(c.ons) /\ h \notin ToSet(c.ins)
  BY CallFacts DEF Known
<1>3. ASSUME NEW s \in Seq(Hooks), ToSet(s) \subseteq ToSet(c.ons) PROVE Only(s, V) = Only(s, W)
  <2>1. \A k \in ToSet(s) : k \in Hooks \ {h}
    BY <1>2, <1>3 DEF ToSet
  <2>2. \A k \in ToSet(s) : k \in V <=> k \in W
    BY <1>1, <2>1
  <2>. QED BY <2>2, OnlySame
<1>4. Called(c) \in Seq(Hooks) /\ ToSet(Called(c)) \subseteq ToSet(c.ons)
  <2>1. CASE ~c.skip
    BY <1>2, <2>1 DEF Called
  <2>2. CASE c.skip /\ c.ons # <<>>
    <3>f. PICK f : f = Front(c.ons)
      OBVIOUS
    <3>o. PICK o : o = c.ons
      OBVIOUS
    <3>1. /\ f \in Seq(Hooks) /\ Len(f) = Len(o) - 1 /\ Len(o) \in Nat
          /\ \A i \in 1 .. Len(o) - 1 : f[i] = o[i]
      BY <1>2, <2>2, <3>f, <3>o, FrontFacts
    <3>2. DOMAIN f = 1 .. Len(o) - 1 /\ DOMAIN o = 1 .. Len(o)
      BY <1>2, <3>1, <3>o
    <3>3. ToSet(f) \subseteq ToSet(o)
      BY <3>1, <3>2 DEF ToSet
    <3>. QED BY <2>2, <3>1, <3>3, <3>f, <3>o DEF Called
  <2>3. CASE c.skip /\ c.ons = <<>>
    <3>1. Called(c) = Front(<<>>)
      BY <2>3 DEF Called
    <3>2. Front(<<>>) = <<>>
      <4>a. PICK n : n = Len(<<>>) - 1
        OBVIOUS
      <4>1. n < 1 /\ n \in Int /\ 1 \in Int
        BY <4>a
      <4>e. PICK s : s = <<>>
        OBVIOUS
      <4>2. SubSeq(s, 1, n) = <<>>
        BY ONLY <4>1, SubSeqEmpty
      <4>3. Front(s) = SubSeq(s, 1, n)
        BY <4>a, <4>e DEF Front
      <4>. QED BY <4>2, <4>3, <4>e
    <3>c. PICK r : r = Called(c)
      OBVIOUS
    <3>3. r = <<>>
      BY <3>1, <3>2, <3>c
    <3>4. r \in Seq(Hooks) /\ ToSet(r) = {}
      BY <3>3 DEF ToSet
    <3>. QED BY <3>4, <3>c
  <2>. QED BY <2>1, <2>2, <2>3
<1>5. Only(Called(c), V) = Only(Called(c), W)
  BY <1>3, <1>4
<1>6. Only(Entered(c), Y) = Only(Entered(c), X)
  <2>e. PICK e : e = Entered(c)
    OBVIOUS
  <2>1. e \in Seq(Hooks) /\ ToSet(e) \subseteq ToSet(c.ins)
    BY <1>2, <2>e, OnlyTyped, OnlyWithin DEF Entered
  <2>2. \A k \in ToSet(e) : k \in Hooks \ {h}
    BY <1>2, <2>1, SMTT(30) DEF ToSet
  <2>3. \A k \in ToSet(e) : k \in Y <=> k \in X
    BY <1>1, <2>2
  <2>4. Only(e, Y) = Only(e, X)
    BY <2>1, <2>3, OnlySame
  <2>. QED BY <2>4, <2>e
<1>7. Noted(c)' = Noted(c)
  BY <1>5, <1>6, <1>v, <1>w, <1>x, <1>y DEF Noted, Called, Entered
<1>. QED BY <1>3, <1>7, <1>v, <1>w

(* What a step that leaves the machine alone may do to a call it has met.    *)
Unaltered(c) ==
    /\ Known(c)' /\ Noted(c)' = Noted(c)
    /\ \A s \in Seq(Hooks) : \A seg : ToSet(s) \subseteq ToSet(c.ons) /\ Onward(c, s, seg) => Onward(c, s, seg)'

LEMMA FrontWithin ==
    ASSUME NEW S, NEW s \in Seq(S), s # <<>>
    PROVE  Front(s) \in Seq(S) /\ ToSet(Front(s)) \subseteq ToSet(s)
<1>f. PICK f : f = Front(s)
  OBVIOUS
<1>1. /\ f \in Seq(S) /\ Len(f) = Len(s) - 1 /\ Len(s) \in Nat /\ \A i \in 1 .. Len(s) - 1 : f[i] = s[i]
  BY <1>f, FrontFacts
<1>2. DOMAIN f = 1 .. Len(s) - 1 /\ DOMAIN s = 1 .. Len(s)
  BY <1>1
<1>3. ToSet(f) \subseteq ToSet(s)
  BY <1>1, <1>2 DEF ToSet
<1>. QED BY <1>1, <1>3, <1>f

LEMMA StaysComposed ==
    ASSUME ComposeInv, ~Untold, mode # "idle", NEW trail, Composed(trail),
           calls' = calls, mode' = mode, todo' = todo, pc' = pc, at' = at, lr' = lr, frames' = frames,
           mode = "jump" => reg' = reg, \A c \in Call : Known(c) => Unaltered(c)
    PROVE  Composed(trail)'
<1>a. PICK n : n = Len(frames)
  OBVIOUS
<1>b. PICK m : m = Len(calls)
  OBVIOUS
<1>d. PICK ds : ds = calls
  OBVIOUS
<1>1. frames \in Seq(Int) /\ frames # <<>> /\ calls \in Seq(Call)
  BY DEF ComposeInv, CallsInv, Basics
<1>2. n \in Nat \ {0} /\ m \in Nat /\ m = Depth /\ m = IF mode = "guest" THEN n - 1 ELSE n
  BY <1>1, <1>a, <1>b DEF Composed, Depth
<1>3. Depth' = m
  BY <1>2 DEF Depth
<1>4. ASSUME NEW i \in 1 .. m PROVE ds[i] \in Call /\ Known(ds[i]) /\ Unaltered(ds[i])
  BY <1>1, <1>4, <1>b, <1>d DEF Composed
<1>5. ASSUME NEW i \in 1 .. m, NEW seg, Back(ds[i], seg) PROVE Back(ds[i], seg)'
  <2>c. PICK c : c = ds[i]
    OBVIOUS
  <2>1. Noted(c)' = Noted(c) /\ Back(c, seg)
    BY <1>4, <1>5, <2>c DEF Unaltered
  <2>2. Back(c, seg)'
    BY <2>1 DEF Back
  <2>. QED BY <2>2, <2>c
<1>6. ASSUME NEW i \in 1 .. n - 1 PROVE Back(ds[i], Part(trail, i))'
  <2>g. PICK seg : seg = Part(trail, i)
    OBVIOUS
  <2>1. i \in 1 .. m
    BY <1>2
  <2>2. Back(ds[i], seg)
    BY <1>a, <1>d, <2>g DEF Composed
  <2>3. Back(ds[i], seg)'
    BY <1>5, <2>1, <2>2
  <2>. QED BY <2>3, <2>g
<1>7. ASSUME mode # "guest" PROVE Underway(ds[n], Part(trail, n))'
  <2>g. PICK seg : seg = Part(trail, n)
    OBVIOUS
  <2>c. PICK c : c = ds[n]
    OBVIOUS
  <2>1. n \in 1 .. m
    BY <1>2, <1>7
  <2>2. c \in Call /\ Unaltered(c)
    BY <1>4, <2>1, <2>c
  <2>3. Underway(c, seg)
    BY <1>7, <1>a, <1>d, <2>c, <2>g DEF Composed
  <2>4. CASE Returning(c, seg)
    <3>1. Back(c, seg)'
      BY <1>5, <2>1, <2>4, <2>c DEF Returning
    <3>2. Returning(c, seg)'
      BY <2>4, <3>1 DEF Returning
    <3>. QED BY <3>2, <2>c, <2>g DEF Underway
  <2>5. CASE Calling(c, seg)
    <3>e. PICK e : e = c.ons
      OBVIOUS
    <3>1. reg' = reg /\ at = NextOf(c) /\ Onward(c, e, seg)
      BY <2>5, <3>e DEF Calling
    <3>2. Onward(c, e, seg)' /\ NextOf(c)' = NextOf(c)
      BY <3>1, SameCall
    <3>3. Calling(c, seg)'
      BY <2>5, <3>1, <3>2, <3>e DEF Calling
    <3>. QED BY <3>3, <2>c, <2>g DEF Underway
  <2>6. CASE Deciding(c, seg)
    <3>o. PICK o : o = c.ons
      OBVIOUS
    <3>e. PICK e : e = Front(o)
      OBVIOUS
    <3>1. o \in Seq(Hooks) /\ o # <<>> /\ Onward(c, e, seg)
      BY <2>2, <2>6, <3>e, <3>o, CallFacts DEF Deciding
    <3>2. e \in Seq(Hooks) /\ ToSet(e) \subseteq ToSet(o)
      BY <3>1, <3>e, FrontWithin
    <3>3. Onward(c, e, seg)'
      BY <2>2, <3>1, <3>2, <3>o DEF Unaltered
    <3>4. Deciding(c, seg)'
      BY <2>6, <3>3, <3>e, <3>o DEF Deciding
    <3>. QED BY <3>4, <2>c, <2>g DEF Underway
  <2>7. CASE Entering(c, seg)
    <3>1. Noted(c)' = Noted(c)
      BY <2>2 DEF Unaltered
    <3>2. Inward(c, seg)'
      BY <2>7, <3>1 DEF Entering, Inward
    <3>3. Entering(c, seg)'
      BY <2>7, <3>2 DEF Entering
    <3>. QED BY <3>3, <2>c, <2>g DEF Underway
  <2>. QED BY <2>3, <2>4, <2>5, <2>6, <2>7 DEF Underway
<1>8. \A i \in 1 .. m : Known(ds[i])'
  BY <1>4 DEF Unaltered
<1>. QED BY <1>2, <1>3, <1>6, <1>7, <1>8, <1>a, <1>b, <1>d DEF Composed

LEMMA InstallComposes ==
    ASSUME ComposeInv, ~Untold, mode # "idle", NEW trail, NEW stale, Tells(trail, stale), Composed(trail),
           NEW h \in Hooks, NEW post \in BOOLEAN, InstallHook(h, post)
    PROVE  calls' = calls /\ Composes'
<1>1. /\ h \in fresh /\ h \notin active /\ fresh' \subseteq fresh /\ RegistryInv
      /\ calls' = calls /\ mode' = mode /\ todo' = todo /\ pc' = pc /\ at' = at /\ lr' = lr /\ frames' = frames
      /\ mode # "jump"
  BY DEF InstallHook, HostRuns, OnEntry, machine, entry, ComposeInv, CallsInv, Basics
<1>t. PICK t : t = reg.chain[G]
  OBVIOUS
<1>u. PICK u : u = reg'.chain[G]
  OBVIOUS
<1>2. /\ \A k \in Hooks \ {h} : reg'.after[k] = reg.after[k]
      /\ u \in {t, Append(t, h)}
  BY <1>1, <1>t, <1>u, InstallChange, FirstGot
<1>3. t \in Seq(Hooks)
  BY <1>1, <1>t, FirstGot DEF RegistryInv, Good, Registry
<1>4. ASSUME NEW c \in Call, Starts(c.chain, t) PROVE Starts(c.chain, u)
  <2>1. CASE u = t
    BY <1>4, <2>1
  <2>2. CASE u = Append(t, h)
    <3>1. Len(t) \in Nat /\ Len(u) = Len(t) + 1 /\ \A i \in 1 .. Len(t) : u[i] = t[i]
      BY <1>3, <2>2, AppendProperties
    <3>s. PICK s : s = c.chain
      OBVIOUS
    <3>2. Len(s) \in Nat
      BY <3>s, CallFacts
    <3>3. Len(s) <= Len(t) /\ \A i \in 1 .. Len(s) : s[i] = t[i]
      BY <1>4, <3>s DEF Starts
    <3>4. Len(s) <= Len(u) /\ \A i \in 1 .. Len(s) : i \in 1 .. Len(t)
      BY <3>1, <3>2, <3>3
    <3>. QED BY <3>1, <3>3, <3>4, <3>s DEF Starts
  <2>. QED BY <1>2, <2>1, <2>2
<1>5. ASSUME NEW c \in Call, Known(c) PROVE Unaltered(c)
  <2>1. /\ Noted(c)' = Noted(c)
        /\ \A s \in Seq(Hooks) : ToSet(s) \subseteq ToSet(c.ons) =>
              Only(s, WithPost(G))' = Only(s, WithPost(G))
    BY <1>1, <1>2, <1>5, UnmetNoted
  <2>2. Known(c)'
    BY <1>1, <1>5 DEF Known
  <2>3. ASSUME NEW s \in Seq(Hooks), NEW seg, ToSet(s) \subseteq ToSet(c.ons), Onward(c, s, seg)
        PROVE  Onward(c, s, seg)'
    <3>1. Only(s, WithPost(G)') = Only(s, WithPost(G))
      BY <2>1, <2>3
    <3>2. Starts(c.chain, u)
      BY <1>4, <1>t, <2>3 DEF Onward
    <3>. QED BY <2>3, <3>1, <3>2, <1>u DEF Onward
  <2>. QED BY <2>1, <2>2, <2>3 DEF Unaltered
<1>6. Composed(trail)'
  BY <1>1, <1>5, StaysComposed
<1>7. Tells(trail, stale)'
  BY RegisteredTold DEF ComposeInv
<1>. QED BY <1>1, <1>6, <1>7 DEF Composes

(***************************************************************************)
(* The calls compose.                                                      *)
(***************************************************************************)
(* Only the return to a caller says of a call that it is over.               *)
LEMMA DoneIsResumed ==
    ASSUME ComposeInv, HNext, ~Resume
    PROVE  done' = NoCall
<1>1. done # NoCall => mode = "guest"
  BY DEF ComposeInv
<1>2. CASE Run \/ GuestCall \/ GuestReturn \/ FinishRun
  BY <1>2 DEF Run, GuestCall, GuestReturn, FinishRun
<1>3. CASE \E h \in Hooks : RemoveHook(h)
  BY <1>3 DEF RemoveHook
<1>4. CASE \E h \in Hooks, post \in BOOLEAN : InstallHook(h, post)
  BY <1>1, <1>4 DEF InstallHook, HostRuns, OnEntry, machine
<1>5. CASE EnterOriginal \/ TrapFreed \/ TrapOn \/ TrapAfter \/ ReachEntry
  BY <1>1, <1>5 DEF EnterOriginal, TrapFreed, TrapOn, TrapAfter, ReachEntry
<1>6. CASE EntryCallsOriginal \/ EntrySkips \/ EntryDone
  BY <1>1, <1>6 DEF EntryCallsOriginal, EntrySkips, EntryDone, OnEntry
<1>7. CASE OnCallsOriginal \/ OnSkips \/ AfterReturns \/ CallbackRaises
  BY <1>1, <1>7 DEF OnCallsOriginal, OnSkips, AfterReturns, CallbackRaises, OnEntry
<1>. QED BY <1>2, <1>3, <1>4, <1>5, <1>6, <1>7 DEF HNext

(* What is to be shown of the next state.                                    *)
Accounts ==
    /\ calls \in Seq(Call)
    /\ mode = "idle" \/ Untold => calls = <<>>
    /\ mode # "idle" /\ ~Untold => Composes

(* Nothing is told of the rest of a run that a removal or a skew disturbed.  *)
LEMMA UntoldAccounts ==
    ASSUME ComposeInv, Untold, HNext
    PROVE  Accounts'
<1>1. calls = <<>> /\ <<>> \in Seq(Call)
  BY DEF ComposeInv
<1>2. CASE Run
  <2>1. calls' \in Seq(Call) /\ Composes'
    BY <1>2, RunComposes
  <2>2. calls' = <<>>
    BY <1>1, <1>2 DEF Run
  <2>. QED BY <2>1, <2>2 DEF Accounts
<1>3. CASE ~Run
  <2>1. calls' = <<>>
    <3>1. CASE GuestCall \/ EnterOriginal \/ GuestReturn \/ Resume \/ FinishRun
      BY <1>1, <3>1 DEF GuestCall, EnterOriginal, EnterBody, GuestReturn, Resume, FinishRun, Outstanding
    <3>2. CASE TrapFreed \/ TrapOn \/ TrapAfter \/ ReachEntry
      BY <1>1, <3>2 DEF TrapFreed, TrapOn, TrapAfter, ReachEntry, Abort, Outstanding
    <3>3. CASE EntryCallsOriginal \/ EntrySkips
      BY <1>1, <3>3 DEF EntryCallsOriginal, EntrySkips, Outstanding
    <3>4. CASE EntryDone
      BY <1>1, <3>4 DEF EntryDone, EnterBody, Outstanding
    <3>5. CASE OnCallsOriginal \/ OnSkips \/ AfterReturns \/ CallbackRaises
      BY <1>1, <3>5 DEF OnCallsOriginal, OnSkips, AfterReturns, CallbackRaises, Abort, Outstanding
    <3>6. CASE \E h \in Hooks, post \in BOOLEAN : InstallHook(h, post)
      BY <1>1, <3>6 DEF InstallHook, machine
    <3>7. CASE \E h \in Hooks : RemoveHook(h)
      BY <3>7 DEF RemoveHook
    <3>. QED BY <1>3, <3>1, <3>2, <3>3, <3>4, <3>5, <3>6, <3>7 DEF HNext
  <2>2. Untold'
    <3>0. torn \/ skewed
      BY DEF Untold
    <3>1. CASE GuestCall \/ EnterOriginal \/ GuestReturn \/ Resume \/ FinishRun
      BY <3>0, <3>1 DEF GuestCall, EnterOriginal, GuestReturn, Resume, FinishRun, past, Untold
    <3>2. CASE TrapFreed \/ TrapOn \/ TrapAfter \/ ReachEntry
      BY <3>0, <3>2 DEF TrapFreed, TrapOn, TrapAfter, ReachEntry, past, Untold
    <3>3. CASE EntryCallsOriginal \/ EntrySkips
      BY <3>0, <3>3 DEF EntryCallsOriginal, EntrySkips, past, Untold
    <3>4. CASE EntryDone
      BY <3>0, <3>4 DEF EntryDone, Untold
    <3>5. CASE OnCallsOriginal \/ OnSkips \/ AfterReturns \/ CallbackRaises
      BY <3>0, <3>5 DEF OnCallsOriginal, OnSkips, AfterReturns, CallbackRaises, past, Untold
    <3>6. CASE \E h \in Hooks, post \in BOOLEAN : InstallHook(h, post)
      BY <3>0, <3>6 DEF InstallHook, machine, past, Untold
    <3>7. CASE \E h \in Hooks : RemoveHook(h)
      <4>1. torn' = (torn \/ mode # "idle") /\ skewed' = skewed
        BY <3>7 DEF RemoveHook
      <4>2. CASE torn
        <5>1. (torn \/ mode # "idle") = TRUE
          BY <4>2
        <5>. QED BY <4>1, <5>1 DEF Untold
      <4>3. CASE skewed
        BY <4>1, <4>3 DEF Untold
      <4>. QED BY <3>0, <4>2, <4>3
    <3>. QED BY <1>3, <3>1, <3>2, <3>3, <3>4, <3>5, <3>6, <3>7 DEF HNext
  <2>. QED BY <1>1, <2>1, <2>2 DEF Accounts
<1>. QED BY <1>2, <1>3

LEMMA IdleAccounts ==
    ASSUME ComposeInv, mode = "idle", HNext
    PROVE  Accounts'
<1>1. calls = <<>> /\ <<>> \in Seq(Call)
  BY DEF ComposeInv
<1>2. CASE Run
  <2>1. calls' \in Seq(Call) /\ Composes'
    BY <1>2, RunComposes
  <2>2. calls' = <<>>
    BY <1>1, <1>2 DEF Run
  <2>. QED BY <2>1, <2>2 DEF Accounts
<1>3. CASE \E h \in Hooks, post \in BOOLEAN : InstallHook(h, post)
  <2>1. calls' = <<>> /\ mode' = "idle"
    BY <1>1, <1>3 DEF InstallHook, machine
  <2>. QED BY <1>1, <2>1 DEF Accounts
<1>4. CASE \E h \in Hooks : RemoveHook(h)
  <2>1. calls' = <<>> /\ mode' = "idle"
    BY <1>4 DEF RemoveHook
  <2>. QED BY <1>1, <2>1 DEF Accounts
<1>5. ~(GuestCall \/ EnterOriginal \/ GuestReturn \/ Resume \/ FinishRun \/ TrapFreed \/ TrapOn \/ TrapAfter
        \/ ReachEntry \/ EntryCallsOriginal \/ EntrySkips \/ EntryDone \/ OnCallsOriginal \/ OnSkips
        \/ AfterReturns \/ CallbackRaises)
  BY DEF GuestCall, EnterOriginal, GuestReturn, Resume, FinishRun, TrapFreed, TrapOn, TrapAfter, ReachEntry,
         EntryCallsOriginal, EntrySkips, EntryDone, OnEntry, OnCallsOriginal, OnSkips, AfterReturns, CallbackRaises
<1>. QED BY <1>2, <1>3, <1>4, <1>5 DEF HNext

LEMMA RunAccounts ==
    ASSUME ComposeInv, mode # "idle", ~Untold, HNext
    PROVE  Accounts'
<1>0. ~torn /\ ~skewed
  BY DEF Untold
<1>1. PICK trail, stale : Tells(trail, stale) /\ Composed(trail)
  BY DEF ComposeInv, Composes
<1>2. <<>> \in Seq(Call)
  OBVIOUS
<1>3. CASE GuestCall \/ EnterOriginal \/ GuestReturn \/ Resume
  <2>1. mode' # "idle" /\ ~Untold'
    BY <1>0, <1>3 DEF GuestCall, EnterOriginal, EnterBody, GuestReturn, Resume, Jump, past, Untold
  <2>2. calls' \in Seq(Call) /\ Composes'
    BY <1>1, <1>3, CallComposes, BodyComposes, ReturnComposes, ResumeComposes
  <2>. QED BY <2>1, <2>2 DEF Accounts
<1>4. CASE FinishRun
  <2>1. mode = "guest" /\ Len(frames) = 1 /\ mode' = "idle" /\ calls' = calls
    BY <1>4 DEF FinishRun
  <2>2. calls \in Seq(Call) /\ Len(calls) = 0
    BY <1>1, <2>1 DEF Composed, Depth, ComposeInv
  <2>3. calls' = <<>>
    BY <2>1, <2>2
  <2>. QED BY <1>2, <2>1, <2>3 DEF Accounts
<1>5. CASE TrapFreed \/ CallbackRaises
  <2>1. mode' = "idle" /\ calls' = <<>>
    BY <1>5 DEF TrapFreed, CallbackRaises, Abort
  <2>. QED BY <1>2, <2>1 DEF Accounts
<1>6. CASE TrapOn \/ ReachEntry \/ EntryCallsOriginal \/ EntrySkips \/ OnSkips \/ AfterReturns
  <2>1. mode' # "idle" /\ ~Untold'
    BY <1>0, <1>6 DEF TrapOn, ReachEntry, EntryCallsOriginal, EntrySkips, OnEntry, OnSkips, AfterReturns,
                      Jump, past, Untold
  <2>2. calls' \in Seq(Call) /\ Composes'
    BY <1>1, <1>6, OnComposes, ReachComposes, HandlerComposes, SkipComposes, BackComposes
  <2>. QED BY <2>1, <2>2 DEF Accounts
<1>7. CASE TrapAfter \/ OnCallsOriginal
  <2>1. calls' \in Seq(Call) /\ Composes'
    BY <1>1, <1>7, AfterComposes, CallsOnComposes
  <2>2. ~Untold'
    BY <1>0, <1>7 DEF TrapAfter, OnCallsOriginal, past, Untold
  <2>3. mode' = "idle" => calls' = <<>>
    BY <1>7 DEF TrapAfter, OnCallsOriginal, Abort, Jump
  <2>. QED BY <2>1, <2>2, <2>3 DEF Accounts
<1>8. CASE EntryDone
  <2>1. CASE skewed'
    <3>1. calls' = <<>> /\ Untold'
      BY <1>0, <1>8, <2>1 DEF EntryDone, Untold
    <3>. QED BY <1>2, <3>1 DEF Accounts
  <2>2. CASE ~skewed'
    <3>1. calls' \in Seq(Call) /\ Composes'
      BY <1>1, <1>8, <2>2, EntryComposes
    <3>2. mode' # "idle" /\ ~Untold'
      BY <1>0, <1>8, <2>2 DEF EntryDone, EnterBody, Jump, Untold
    <3>. QED BY <3>1, <3>2 DEF Accounts
  <2>. QED BY <2>1, <2>2
<1>9. CASE \E h \in Hooks, post \in BOOLEAN : InstallHook(h, post)
  <2>1. calls' = calls /\ Composes'
    BY <1>1, <1>9, InstallComposes
  <2>2. mode' = mode /\ ~Untold'
    BY <1>0, <1>9 DEF InstallHook, machine, past, Untold
  <2>. QED BY <2>1, <2>2 DEF Accounts, ComposeInv
<1>10. CASE \E h \in Hooks : RemoveHook(h)
  <2>1. calls' = <<>> /\ Untold'
    BY <1>10 DEF RemoveHook, Untold
  <2>. QED BY <1>2, <2>1 DEF Accounts
<1>11. ~Run
  BY DEF Run
<1>. QED BY <1>3, <1>4, <1>5, <1>6, <1>7, <1>8, <1>9, <1>10, <1>11 DEF HNext

LEMMA StepsCompose ==
    ASSUME ComposeInv, CallsInv', HNext
    PROVE  ComposeInv'
<1>1. Accounts'
  BY UntoldAccounts, IdleAccounts, RunAccounts
<1>2. CASE ~Resume
  <2>1. done' = NoCall
    BY <1>2, DoneIsResumed
  <2>2. CallsCompose'
    BY <2>1 DEF CallsCompose
  <2>. QED BY <1>1, <2>1, <2>2 DEF Accounts, ComposeInv
<1>3. CASE Resume
  <2>1. mode' = "guest" /\ mode = "jump"
    BY <1>3 DEF Resume
  <2>2. CallsCompose'
    <3>1. CASE Untold
      <4>1. done' = NoCall
        BY <1>3, <3>1 DEF Resume, Current
      <4>. QED BY <4>1 DEF CallsCompose
    <3>2. CASE ~Untold
      <4>1. PICK trail, stale : Tells(trail, stale) /\ Composed(trail)
        BY <2>1, <3>2 DEF ComposeInv, Composes
      <4>. QED BY <1>3, <3>2, <4>1, ResumeComposes
    <3>. QED BY <3>1, <3>2
  <2>. QED BY <1>1, <2>1, <2>2 DEF Accounts, ComposeInv
<1>. QED BY <1>2, <1>3

LEMMA StutterComposes ==
    ASSUME ComposeInv, CallsInv', UNCHANGED hvars
    PROVE  ComposeInv'
<1>1. /\ reg' = reg /\ fresh' = fresh /\ savedLr' = savedLr /\ mode' = mode /\ todo' = todo /\ pc' = pc
      /\ at' = at /\ lr' = lr /\ frames' = frames /\ calls' = calls /\ done' = done /\ torn' = torn /\ skewed' = skewed
  BY DEF hvars, registered, machine, entry, past
<1>2. Untold' <=> Untold
  BY <1>1 DEF Untold
<1>3. CallsCompose'
  <2>c. PICK c : c = done
    OBVIOUS
  <2>1. Noted(c)' = Noted(c)
    BY <1>1, SameCall
  <2>. QED BY <1>1, <2>1, <2>c DEF CallsCompose, ComposeInv
<1>4. ASSUME mode # "idle", ~Untold PROVE Composes'
  <2>1. PICK trail, stale : Tells(trail, stale) /\ Composed(trail)
    BY <1>4 DEF ComposeInv, Composes
  <2>2. Tells(trail, stale)'
    BY <1>1, <2>1 DEF Tells
  <2>3. \A c \in Call : Known(c) => Unaltered(c)
    <3> SUFFICES ASSUME NEW c \in Call, Known(c) PROVE Unaltered(c)
      OBVIOUS
    <3>1. Known(c)' /\ Noted(c)' = Noted(c)
      BY <1>1, SameCall DEF Known
    <3>2. ASSUME NEW s \in Seq(Hooks), NEW seg, Onward(c, s, seg) PROVE Onward(c, s, seg)'
      BY <1>1, <3>2, SameCall
    <3>. QED BY <3>1, <3>2 DEF Unaltered
  <2>4. Composed(trail)'
    BY <1>1, <1>4, <2>1, <2>3, StaysComposed
  <2>. QED BY <2>2, <2>4 DEF Composes
<1>. QED BY <1>1, <1>2, <1>3, <1>4 DEF ComposeInv

(* In a run in which no hook was removed before, and no hook on the entry    *)
(* skipped a call that a later one expected to return: a call that returned  *)
(* ran the hooks that were on its import when it was made, the newest first, *)
(* up to one that skipped; then those on the entry; then the original once,  *)
(* if none skipped; and then the post_calls of those that called on, the     *)
(* last of them first.  For every number of hooks, of functions live at once *)
(* and of runs that ended early before (HookManager's trampolines, saved_lr  *)
(* and the code hook of replace).                                            *)
THEOREM CallsAlwaysCompose == HSpec => []CallsCompose
<1>1. HInit /\ CallsInv => ComposeInv
  BY DEF HInit, ComposeInv, CallsCompose
<1>2. ComposeInv /\ CallsInv' /\ [HNext]_hvars => ComposeInv'
  BY StepsCompose, StutterComposes
<1>3. ComposeInv => CallsCompose
  BY DEF ComposeInv
<1>. QED BY <1>1, <1>2, <1>3, CallsInductive, PTL DEF HSpec
===============================================================================
