-------------------------- MODULE CallTracerProofs --------------------------
(***************************************************************************)
(* For every number of items, calls and iterations: nested iterations keep *)
(* apart.  For every limit on open calls: every traced call is accounted   *)
(* for once, and a report carries the return value of its own call.        *)
(***************************************************************************)
EXTENDS CallTracer, WellFoundedInduction, SequenceTheorems, TLAPS

(***************************************************************************)
(* The stacks of the guest and of the host.  Of a trap only the kind matters. *)
(***************************************************************************)
Me == Nat \X Nat \X Nat
Func ==
    [me : Me, traced : BOOLEAN, left : BOOLEAN, kind : Kinds \cup {"none"}, of : Nat, info : Nat]
Iteration ==
    [id : Nat \ {0}, index : Nat, callback : BOOLEAN, savedLr : Me, info : Nat \ {0}]

ITypes ==
    /\ stack \in Seq(Func)
    /\ trap # NoTrap => trap.kind \in Kinds
    /\ iterations \in [Kinds -> Seq(Iteration)]
    /\ records \in [1 .. MaxBegun -> Me]
    /\ made \in Nat /\ begun \in 0 .. MaxBegun /\ orphaned \in BOOLEAN

(* A callback of kind k at depth i.                                          *)
CallbackAt(i, k) == i \in DOMAIN stack /\ IsCallback(stack[i]) /\ stack[i].kind = k

(* An iteration's record is its place in the stack of its kind.  The         *)
(* callbacks that are live have places in the order of their depths, and     *)
(* all of them are below the iteration whose callback has just returned.     *)
Placed ==
    /\ \A i \in DOMAIN stack : IsCallback(stack[i]) => i > 1 /\ stack[i].kind \in Kinds
    /\ \A k \in Kinds :
          /\ Len(iterations[k]) <= begun
          /\ \A n \in DOMAIN iterations[k] : iterations[k][n].info = n
          /\ \A i \in DOMAIN stack : CallbackAt(i, k) => stack[i].info \in 1 .. Len(iterations[k])
          /\ \A i, j \in DOMAIN stack :
                CallbackAt(i, k) /\ CallbackAt(j, k) /\ i < j => stack[i].info < stack[j].info
    /\ trap # NoTrap =>
          /\ stack # <<>> /\ iterations[trap.kind] # <<>>
          /\ \A i \in DOMAIN stack :
                CallbackAt(i, trap.kind) => stack[i].info < Len(iterations[trap.kind])

(* Unless an iteration was jumped out of inside another: every live callback *)
(* finds its own iteration at its place, and no iteration above that place   *)
(* was given up.                                                             *)
Taken(k, n) ==
    \/ \E i \in DOMAIN stack : CallbackAt(i, k) /\ stack[i].info = n
    \/ trap # NoTrap /\ trap.kind = k /\ n = Len(iterations[k])

Nested ==
    ~orphaned =>
        /\ \A k \in Kinds : \A i \in DOMAIN stack :
              CallbackAt(i, k) =>
                  /\ iterations[k][stack[i].info].id = stack[i].of
                  /\ \A n \in stack[i].info .. Len(iterations[k]) : Taken(k, n)
        /\ trap # NoTrap => Last(iterations[trap.kind]).id = trap.of

IterationsInv == ITypes /\ Placed /\ RecordsStand /\ Nested

(* Two entries of the stack that stand for the same function.                *)
Same(f, g) ==
    /\ f.me = g.me /\ f.traced = g.traced
    /\ f.kind = g.kind /\ f.of = g.of /\ f.info = g.info

(* The same functions at the same depths, up to depth d; only the mark of    *)
(* the deepest of them may be new.                                           *)
SameUpTo(s, t, d) ==
    \A i \in 1 .. d : Same(t[i], s[i]) /\ (s[i].left => t[i].left) /\ (i < d => t[i] = s[i])

LEMMA LeftKeeps ==
    ASSUME NEW s \in Seq(Func), s # <<>>
    PROVE  /\ Left(s) \in Seq(Func) /\ Len(Left(s)) = Len(s) /\ Left(s) # <<>>
           /\ SameUpTo(s, Left(s), Len(s)) /\ Left(s)[Len(s)].left
<1> DEFINE n == Len(s)  t == Left(s)  f == [s[n] EXCEPT !.left = TRUE]
<1>1. n \in Nat /\ n > 0 /\ DOMAIN s = 1 .. n /\ n \in 1 .. n
  OBVIOUS
<1>2. s[n] \in Func
  BY <1>1
<1>3. /\ f \in Func /\ f.left /\ Same(f, s[n])
  BY <1>2 DEF Func, Same
<1>4. DOMAIN t = 1 .. n /\ t[n] = f /\ \A i \in 1 .. n : i # n => t[i] = s[i]
  BY <1>1 DEF Left
<1>5. t \in [1 .. n -> Func]
  <2>1. t = [i \in 1 .. n |-> t[i]]
    BY <1>4 DEF Left
  <2>2. \A i \in 1 .. n : s[i] \in Func
    BY <1>1
  <2>3. \A i \in 1 .. n : t[i] \in Func
    BY <1>3, <1>4, <2>2
  <2>. QED BY <2>1, <2>3
<1> HIDE DEF t, f
<1>6. t \in Seq(Func) /\ Len(t) = n
  BY <1>5, <1>1
<1>7. SameUpTo(s, t, n)
  <2> SUFFICES ASSUME NEW i \in 1 .. n
               PROVE  Same(t[i], s[i]) /\ (s[i].left => t[i].left) /\ (i < n => t[i] = s[i])
    BY DEF SameUpTo
  <2>1. CASE i = n
    BY <2>1, <1>1, <1>3, <1>4
  <2>2. CASE i # n
    BY <2>2, <1>1, <1>4 DEF Same
  <2>. QED BY <2>1, <2>2
<1>8. t[n].left /\ t # <<>>
  <2>1. t[n].left
    BY <1>3, <1>4
  <2>2. t # <<>>
    BY <1>1, <1>6
  <2>. QED BY <2>1, <2>2
<1>. QED BY <1>6, <1>7, <1>8 DEF t

LEMMA SameRefl ==
    ASSUME NEW s \in Seq(Func), NEW d \in 0 .. Len(s)
    PROVE  SameUpTo(s, s, d)
BY DEF SameUpTo, Same

LEMMA Pushed ==
    ASSUME NEW s \in Seq(Func), NEW f \in Func, NEW r \in Seq(Func),
           Len(r) = Len(s), SameUpTo(s, r, Len(s))
    PROVE  /\ Append(r, f) \in Seq(Func) /\ Len(Append(r, f)) = Len(s) + 1
           /\ Append(r, f)[Len(s) + 1] = f
           /\ SameUpTo(s, Append(r, f), Len(s))
           /\ \A i \in 1 .. Len(s) : Append(r, f)[i] = r[i]
BY AppendProperties DEF SameUpTo

LEMMA FunctionType ==
    ASSUME NEW me \in Me, NEW traced \in BOOLEAN
    PROVE  Function(me, traced) \in Func /\ ~IsCallback(Function(me, traced))
           /\ Function(me, traced).me = me /\ Function(me, traced).traced = traced
           /\ ~Function(me, traced).left
BY DEF Function, Func, IsCallback

LEMMA CallbackType ==
    ASSUME NEW k \in Kinds, NEW it \in Iteration
    PROVE  /\ CallbackOf(k, it) \in Func /\ IsCallback(CallbackOf(k, it))
           /\ CallbackOf(k, it).me = <<0, it.id, it.index>> /\ <<0, it.id, it.index>> \in Me
           /\ CallbackOf(k, it).kind = k /\ CallbackOf(k, it).of = it.id
           /\ CallbackOf(k, it).info = it.info /\ CallbackOf(k, it).traced = it.callback
           /\ ~CallbackOf(k, it).left
BY DEF CallbackOf, Func, IsCallback, Iteration, Me

(* When the guest does not run, only the lengths of the stacks matter.       *)
LEMMA NoneLive ==
    ASSUME stack = <<>>, trap = NoTrap, ITypes,
           \A k \in Kinds : Len(iterations[k]) <= begun
                            /\ \A n \in DOMAIN iterations[k] : iterations[k][n].info = n
    PROVE  IterationsInv
BY DEF IterationsInv, Placed, RecordsStand, Nested, CallbackAt

LEMMA InitIterations == IInit => IterationsInv
<1> SUFFICES ASSUME IInit PROVE IterationsInv
  OBVIOUS
<1>1. ITypes
  <2>1. Outermost \in Me
    BY DEF Outermost, Me
  <2>2. stack \in Seq(Func) /\ iterations \in [Kinds -> Seq(Iteration)]
    BY DEF IInit
  <2>3. records \in [1 .. MaxBegun -> Me]
    BY <2>1 DEF IInit
  <2>4. made \in Nat /\ begun \in 0 .. MaxBegun /\ trap = NoTrap
    BY IterationsAssumption DEF IInit
  <2>5. orphaned \in BOOLEAN
    BY DEF IInit
  <2>. QED BY <2>2, <2>3, <2>4, <2>5 DEF ITypes
<1>2. \A k \in Kinds : iterations[k] = <<>>
  BY DEF IInit
<1>. QED BY <1>1, <1>2, NoneLive DEF IInit, ITypes

(* What every step does to the stacks of the host and to the live callbacks. *)
LEMMA RunSafe ==
    ASSUME IterationsInv, NEW traced \in BOOLEAN, Run(traced)
    PROVE  IterationsInv'
<1>0. trap = NoTrap
  BY DEF IterationsInv, Placed, Run
<1>1. Outermost \in Me
  BY DEF Outermost, Me
<1>2. /\ stack' \in Seq(Func) /\ Len(stack') = 1 /\ ~IsCallback(stack'[1])
  BY <1>1, FunctionType DEF Run
<1>3. ITypes'
  BY <1>0, <1>2 DEF IterationsInv, ITypes, Run
<1>4. \A i \in DOMAIN stack' : ~IsCallback(stack'[i])
  BY <1>2
<1>5. Placed' /\ RecordsStand' /\ Nested'
  BY <1>0, <1>4 DEF IterationsInv, Placed, RecordsStand, Nested, CallbackAt, Run
<1>. QED BY <1>3, <1>5 DEF IterationsInv

LEMMA CallSafe ==
    ASSUME IterationsInv, NEW traced \in BOOLEAN, Call(traced)
    PROVE  IterationsInv'
<1> DEFINE r == IF traced THEN stack ELSE Left(stack)
           f == Function(<<made + 1, 0, 0>>, traced)
           n == Len(stack)
<1>0. stack \in Seq(Func) /\ stack # <<>> /\ trap = NoTrap /\ n \in Nat /\ n > 0 /\ made \in Nat
  BY DEF IterationsInv, ITypes, Call, InGuest
<1>1. f \in Func /\ ~IsCallback(f)
  BY <1>0, FunctionType DEF Me
<1>2. r \in Seq(Func) /\ Len(r) = n /\ SameUpTo(stack, r, n)
  BY <1>0, LeftKeeps, SameRefl
<1>3. stack' = Append(r, f) /\ UNCHANGED <<trap, iterations, records, begun, orphaned>> /\ made' = made + 1
  BY DEF Call
<1> HIDE DEF r, f
<1>4. /\ stack' \in Seq(Func) /\ Len(stack') = n + 1 /\ stack'[n + 1] = f
      /\ \A i \in 1 .. n : Same(stack'[i], stack[i])
  BY <1>0, <1>1, <1>2, <1>3, Pushed DEF SameUpTo
<1>5. ITypes'
  BY <1>0, <1>3, <1>4 DEF IterationsInv, ITypes
<1>6. \A i : i \in DOMAIN stack' /\ IsCallback(stack'[i]) <=> i \in DOMAIN stack /\ IsCallback(stack[i])
  BY <1>0, <1>1, <1>4 DEF Same, IsCallback
<1>7. \A i \in DOMAIN stack : stack'[i].kind = stack[i].kind /\ stack'[i].of = stack[i].of
                              /\ stack'[i].info = stack[i].info /\ stack'[i].me = stack[i].me
  BY <1>0, <1>4 DEF Same
<1>8. \A k \in Kinds : \A i : CallbackAt(i, k)' <=> CallbackAt(i, k)
  BY <1>6, <1>7 DEF CallbackAt
<1>9. Placed'
  <2>1. Placed
    BY DEF IterationsInv
  <2>2. \A i \in DOMAIN stack' : IsCallback(stack'[i]) => i > 1 /\ stack'[i].kind \in Kinds
    BY <2>1, <1>6, <1>7 DEF Placed
  <2>3. \A k \in Kinds : \A i \in DOMAIN stack' :
           CallbackAt(i, k)' => stack'[i].info \in 1 .. Len(iterations[k])
    BY <2>1, <1>6, <1>7, <1>8 DEF Placed, CallbackAt
  <2>4. \A k \in Kinds : \A i, j \in DOMAIN stack' :
           CallbackAt(i, k)' /\ CallbackAt(j, k)' /\ i < j => stack'[i].info < stack'[j].info
    BY <2>1, <1>6, <1>7, <1>8 DEF Placed, CallbackAt
  <2>5. \A k \in Kinds : Len(iterations[k]) <= begun
                           /\ \A m \in DOMAIN iterations[k] : iterations[k][m].info = m
    BY <2>1 DEF Placed
  <2>. QED BY <2>2, <2>3, <2>4, <2>5, <1>0, <1>3 DEF Placed
<1>10. RecordsStand'
  BY <1>3, <1>6, <1>7 DEF IterationsInv, RecordsStand
<1>11. Nested'
  <2> SUFFICES ASSUME ~orphaned, NEW k \in Kinds, NEW i, CallbackAt(i, k)
               PROVE  /\ iterations[k][stack[i].info].id = stack[i].of
                      /\ \A m \in stack[i].info .. Len(iterations[k]) : Taken(k, m)'
    BY <1>0, <1>3, <1>7, <1>8 DEF Nested, CallbackAt
  <2>1. /\ iterations[k][stack[i].info].id = stack[i].of
        /\ \A m \in stack[i].info .. Len(iterations[k]) : Taken(k, m)
    BY DEF IterationsInv, Nested, CallbackAt
  <2>2. \A m : Taken(k, m) => Taken(k, m)'
    BY <1>0, <1>3, <1>4, <1>6, <1>7, <1>8 DEF Taken, CallbackAt
  <2>. QED BY <2>1, <2>2
<1>. QED BY <1>5, <1>9, <1>10, <1>11 DEF IterationsInv

(* A run that ends leaves the stacks of the host as they are.                *)
LEMMA AbortSafe ==
    ASSUME IterationsInv, Crash
    PROVE  IterationsInv'
<1>1. ITypes'
  BY DEF IterationsInv, ITypes, Crash, Abort
<1>2. \A k \in Kinds : Len(iterations'[k]) <= begun'
                            /\ \A n \in DOMAIN iterations'[k] : iterations'[k][n].info = n
  BY DEF IterationsInv, Placed, Crash
<1>. QED BY <1>1, <1>2 DEF IterationsInv, Placed, RecordsStand, Nested, CallbackAt, Crash, Abort

LEMMA NewType ==
    ASSUME ITypes, NEW k \in Kinds, NEW traced \in BOOLEAN, stack # <<>>, begun < MaxBegun
    PROVE  /\ New(k, traced) \in Iteration /\ New(k, traced).id = begun + 1
           /\ New(k, traced).index = 1 /\ New(k, traced).info = Len(iterations[k]) + 1
<1>1. Top \in Func
  BY DEF Top, Last, ITypes
<1>2. begun + 1 \in Nat \ {0} /\ Len(iterations[k]) \in Nat
  BY DEF ITypes
<1>. QED BY <1>1, <1>2 DEF New, Iteration, Info, Func

(* An iteration goes on the stack of its kind, above the others.             *)
LEMMA AppendedIteration ==
    ASSUME ITypes, NEW k \in Kinds, NEW it \in Iteration, it.info = Len(iterations[k]) + 1,
           \A j \in Kinds : Len(iterations[j]) <= begun
                            /\ \A n \in DOMAIN iterations[j] : iterations[j][n].info = n,
           begun' = begun + 1, begun < MaxBegun,
           iterations' = [iterations EXCEPT ![k] = Append(@, it)]
    PROVE  /\ iterations' \in [Kinds -> Seq(Iteration)] /\ begun' \in 0 .. MaxBegun
           /\ Len(iterations'[k]) = Len(iterations[k]) + 1
           /\ iterations'[k][Len(iterations[k]) + 1] = it
           /\ \A n \in 1 .. Len(iterations[k]) : iterations'[k][n] = iterations[k][n]
           /\ \A j \in Kinds : j # k => iterations'[j] = iterations[j]
           /\ \A j \in Kinds : Len(iterations'[j]) <= begun'
                               /\ \A n \in DOMAIN iterations'[j] : iterations'[j][n].info = n
<1> DEFINE old == iterations[k]  new == Append(old, it)
<1>0. old \in Seq(Iteration) /\ Len(old) \in Nat /\ begun \in Nat /\ MaxBegun \in Nat
  BY IterationsAssumption DEF ITypes
<1>1. /\ new \in Seq(Iteration) /\ Len(new) = Len(old) + 1 /\ new[Len(old) + 1] = it
      /\ \A n \in 1 .. Len(old) : new[n] = old[n]
  BY <1>0, AppendProperties
<1>2. iterations'[k] = new /\ \A j \in Kinds : j # k => iterations'[j] = iterations[j]
  BY DEF ITypes
<1> HIDE DEF new
<1>3. iterations' \in [Kinds -> Seq(Iteration)]
  BY <1>1 DEF ITypes, new
<1>4. ASSUME NEW j \in Kinds
      PROVE  Len(iterations'[j]) <= begun' /\ \A n \in DOMAIN iterations'[j] : iterations'[j][n].info = n
  <2>1. CASE j = k
    <3>1. Len(iterations'[j]) <= begun'
      BY <2>1, <1>0, <1>1, <1>2
    <3>2. \A n \in DOMAIN iterations'[j] : iterations'[j][n].info = n
      BY <2>1, <1>0, <1>1, <1>2
    <3>. QED BY <3>1, <3>2
  <2>2. CASE j # k
    <3>1. Len(iterations[j]) \in Nat
      BY DEF ITypes
    <3>. QED BY <2>2, <3>1, <1>0, <1>2
  <2>. QED BY <2>1, <2>2
<1>5. begun' \in 0 .. MaxBegun
  BY <1>0
<1>. QED BY <1>1, <1>2, <1>3, <1>4, <1>5

LEMMA BeginFailsSafe ==
    ASSUME IterationsInv, NEW traced \in BOOLEAN, BeginFails(traced)
    PROVE  IterationsInv'
<1>1. "phdr" \in Kinds /\ stack # <<>> /\ begun < MaxBegun
  BY DEF Kinds, BeginFails, MayBegin, InGuest
<1>2. New("phdr", traced) \in Iteration /\ New("phdr", traced).info = Len(iterations["phdr"]) + 1
  BY <1>1, NewType DEF IterationsInv
<1>3. /\ iterations' \in [Kinds -> Seq(Iteration)] /\ begun' \in 0 .. MaxBegun
      /\ \A j \in Kinds : Len(iterations'[j]) <= begun'
                          /\ \A n \in DOMAIN iterations'[j] : iterations'[j][n].info = n
  BY <1>1, <1>2, AppendedIteration DEF IterationsInv, Placed, BeginFails
<1>4. ITypes'
  BY <1>3 DEF IterationsInv, ITypes, BeginFails, Abort
<1>. QED BY <1>3, <1>4 DEF IterationsInv, Placed, RecordsStand, Nested, CallbackAt, BeginFails, Abort

(* The callback of an iteration on top of its stack is entered: what begins  *)
(* an iteration and what takes it to its next item have in common.           *)
LEMMA Invoked ==
    ASSUME IterationsInv, NEW k \in Kinds, NEW it \in Iteration, NEW r \in Seq(Func),
           stack # <<>>, Len(r) = Len(stack), SameUpTo(stack, r, Len(stack)),
           Invoke(r, k, it),
           UNCHANGED orphaned, made' = made, begun' \in 0 .. MaxBegun,
           iterations' \in [Kinds -> Seq(Iteration)],
           iterations'[k] # <<>>, Last(iterations'[k]) = it,
           \A j \in Kinds : Len(iterations'[j]) <= begun'
                            /\ \A n \in DOMAIN iterations'[j] : iterations'[j][n].info = n,
           \A j \in Kinds : j # k => iterations'[j] = iterations[j],
           \A i \in DOMAIN stack : CallbackAt(i, k) => stack[i].info < it.info,
           trap # NoTrap => trap.kind = k,
           trap = NoTrap => Len(iterations'[k]) = Len(iterations[k]) + 1,
           trap # NoTrap => Len(iterations'[k]) = Len(iterations[k]),
           \A n \in 1 .. Len(iterations[k]) :
               n <= Len(iterations'[k]) /\ iterations'[k][n].id = iterations[k][n].id
    PROVE  IterationsInv'
<1> DEFINE f == CallbackOf(k, it)
<1>a. PICK n : n = Len(stack)
  OBVIOUS
<1>b. PICK top : top = Len(iterations'[k])
  OBVIOUS
<1>. USE <1>a, <1>b
<1>0. /\ stack \in Seq(Func) /\ n \in Nat /\ n > 0 /\ DOMAIN stack = 1 .. n
      /\ begun' \in Nat /\ begun' <= MaxBegun
  BY IterationsAssumption DEF IterationsInv, ITypes
<1>1. iterations'[k] \in Seq(Iteration) /\ top \in Nat /\ top > 0 /\ it.info = top /\ top <= begun'
  BY DEF Last
<1>2. /\ f \in Func /\ IsCallback(f) /\ f.kind = k /\ f.of = it.id /\ f.info = it.info
      /\ f.me = <<0, it.id, it.index>> /\ f.me \in Me
  <2>1. k \in Kinds /\ it \in Iteration
    OBVIOUS
  <2>. QED BY ONLY <2>1, CallbackType
<1>3. stack' = Append(r, f) /\ trap' = NoTrap
      /\ records' = IF k = "phdr" THEN [records EXCEPT ![it.info] = f.me] ELSE records
  BY <1>2 DEF Invoke
<1> HIDE DEF f
<1>4. /\ stack' \in Seq(Func) /\ Len(stack') = n + 1 /\ stack'[n + 1] = f
      /\ \A i \in 1 .. n : Same(stack'[i], stack[i])
  BY <1>0, <1>2, <1>3, Pushed DEF SameUpTo
<1>5. DOMAIN stack' = 1 .. n + 1 /\ n + 1 \in DOMAIN stack'
  BY <1>0, <1>4
<1>6. \A i \in DOMAIN stack : stack'[i].kind = stack[i].kind /\ stack'[i].of = stack[i].of
                              /\ stack'[i].info = stack[i].info /\ stack'[i].me = stack[i].me
  BY <1>0, <1>4 DEF Same
<1>7. \A i \in DOMAIN stack : IsCallback(stack'[i]) <=> IsCallback(stack[i])
  BY <1>6 DEF IsCallback
<1>8. \A j : \A i \in 1 .. n : CallbackAt(i, j)' <=> CallbackAt(i, j)
  BY <1>0, <1>5, <1>6, <1>7 DEF CallbackAt
<1>9. \A j : CallbackAt(n + 1, j)' <=> j = k
  BY <1>0, <1>2, <1>4, <1>5 DEF CallbackAt
<1>10. \A j : \A i \in DOMAIN stack : CallbackAt(i, j) /\ j \in Kinds => stack[i].info \in 1 .. Len(iterations[j])
  BY DEF IterationsInv, Placed
<1>11. records' \in [1 .. MaxBegun -> Me] /\ (k = "phdr" => records'[top] = f.me)
       /\ \A m \in 1 .. MaxBegun : (k = "phdr" /\ m = top) \/ records'[m] = records[m]
  <2>1. records \in [1 .. MaxBegun -> Me] /\ top \in 1 .. MaxBegun
    BY <1>0, <1>1, IterationsAssumption DEF IterationsInv, ITypes
  <2>. QED BY <2>1, <1>1, <1>2, <1>3
<1>12. ITypes'
  BY <1>3, <1>4, <1>11 DEF IterationsInv, ITypes
<1>13. Placed'
  <2>1. ASSUME NEW i \in DOMAIN stack', IsCallback(stack'[i])
        PROVE  i > 1 /\ stack'[i].kind \in Kinds
    <3>1. CASE i = n + 1
      BY <3>1, <1>0, <1>2, <1>4
    <3>2. CASE i # n + 1
      <4>1. i \in DOMAIN stack /\ IsCallback(stack[i]) /\ stack'[i].kind = stack[i].kind
        BY <3>2, <2>1, <1>0, <1>5, <1>6, <1>7
      <4>. QED BY <4>1 DEF IterationsInv, Placed
    <3>. QED BY <3>1, <3>2
  <2>2. ASSUME NEW j \in Kinds, NEW i \in DOMAIN stack', CallbackAt(i, j)'
        PROVE  stack'[i].info \in 1 .. Len(iterations'[j])
    <3>1. CASE i = n + 1
      BY <3>1, <2>2, <1>1, <1>2, <1>4, <1>9
    <3>2. CASE i # n + 1
      <4>1. i \in 1 .. n /\ CallbackAt(i, j) /\ stack'[i].info = stack[i].info
        BY <3>2, <2>2, <1>0, <1>5, <1>6, <1>8
      <4>2. stack[i].info \in 1 .. Len(iterations[j])
        BY <4>1, <1>0, <1>10
      <4>. QED BY <4>1, <4>2, <1>0, <1>1
    <3>. QED BY <3>1, <3>2
  <2>3. ASSUME NEW j \in Kinds, NEW i1 \in DOMAIN stack', NEW i2 \in DOMAIN stack',
               CallbackAt(i1, j)', CallbackAt(i2, j)', i1 < i2
        PROVE  stack'[i1].info < stack'[i2].info
    <3>1. i1 \in 1 .. n /\ CallbackAt(i1, j) /\ stack'[i1].info = stack[i1].info
      BY <2>3, <1>0, <1>5, <1>6, <1>8
    <3>2. CASE i2 = n + 1
      BY <3>1, <3>2, <2>3, <1>0, <1>2, <1>4, <1>9
    <3>3. CASE i2 # n + 1
      <4>1. i2 \in 1 .. n /\ CallbackAt(i2, j) /\ stack'[i2].info = stack[i2].info
        BY <3>3, <2>3, <1>0, <1>5, <1>6, <1>8
      <4>. QED BY <4>1, <3>1, <2>3, <1>0 DEF IterationsInv, Placed
    <3>. QED BY <3>2, <3>3
  <2>. QED BY <2>1, <2>2, <2>3, <1>3 DEF Placed
<1>14. RecordsStand'
  <2> SUFFICES ASSUME NEW i \in DOMAIN stack', IsCallback(stack'[i]), stack'[i].kind = "phdr"
               PROVE  records'[stack'[i].info] = stack'[i].me
    BY DEF RecordsStand
  <2>1. CASE i = n + 1
    <3>1. stack'[i] = f /\ f.kind = k /\ f.info = top
      BY <2>1, <1>1, <1>2, <1>4
    <3>. QED BY <2>1, <3>1, <1>11
  <2>2. CASE i # n + 1
    <3>1. i \in 1 .. n /\ i \in DOMAIN stack /\ IsCallback(stack[i]) /\ stack[i].kind = "phdr"
          /\ stack'[i].info = stack[i].info /\ stack'[i].me = stack[i].me
      BY <2>2, <1>0, <1>5, <1>6, <1>7
    <3>2. records[stack[i].info] = stack[i].me
      BY <3>1 DEF IterationsInv, RecordsStand
    <3>3. stack[i].info \in 1 .. Len(iterations["phdr"]) /\ CallbackAt(i, "phdr")
      BY <3>1, <1>10 DEF CallbackAt, Kinds
    <3>4. stack[i].info \in 1 .. MaxBegun
      <4>1. Len(iterations["phdr"]) <= begun /\ begun \in 0 .. MaxBegun /\ Len(iterations["phdr"]) \in Nat
        BY DEF IterationsInv, Placed, ITypes, Kinds
      <4>. QED BY <4>1, <3>3, IterationsAssumption
    <3>5. ~(k = "phdr" /\ stack[i].info = top)
      BY <3>1, <3>3, <1>1
    <3>. QED BY <3>1, <3>2, <3>4, <3>5, <1>11
  <2>. QED BY <2>1, <2>2
<1>15. Nested'
  <2> SUFFICES ASSUME ~orphaned, NEW j \in Kinds, NEW i \in DOMAIN stack', CallbackAt(i, j)'
               PROVE  /\ iterations'[j][stack'[i].info].id = stack'[i].of
                      /\ \A m \in stack'[i].info .. Len(iterations'[j]) : Taken(j, m)'
    BY <1>3 DEF Nested
  <2>0. j = k => Taken(j, top)'
    BY SMTT(60), <1>1, <1>2, <1>4, <1>5, <1>9 DEF Taken
  <2>1. CASE i = n + 1
    <3>1. j = k /\ stack'[i].info = top /\ stack'[i].of = it.id
      BY <2>1, <1>1, <1>2, <1>4, <1>9
    <3>. QED BY <3>1, <2>0, <1>1 DEF Last
  <2>2. CASE i # n + 1
    <3>1. i \in 1 .. n /\ CallbackAt(i, j) /\ stack'[i].info = stack[i].info /\ stack'[i].of = stack[i].of
      BY <2>2, <1>0, <1>5, <1>6, <1>8
    <3>2. /\ iterations[j][stack[i].info].id = stack[i].of
          /\ \A m \in stack[i].info .. Len(iterations[j]) : Taken(j, m)
      BY <3>1, <1>0 DEF IterationsInv, Nested
    <3>3. stack[i].info \in 1 .. Len(iterations[j])
      BY <3>1, <1>0, <1>10
    <3>4. iterations'[j][stack'[i].info].id = stack'[i].of
      BY <3>1, <3>2, <3>3
    <3>5. ASSUME NEW m \in stack'[i].info .. Len(iterations'[j])
          PROVE  Taken(j, m)'
      <4>1. CASE j = k /\ m = top
        BY <4>1, <2>0
      <4>2. CASE ~(j = k /\ m = top)
        <5>1. /\ Len(iterations[j]) \in Nat /\ Len(iterations'[j]) \in Nat
          BY DEF IterationsInv, ITypes
        <5>2. m \in stack[i].info .. Len(iterations[j]) /\ ~(trap # NoTrap /\ trap.kind = j /\ m = Len(iterations[j]))
          BY <4>2, <3>1, <3>3, <3>5, <5>1
        <5>3. Taken(j, m)
          BY <5>2, <3>2
        <5>4. PICK i1 \in DOMAIN stack : CallbackAt(i1, j) /\ stack[i1].info = m
          BY <5>2, <5>3 DEF Taken
        <5>5. i1 \in DOMAIN stack' /\ CallbackAt(i1, j)' /\ stack'[i1].info = m
          BY <5>4, <1>0, <1>5, <1>6, <1>8
        <5>. QED BY <5>5 DEF Taken
      <4>. QED BY <4>1, <4>2
    <3>. QED BY <3>4, <3>5
  <2>. QED BY <2>1, <2>2
<1>. QED BY <1>12, <1>13, <1>14, <1>15 DEF IterationsInv

LEMMA BeginSafe ==
    ASSUME IterationsInv, NEW k \in Kinds, NEW traced \in BOOLEAN, Begin(k, traced)
    PROVE  IterationsInv'
<1> DEFINE it == New(k, traced)  r == Left(stack)
<1>1. stack # <<>> /\ begun < MaxBegun /\ trap = NoTrap /\ stack \in Seq(Func)
  BY DEF Begin, MayBegin, InGuest, IterationsInv, ITypes
<1>2. it \in Iteration /\ it.info = Len(iterations[k]) + 1 /\ it.id = begun + 1
  BY <1>1, NewType DEF IterationsInv
<1>3. /\ iterations' = [iterations EXCEPT ![k] = Append(@, it)] /\ begun' = begun + 1
      /\ Invoke(r, k, it) /\ UNCHANGED <<made, orphaned>>
  BY DEF Begin
<1>4. r \in Seq(Func) /\ Len(r) = Len(stack) /\ SameUpTo(stack, r, Len(stack))
  BY <1>1, LeftKeeps
<1> HIDE DEF it, r
<1>5. /\ iterations' \in [Kinds -> Seq(Iteration)] /\ begun' \in 0 .. MaxBegun
      /\ Len(iterations'[k]) = Len(iterations[k]) + 1
      /\ iterations'[k][Len(iterations[k]) + 1] = it
      /\ \A n \in 1 .. Len(iterations[k]) : iterations'[k][n] = iterations[k][n]
      /\ \A j \in Kinds : j # k => iterations'[j] = iterations[j]
      /\ \A j \in Kinds : Len(iterations'[j]) <= begun'
                          /\ \A n \in DOMAIN iterations'[j] : iterations'[j][n].info = n
  BY <1>1, <1>2, <1>3, AppendedIteration DEF IterationsInv, Placed
<1>6. iterations[k] \in Seq(Iteration) /\ Len(iterations[k]) \in Nat
  BY DEF IterationsInv, ITypes
<1>7. iterations'[k] # <<>> /\ Last(iterations'[k]) = it
  BY <1>5, <1>6 DEF Last
<1>8. \A i \in DOMAIN stack : CallbackAt(i, k) => stack[i].info < it.info
  <2>1. \A i \in DOMAIN stack : CallbackAt(i, k) => stack[i].info \in 1 .. Len(iterations[k])
    BY DEF IterationsInv, Placed
  <2>. QED BY <2>1, <1>2, <1>6
<1>9. \A n \in 1 .. Len(iterations[k]) :
         n <= Len(iterations'[k]) /\ iterations'[k][n].id = iterations[k][n].id
  BY <1>5, <1>6
<1>. QED BY <1>1, <1>2, <1>3, <1>4, <1>5, <1>7, <1>8, <1>9, Invoked

(* The iteration whose callback has just returned.                           *)
LEMMA CurrentPlace ==
    ASSUME IterationsInv, trap # NoTrap
    PROVE  /\ trap.kind \in Kinds /\ iterations[trap.kind] \in Seq(Iteration)
           /\ Len(iterations[trap.kind]) \in Nat \ {0} /\ Current \in Iteration
           /\ Current = iterations[trap.kind][Len(iterations[trap.kind])]
           /\ Current.info = Len(iterations[trap.kind])
           /\ stack # <<>> /\ stack \in Seq(Func)
<1> DEFINE it == iterations[trap.kind]
<1>1. trap.kind \in Kinds /\ it \in Seq(Iteration) /\ it # <<>> /\ stack # <<>> /\ stack \in Seq(Func)
  BY DEF IterationsInv, ITypes, Placed
<1>2. Len(it) \in Nat \ {0} /\ Len(it) \in DOMAIN it
  BY <1>1
<1>3. \A n \in DOMAIN it : it[n].info = n
  BY <1>1 DEF IterationsInv, Placed
<1>. QED BY <1>1, <1>2, <1>3 DEF Current, Last

LEMMA FrontOf ==
    ASSUME NEW S, NEW s \in Seq(S), s # <<>>
    PROVE  /\ Front(s) \in Seq(S) /\ Len(Front(s)) = Len(s) - 1
           /\ \A i \in 1 .. Len(s) - 1 : Front(s)[i] = s[i]
<1>1. Len(s) \in Nat \ {0} /\ Len(s) - 1 \in Nat /\ \A i \in 1 .. Len(s) : s[i] \in S
  OBVIOUS
<1>2. Front(s) = [i \in 1 .. Len(s) - 1 |-> s[i]]
  BY <1>1 DEF Front
<1>3. Front(s) \in [1 .. Len(s) - 1 -> S]
  BY <1>1, <1>2
<1>. QED BY <1>1, <1>2, <1>3

LEMMA AdvanceSafe ==
    ASSUME IterationsInv, Advance
    PROVE  IterationsInv'
<1> DEFINE it == Advanced(Current)
<1>a. PICK k : k = trap.kind
  OBVIOUS
<1>b. PICK n : n = Len(iterations[k])
  OBVIOUS
<1>0. /\ trap # NoTrap /\ UNCHANGED <<made, begun, orphaned>> /\ Invoke(stack, k, it)
      /\ iterations' = [iterations EXCEPT ![k] = Append(Front(@), it)]
  BY <1>a DEF Advance
<1>1. /\ k \in Kinds /\ iterations[k] \in Seq(Iteration) /\ n \in Nat \ {0} /\ Current \in Iteration
      /\ Current = iterations[k][n] /\ Current.info = n /\ stack # <<>> /\ stack \in Seq(Func)
  BY <1>0, <1>a, <1>b, CurrentPlace
<1>2. it \in Iteration /\ it.info = n /\ it.id = Current.id
  BY SMTT(60), <1>1 DEF Advanced, Iteration
<1> HIDE DEF it
<1>3. /\ Front(iterations[k]) \in Seq(Iteration) /\ Len(Front(iterations[k])) = n - 1
      /\ \A m \in 1 .. n - 1 : Front(iterations[k])[m] = iterations[k][m]
  BY SMTT(60), <1>1, <1>b, FrontOf
<1> DEFINE new == Append(Front(iterations[k]), it)
<1>4. /\ new \in Seq(Iteration) /\ Len(new) = n /\ new[n] = it
      /\ \A m \in 1 .. n - 1 : new[m] = iterations[k][m]
  BY <1>1, <1>2, <1>3, AppendProperties
<1> HIDE DEF new
<1>5. /\ iterations'[k] = new /\ iterations' \in [Kinds -> Seq(Iteration)]
      /\ \A j \in Kinds : j # k => iterations'[j] = iterations[j]
  BY <1>0, <1>1, <1>4 DEF IterationsInv, ITypes, new
<1>6. iterations'[k] # <<>> /\ Last(iterations'[k]) = it /\ Len(iterations'[k]) = n
  BY <1>1, <1>4, <1>5 DEF Last
<1>7. \A j \in Kinds : Len(iterations[j]) <= begun /\ \A m \in DOMAIN iterations[j] : iterations[j][m].info = m
  BY DEF IterationsInv, Placed
<1>8. ASSUME NEW j \in Kinds
      PROVE  Len(iterations'[j]) <= begun' /\ \A m \in DOMAIN iterations'[j] : iterations'[j][m].info = m
  <2>1. CASE j = k
    <3>1. \A m \in 1 .. n : new[m].info = m
      BY <1>1, <1>2, <1>4, <1>7, <1>b
    <3>. QED BY <2>1, <3>1, <1>0, <1>1, <1>4, <1>5, <1>7, <1>b
  <2>2. CASE j # k
    BY <2>2, <1>0, <1>5, <1>7
  <2>. QED BY <2>1, <2>2
<1>9. begun' \in 0 .. MaxBegun
  BY <1>0 DEF IterationsInv, ITypes
<1>10. \A i \in DOMAIN stack : CallbackAt(i, k) => stack[i].info < it.info
  BY <1>0, <1>2, <1>a, <1>b DEF IterationsInv, Placed
<1>11. \A m \in 1 .. Len(iterations[k]) :
          m <= Len(iterations'[k]) /\ iterations'[k][m].id = iterations[k][m].id
  BY <1>1, <1>2, <1>4, <1>5, <1>b
<1>12. SameUpTo(stack, stack, Len(stack))
  BY <1>1, SameRefl
<1>13. /\ trap # NoTrap => trap.kind = k /\ Len(iterations'[k]) = Len(iterations[k])
       /\ trap = NoTrap => Len(iterations'[k]) = Len(iterations[k]) + 1
       /\ UNCHANGED orphaned /\ made' = made
  BY <1>0, <1>6, <1>a, <1>b
<1>. QED BY <1>0, <1>1, <1>2, <1>5, <1>6, <1>8, <1>9, <1>10, <1>11, <1>12, <1>13, Invoked

(* The iteration on top is given up: no live callback is one of its own.     *)
LEMMA EndSafe ==
    ASSUME IterationsInv, End
    PROVE  IterationsInv'
<1>a. PICK k : k = trap.kind
  OBVIOUS
<1>b. PICK n : n = Len(iterations[k])
  OBVIOUS
<1>0. /\ trap # NoTrap /\ UNCHANGED <<records, made, begun, orphaned>>
      /\ iterations' = [iterations EXCEPT ![k] = Front(@)]
      /\ trap' = NoTrap /\ (stack' = stack \/ stack' = <<>>)
  BY <1>a DEF End, Popped, Abort
<1>1. /\ k \in Kinds /\ iterations[k] \in Seq(Iteration) /\ n \in Nat \ {0}
      /\ stack # <<>> /\ stack \in Seq(Func)
  BY <1>0, <1>a, <1>b, CurrentPlace
<1>3. /\ Front(iterations[k]) \in Seq(Iteration) /\ Len(Front(iterations[k])) = n - 1
      /\ \A m \in 1 .. n - 1 : Front(iterations[k])[m] = iterations[k][m]
  BY <1>1, <1>b, FrontOf
<1>5. /\ iterations'[k] = Front(iterations[k]) /\ iterations' \in [Kinds -> Seq(Iteration)]
      /\ \A j \in Kinds : j # k => iterations'[j] = iterations[j]
  BY <1>0, <1>1, <1>3 DEF IterationsInv, ITypes
<1>7. \A j \in Kinds : Len(iterations[j]) <= begun /\ \A m \in DOMAIN iterations[j] : iterations[j][m].info = m
  BY DEF IterationsInv, Placed
<1>8. ASSUME NEW j \in Kinds
      PROVE  Len(iterations'[j]) <= begun' /\ \A m \in DOMAIN iterations'[j] : iterations'[j][m].info = m
  <2>1. CASE j = k
    <3>0. begun \in Nat /\ Len(iterations'[k]) = n - 1 /\ n <= begun
      BY <1>1, <1>3, <1>5, <1>7, <1>b DEF IterationsInv, ITypes
    <3>1. \A m \in 1 .. n - 1 : iterations'[k][m].info = m
      <4>1. \A m \in 1 .. n - 1 : m \in DOMAIN iterations[k]
        BY <1>1, <1>b
      <4>. QED BY <4>1, <1>1, <1>3, <1>5, <1>7
    <3>. QED BY <2>1, <3>0, <3>1, <1>0, <1>1, <1>3, <1>5
  <2>2. CASE j # k
    BY <2>2, <1>0, <1>5, <1>7
  <2>. QED BY <2>1, <2>2
<1>9. ITypes'
  <2>1. <<>> \in Seq(Func)
    OBVIOUS
  <2>2. stack' \in Seq(Func)
    BY <2>1, <1>0, <1>1
  <2>. QED BY <2>2, <1>0, <1>5 DEF IterationsInv, ITypes
<1>10. CASE stack' = <<>>
  BY <1>10, <1>0, <1>8, <1>9 DEF IterationsInv, Placed, RecordsStand, Nested, CallbackAt
<1>11. CASE stack' = stack
  <2>1. \A i, j : CallbackAt(i, j)' <=> CallbackAt(i, j)
    BY <1>11 DEF CallbackAt
  <2>2. \A i \in DOMAIN stack : CallbackAt(i, k) => stack[i].info \in 1 .. n - 1
    <3>1. \A i \in DOMAIN stack : CallbackAt(i, k) => stack[i].info < n /\ stack[i].info \in 1 .. n
      BY <1>0, <1>1, <1>a, <1>b DEF IterationsInv, Placed
    <3>. QED BY <3>1, <1>1
  <2>3. \A j \in Kinds : \A i \in DOMAIN stack' :
           CallbackAt(i, j)' => stack'[i].info \in 1 .. Len(iterations'[j])
    <3> SUFFICES ASSUME NEW j \in Kinds, NEW i \in DOMAIN stack, CallbackAt(i, j)
                 PROVE  stack[i].info \in 1 .. Len(iterations'[j])
      BY <2>1, <1>11
    <3>1. CASE j = k
      BY <3>1, <2>2, <1>3, <1>5
    <3>2. CASE j # k
      BY <3>2, <1>5 DEF IterationsInv, Placed
    <3>. QED BY <3>1, <3>2
  <2>4. Placed'
    <3>1. \A i \in DOMAIN stack' : IsCallback(stack'[i]) => i > 1 /\ stack'[i].kind \in Kinds
      BY <1>11 DEF IterationsInv, Placed
    <3>2. \A j \in Kinds : \A i1, i2 \in DOMAIN stack' :
             CallbackAt(i1, j)' /\ CallbackAt(i2, j)' /\ i1 < i2 => stack'[i1].info < stack'[i2].info
      BY <2>1, <1>11 DEF IterationsInv, Placed
    <3>. QED BY <3>1, <3>2, <2>3, <1>0, <1>8 DEF Placed
  <2>5. RecordsStand'
    BY <1>0, <1>11 DEF IterationsInv, RecordsStand
  <2>6. Nested'
    <3> SUFFICES ASSUME ~orphaned, NEW j \in Kinds, NEW i \in DOMAIN stack, CallbackAt(i, j)
                 PROVE  /\ iterations'[j][stack[i].info].id = stack[i].of
                        /\ \A m \in stack[i].info .. Len(iterations'[j]) : Taken(j, m)'
      BY <2>1, <1>0, <1>11 DEF Nested
    <3>1. /\ iterations[j][stack[i].info].id = stack[i].of
          /\ \A m \in stack[i].info .. Len(iterations[j]) : Taken(j, m)
      BY DEF IterationsInv, Nested
    <3>2. \A m : Taken(j, m) /\ ~(j = k /\ m = n) => Taken(j, m)'
      <4> SUFFICES ASSUME NEW m, Taken(j, m), ~(j = k /\ m = n) PROVE Taken(j, m)'
        OBVIOUS
      <4>1. PICK i1 \in DOMAIN stack : CallbackAt(i1, j) /\ stack[i1].info = m
        BY <1>a, <1>b DEF Taken
      <4>. QED BY <4>1, <2>1, <1>11 DEF Taken
    <3>3. CASE j = k
      <4>1. stack[i].info \in 1 .. n - 1 /\ Len(iterations'[j]) = n - 1
        BY <3>3, <2>2, <1>3, <1>5
      <4>2. iterations'[j][stack[i].info] = iterations[j][stack[i].info]
        BY <4>1, <3>3, <1>3, <1>5
      <4>3. \A m \in stack[i].info .. Len(iterations'[j]) : m \in stack[i].info .. Len(iterations[j]) /\ m # n
        BY <4>1, <3>3, <1>1, <1>b
      <4>. QED BY <4>2, <4>3, <3>1, <3>2
    <3>4. CASE j # k
      BY <3>4, <3>1, <3>2, <1>5
    <3>. QED BY <3>3, <3>4
  <2>. QED BY <1>9, <2>4, <2>5, <2>6 DEF IterationsInv
<1>. QED BY <1>0, <1>10, <1>11

(* A callback that returns is the deepest of its kind, and unless an         *)
(* iteration was jumped out of, its own is the iteration on top.             *)
LEMMA ReturnSafe ==
    ASSUME IterationsInv, Return
    PROVE  IterationsInv'
<1>a. PICK n : n = Len(stack)
  OBVIOUS
<1>c. PICK tk : tk = Top.kind
  OBVIOUS
<1>0. /\ stack \in Seq(Func) /\ n \in Nat \ {0} /\ DOMAIN stack = 1 .. n /\ trap = NoTrap
      /\ Top = stack[n] /\ Top \in Func /\ stack # <<>>
      /\ UNCHANGED <<iterations, records, made, begun, orphaned>>
  BY <1>a DEF IterationsInv, ITypes, Return, InGuest, Top, Last
<1>1. /\ stack' \in Seq(Func) /\ Len(stack') = n - 1 /\ DOMAIN stack' = 1 .. n - 1
      /\ \A i \in 1 .. n - 1 : stack'[i] = stack[i]
  <2>1. stack' = Front(stack)
    BY DEF Return
  <2>2. /\ stack' \in Seq(Func) /\ Len(stack') = n - 1
        /\ \A i \in 1 .. n - 1 : stack'[i] = stack[i]
    BY <2>1, <1>0, <1>a, FrontOf
  <2>. QED BY <2>2
<1>2. \A k : \A i \in 1 .. n - 1 : CallbackAt(i, k)' <=> CallbackAt(i, k)
  BY <1>0, <1>1 DEF CallbackAt
<1>3. /\ IsCallback(Top) => trap' # NoTrap /\ trap'.kind = Top.kind /\ trap'.of = Top.of
      /\ ~IsCallback(Top) => trap' = NoTrap
  <2>1. CASE IsCallback(Top)
    <3>1. PICK stop \in BOOLEAN : trap' = [kind |-> Top.kind, of |-> Top.of, stop |-> stop]
      BY <2>1 DEF Return
    <3>2. Top.kind \in Kinds
      BY <2>1, <1>0 DEF IterationsInv, Placed
    <3>3. trap' # NoTrap
      BY <3>1, <3>2 DEF NoTrap, Kinds
    <3>. QED BY <3>1, <3>3, <2>1
  <2>2. CASE ~IsCallback(Top)
    BY <2>2, <1>0 DEF Return
  <2>. QED BY <2>1, <2>2
<1>4. IsCallback(Top) => /\ Top.kind \in Kinds /\ n > 1 /\ CallbackAt(n, Top.kind)
                         /\ Top.info \in 1 .. Len(iterations[Top.kind])
                         /\ Len(iterations[Top.kind]) \in Nat
  <2> SUFFICES ASSUME IsCallback(Top)
               PROVE  /\ Top.kind \in Kinds /\ n > 1 /\ CallbackAt(n, Top.kind)
                      /\ Top.info \in 1 .. Len(iterations[Top.kind])
                      /\ Len(iterations[Top.kind]) \in Nat
    OBVIOUS
  <2>1. n \in DOMAIN stack /\ Top.kind \in Kinds /\ n > 1
    BY <1>0 DEF IterationsInv, Placed
  <2>2. CallbackAt(n, Top.kind)
    BY <2>1, <1>0 DEF CallbackAt
  <2>3. Top.info \in 1 .. Len(iterations[Top.kind])
    BY <2>1, <2>2, <1>0 DEF IterationsInv, Placed
  <2>4. Len(iterations[Top.kind]) \in Nat
    BY <2>1 DEF IterationsInv, ITypes
  <2>. QED BY <2>1, <2>2, <2>3, <2>4
<1>5. ITypes'
  <2>1. trap' # NoTrap => trap'.kind \in Kinds
    BY <1>3, <1>4
  <2>. QED BY <2>1, <1>0, <1>1 DEF IterationsInv, ITypes, NoTrap
<1>6. \A i \in 1 .. n - 1 : CallbackAt(i, Top.kind) /\ IsCallback(Top) => stack[i].info < Top.info
  <2> SUFFICES ASSUME NEW i \in 1 .. n - 1, CallbackAt(i, Top.kind), IsCallback(Top)
               PROVE  stack[i].info < Top.info
    OBVIOUS
  <2>1. i \in DOMAIN stack /\ n \in DOMAIN stack /\ i < n
    BY <1>0
  <2>. QED BY <2>1, <1>0, <1>4 DEF IterationsInv, Placed
<1>7. Placed'
  <2>1. \A i \in DOMAIN stack' : IsCallback(stack'[i]) => i > 1 /\ stack'[i].kind \in Kinds
    BY <1>0, <1>1 DEF IterationsInv, Placed
  <2>2. ASSUME NEW k \in Kinds
        PROVE  /\ Len(iterations[k]) <= begun
               /\ \A m \in DOMAIN iterations[k] : iterations[k][m].info = m
               /\ \A i \in DOMAIN stack' : CallbackAt(i, k)' => stack'[i].info \in 1 .. Len(iterations[k])
               /\ \A i, j \in DOMAIN stack' :
                     CallbackAt(i, k)' /\ CallbackAt(j, k)' /\ i < j => stack'[i].info < stack'[j].info
    <3>1. \A i \in DOMAIN stack' : CallbackAt(i, k)' =>
             i \in DOMAIN stack /\ CallbackAt(i, k) /\ stack'[i] = stack[i]
      BY <1>0, <1>1, <1>2
    <3>2. \A i \in DOMAIN stack' : CallbackAt(i, k)' => stack'[i].info \in 1 .. Len(iterations[k])
      BY <3>1 DEF IterationsInv, Placed
    <3>3. \A i, j \in DOMAIN stack' :
             CallbackAt(i, k)' /\ CallbackAt(j, k)' /\ i < j => stack'[i].info < stack'[j].info
      BY <3>1 DEF IterationsInv, Placed
    <3>. QED BY <3>2, <3>3 DEF IterationsInv, Placed
  <2>3. ASSUME trap' # NoTrap
        PROVE  /\ stack' # <<>> /\ iterations[trap'.kind] # <<>>
               /\ \A i \in DOMAIN stack' :
                     CallbackAt(i, trap.kind)' => stack'[i].info < Len(iterations[trap'.kind])
    <3>1. IsCallback(Top) /\ trap'.kind = Top.kind
      BY <2>3, <1>3
    <3>2. stack' # <<>> /\ iterations[Top.kind] # <<>>
      BY <3>1, <1>0, <1>1, <1>4
    <3>3. \A i \in DOMAIN stack' : CallbackAt(i, tk)' => stack'[i].info < Len(iterations[Top.kind])
      <4> SUFFICES ASSUME NEW i \in DOMAIN stack', CallbackAt(i, tk)'
                   PROVE  stack'[i].info < Len(iterations[Top.kind])
        OBVIOUS
      <4>1. i \in 1 .. n - 1 /\ CallbackAt(i, Top.kind) /\ stack'[i] = stack[i]
        BY <3>1, <1>c, <1>1, <1>2
      <4>2. stack[i].info < Top.info /\ stack[i].info \in 1 .. Len(iterations[Top.kind])
        BY <4>1, <3>1, <1>0, <1>4, <1>6 DEF IterationsInv, Placed
      <4>. QED BY <4>1, <4>2, <3>1, <1>4
    <3>. QED BY <3>1, <3>2, <3>3, <1>c
  <2>. QED BY <2>1, <2>2, <2>3, <1>0 DEF Placed
<1>8. RecordsStand'
  BY <1>0, <1>1 DEF IterationsInv, RecordsStand
<1>9. Nested'
  <2> SUFFICES ASSUME ~orphaned
               PROVE  /\ \A k \in Kinds : \A i \in DOMAIN stack' :
                            CallbackAt(i, k)' =>
                                /\ iterations[k][stack'[i].info].id = stack'[i].of
                                /\ \A m \in stack'[i].info .. Len(iterations[k]) : Taken(k, m)'
                      /\ trap' # NoTrap => Last(iterations[trap'.kind]).id = trap'.of
    BY <1>0 DEF Nested
  <2>1. \A k \in Kinds : \A i \in DOMAIN stack : CallbackAt(i, k) =>
           /\ iterations[k][stack[i].info].id = stack[i].of
           /\ \A m \in stack[i].info .. Len(iterations[k]) : Taken(k, m)
    BY DEF IterationsInv, Nested
  <2>2. IsCallback(Top) => Top.info = Len(iterations[Top.kind])
    <3> SUFFICES ASSUME IsCallback(Top) PROVE Top.info = Len(iterations[Top.kind])
      OBVIOUS
    <3> DEFINE last == Len(iterations[Top.kind])
    <3>1. last \in Top.info .. last
      BY <1>4
    <3>2. Taken(Top.kind, last)
      BY <3>1, <2>1, <1>0, <1>4 DEF CallbackAt
    <3>3. PICK i \in DOMAIN stack : CallbackAt(i, Top.kind) /\ stack[i].info = last
      BY <3>2, <1>0 DEF Taken
    <3>4. CASE i = n
      BY <3>3, <3>4, <1>0
    <3>5. CASE i # n
      BY <3>3, <3>5, <1>0, <1>4, <1>6
    <3>. QED BY <3>4, <3>5
  <2>3. ASSUME NEW k \in Kinds, NEW m, Taken(k, m) PROVE Taken(k, m)'
    <3>1. PICK i \in DOMAIN stack : CallbackAt(i, k) /\ stack[i].info = m
      BY <2>3, <1>0 DEF Taken
    <3>2. CASE i = n
      <4>1. IsCallback(Top) /\ Top.kind = k /\ m = Len(iterations[k])
        BY <3>1, <3>2, <2>2, <1>0 DEF CallbackAt
      <4>. QED BY <4>1, <1>0, <1>3 DEF Taken
    <3>3. CASE i # n
      <4>1. i \in DOMAIN stack' /\ CallbackAt(i, k)' /\ stack'[i].info = m
        BY <3>1, <3>3, <1>0, <1>1, <1>2
      <4>. QED BY <4>1 DEF Taken
    <3>. QED BY <3>2, <3>3
  <2>4. ASSUME NEW k \in Kinds, NEW i \in DOMAIN stack', CallbackAt(i, k)'
        PROVE  /\ iterations[k][stack'[i].info].id = stack'[i].of
               /\ \A m \in stack'[i].info .. Len(iterations[k]) : Taken(k, m)'
    <3>1. i \in DOMAIN stack /\ CallbackAt(i, k) /\ stack'[i] = stack[i]
      BY <2>4, <1>0, <1>1, <1>2
    <3>. QED BY <3>1, <2>1, <2>3
  <2>5. trap' # NoTrap => Last(iterations[trap'.kind]).id = trap'.of
    <3> SUFFICES ASSUME trap' # NoTrap PROVE Last(iterations[trap'.kind]).id = trap'.of
      OBVIOUS
    <3>1. IsCallback(Top) /\ trap'.kind = Top.kind /\ trap'.of = Top.of
      BY <1>3
    <3>2. iterations[Top.kind][Top.info].id = Top.of
      BY <3>1, <2>1, <1>0, <1>4
    <3>. QED BY <3>1, <3>2, <2>2 DEF Last
  <2>. QED BY <2>4, <2>5
<1>. QED BY <1>5, <1>7, <1>8, <1>9 DEF IterationsInv

(* Below a jump that takes no iteration out of another, all the callbacks of *)
(* a kind that has one there are there.                                      *)
LEMMA LongJumpSafe ==
    ASSUME IterationsInv, NEW d \in 1 .. MaxDepth, LongJump(d)
    PROVE  IterationsInv'
<1> DEFINE s == SubSeq(stack, 1, d)
<1>a. PICK n : n = Len(stack)
  OBVIOUS
<1>0. /\ stack \in Seq(Func) /\ n \in Nat \ {0} /\ DOMAIN stack = 1 .. n /\ trap = NoTrap
      /\ d \in 1 .. n /\ d < n /\ stack' = Left(s)
      /\ UNCHANGED <<trap, iterations, records, begun>> /\ made' = made + 1 /\ made \in Nat
      /\ orphaned' = (orphaned \/ Orphans(d))
  BY <1>a, IterationsAssumption DEF IterationsInv, ITypes, LongJump, InGuest
<1>1. s \in Seq(Func) /\ Len(s) = d /\ s # <<>> /\ \A i \in 1 .. d : s[i] = stack[i]
  BY <1>0, <1>a
<1> HIDE DEF s
<1>2. /\ stack' \in Seq(Func) /\ Len(stack') = d /\ DOMAIN stack' = 1 .. d
      /\ \A i \in 1 .. d : Same(stack'[i], stack[i])
  BY <1>0, <1>1, LeftKeeps DEF SameUpTo
<1>3. \A i \in 1 .. d : stack'[i].kind = stack[i].kind /\ stack'[i].of = stack[i].of
                        /\ stack'[i].info = stack[i].info /\ stack'[i].me = stack[i].me
                        /\ (IsCallback(stack'[i]) <=> IsCallback(stack[i]))
                        /\ i \in DOMAIN stack /\ i \in DOMAIN stack'
  BY <1>0, <1>2 DEF Same, IsCallback
<1>4. \A k : \A i \in 1 .. d : CallbackAt(i, k)' <=> CallbackAt(i, k)
  BY <1>3 DEF CallbackAt
<1>5. ITypes'
  <2>1. orphaned' \in BOOLEAN
    BY <1>0 DEF Orphans
  <2>. QED BY <2>1, <1>0, <1>2 DEF IterationsInv, ITypes
<1>6. Placed'
  <2>1. \A i \in DOMAIN stack' : IsCallback(stack'[i]) => i > 1 /\ stack'[i].kind \in Kinds
    BY <1>2, <1>3 DEF IterationsInv, Placed
  <2>2. \A k \in Kinds :
          /\ Len(iterations[k]) <= begun
          /\ \A m \in DOMAIN iterations[k] : iterations[k][m].info = m
    BY DEF IterationsInv, Placed
  <2>3. \A k \in Kinds : \A i \in DOMAIN stack' :
           CallbackAt(i, k)' => stack'[i].info \in 1 .. Len(iterations[k])
    BY <1>2, <1>3, <1>4 DEF IterationsInv, Placed
  <2>4. \A k \in Kinds : \A i, j \in DOMAIN stack' :
           CallbackAt(i, k)' /\ CallbackAt(j, k)' /\ i < j => stack'[i].info < stack'[j].info
    BY <1>2, <1>3, <1>4 DEF IterationsInv, Placed
  <2>. QED BY <2>1, <2>2, <2>3, <2>4, <1>0 DEF Placed
<1>7. RecordsStand'
  BY <1>0, <1>2, <1>3 DEF IterationsInv, RecordsStand
<1>8. Nested'
  <2> SUFFICES ASSUME ~orphaned, ~Orphans(d), NEW k \in Kinds, NEW i \in DOMAIN stack', CallbackAt(i, k)'
               PROVE  /\ iterations[k][stack'[i].info].id = stack'[i].of
                      /\ \A m \in stack'[i].info .. Len(iterations[k]) : Taken(k, m)'
    BY <1>0 DEF Nested
  <2>1. i \in 1 .. d /\ i \in DOMAIN stack /\ CallbackAt(i, k)
        /\ stack'[i].info = stack[i].info /\ stack'[i].of = stack[i].of
    BY <1>2, <1>3, <1>4
  <2>2. /\ iterations[k][stack[i].info].id = stack[i].of
        /\ \A m \in stack[i].info .. Len(iterations[k]) : Taken(k, m)
    BY <2>1 DEF IterationsInv, Nested
  <2>3. ASSUME NEW m, Taken(k, m) PROVE Taken(k, m)'
    <3>1. PICK j \in DOMAIN stack : CallbackAt(j, k) /\ stack[j].info = m
      BY <2>3, <1>0 DEF Taken
    <3>2. j \in 1 .. d
      BY <3>1, <2>1, <1>0, <1>a DEF Orphans, CallbackAt
    <3>. QED BY <3>1, <3>2, <1>3, <1>4 DEF Taken
  <2>. QED BY <2>1, <2>2, <2>3
<1>. QED BY <1>5, <1>6, <1>7, <1>8 DEF IterationsInv

THEOREM IterationsInductive ==
    IterationsInv /\ [INext]_ivars => IterationsInv'
<1> SUFFICES ASSUME IterationsInv, [INext]_ivars PROVE IterationsInv'
  OBVIOUS
<1>1. CASE UNCHANGED ivars
  BY <1>1 DEF ivars, IterationsInv, ITypes, Placed, RecordsStand, Nested, CallbackAt, Taken
<1>2. CASE INext
  <2>1. ASSUME NEW traced \in BOOLEAN, Run(traced) PROVE IterationsInv'
    BY <2>1, RunSafe
  <2>2. ASSUME NEW traced \in BOOLEAN, Call(traced) PROVE IterationsInv'
    BY <2>2, CallSafe
  <2>3. ASSUME NEW traced \in BOOLEAN, BeginFails(traced) PROVE IterationsInv'
    BY <2>3, BeginFailsSafe
  <2>4. ASSUME NEW k \in Kinds, NEW traced \in BOOLEAN, Begin(k, traced) PROVE IterationsInv'
    BY <2>4, BeginSafe
  <2>5. ASSUME NEW d \in 1 .. MaxDepth, LongJump(d) PROVE IterationsInv'
    BY <2>5, LongJumpSafe
  <2>. QED BY <1>2, <2>1, <2>2, <2>3, <2>4, <2>5, ReturnSafe, AbortSafe, AdvanceSafe, EndSafe DEF INext
<1>. QED BY <1>1, <1>2

LEMMA IterationsInvApart == IterationsInv => IterationsApart
<1> SUFFICES ASSUME IterationsInv PROVE IterationsApart
  OBVIOUS
<1>1. StepsContinueTheirOwn
  BY DEF StepsContinueTheirOwn, IterationsInv, Placed, Nested, Current
<1>. QED BY <1>1 DEF IterationsApart, IterationsInv

(* Iterations keep apart, whatever the guest does: however they nest, are    *)
(* stopped, and are left behind by crashes and jumps.                        *)
THEOREM IterationsApartAlways == ISpec => []IterationsApart
<1>1. IInit => IterationsInv
  BY InitIterations
<1>2. IterationsInv /\ [INext]_ivars => IterationsInv'
  BY IterationsInductive
<1>3. IterationsInv => IterationsApart
  BY IterationsInvApart
<1>. QED BY <1>1, <1>2, <1>3, PTL DEF ISpec

Event == [call : Me, sp : Nat \ {0}]

CTypes ==
    /\ wide \in BOOLEAN /\ tracing \in {"before", "on", "removed"}
    /\ open \in Seq(Event)
    /\ stopped \in BOOLEAN /\ mixed \in BOOLEAN /\ muddled \in BOOLEAN
    /\ owed \in Int

(* A function is marked when it has begun an iteration or called code        *)
(* outside the range.                                                        *)
Marked ==
    /\ \A j \in DOMAIN stack :
          j < Len(stack) /\ (~stack[j + 1].traced \/ IsCallback(stack[j + 1])) => stack[j].left
    /\ trap # NoTrap => Top.left

(* The calls are ordered by the depth they were made at.                     *)
Ordered(calls) == \A i, j \in DOMAIN calls : i < j => calls[i].sp <= calls[j].sp

(* The newest call among those made at depth j or above.                     *)
Newest(calls, i, j) ==
    i \in DOMAIN calls /\ calls[i].sp <= j /\ (i < Len(calls) => calls[i + 1].sp > j)

(* Traced code has called the function at depth j + 1: that is the newest    *)
(* open call from depth j, or no call from there or above is open.           *)
CallersMatch(st, calls) ==
    \A j \in DOMAIN st :
        j < Len(st) /\ st[j].traced /\ ~IsCallback(st[j + 1]) =>
            \A i \in DOMAIN calls :
                Newest(calls, i, j) => calls[i].sp = j /\ calls[i].call = st[j + 1].me

(* A traced function that is not marked, and was not called from outside the *)
(* range.  On 32-bit it has no call open but the one that is live.           *)
Plain(st, j) ==
    /\ st[j].traced /\ ~st[j].left
    /\ j > 1 => st[j - 1].traced /\ ~IsCallback(st[j])

NoneFrom(calls, j)  == \A i \in DOMAIN calls : calls[i].sp # j
OnceFrom(calls, j)  == \A i1, i2 \in DOMAIN calls : calls[i1].sp = j /\ calls[i2].sp = j => i1 = i2

CallsDone(st, calls) ==
    /\ \A j \in DOMAIN st :
          Plain(st, j) => OnceFrom(calls, j) /\ (j = Len(st) => NoneFrom(calls, j))
    /\ (st = <<>> \/ ~st[1].traced) => NoneFrom(calls, 1)

(* As long as nothing has blurred the calls.                                 *)
Matched ==
    ~muddled /\ tracing = "on" /\ ~stopped =>
        CallersMatch(stack, open) /\ (~wide => CallsDone(stack, open))

TracerInv ==
    /\ CTypes /\ Marked /\ Ordered(open) /\ Matched /\ ~mixed
    /\ CallsAccounted
    /\ tracing = "before" => open = <<>>

-----------------------------------------------------------------------------
(***************************************************************************)
(* The tracer: how much of the list of open calls an event keeps.          *)
(***************************************************************************)
LEMMA LeastOf ==
    ASSUME NEW S \in SUBSET Nat, S # {}
    PROVE  \E x \in S : \A y \in S : x <= y
<1>1. PICK x \in S : \A y \in S : ~(<<y, x>> \in OpToRel(<, Nat))
  BY NatLessThanWellFounded, WFMin
<1>2. \A y \in S : ~(y < x)
  BY <1>1 DEF OpToRel
<1>. QED BY <1>2

LEMMA GreatestUpTo ==
    ASSUME NEW n \in Nat, NEW S \in SUBSET (0 .. n), S # {}
    PROVE  Max(S) \in S /\ \A y \in S : y <= Max(S)
<1> DEFINE T == {n - x : x \in S}
<1>1. \A x \in S : n - x \in Nat /\ x \in Nat
  OBVIOUS
<1>2. T \in SUBSET Nat /\ T # {}
  BY <1>1
<1> HIDE DEF T
<1>3. PICK t \in T : \A u \in T : t <= u
  BY <1>2, LeastOf
<1>4. \E x \in S : \A y \in S : x >= y
  <2>1. PICK x \in S : t = n - x
    BY DEF T
  <2>2. ASSUME NEW y \in S PROVE x >= y
    <3>1. n - x <= n - y
      BY <2>1, <1>3 DEF T
    <3>. QED BY <3>1, <1>1
  <2>. QED BY <2>2
<1>5. Max(S) \in S /\ \A y \in S : Max(S) >= y
  BY <1>4 DEF Max
<1>. QED BY <1>5

LEMMA EventsOf ==
    ASSUME NEW calls \in Seq(Event)
    PROVE  /\ Len(calls) \in Nat /\ DOMAIN calls = 1 .. Len(calls)
           /\ \A i \in 1 .. Len(calls) : calls[i] \in Event /\ calls[i].sp \in Nat /\ calls[i].sp > 0
<1>1. Len(calls) \in Nat /\ DOMAIN calls = 1 .. Len(calls) /\ \A i \in 1 .. Len(calls) : calls[i] \in Event
  OBVIOUS
<1>2. \A e \in Event : e.sp \in Nat /\ e.sp > 0
  BY DEF Event
<1>. QED BY <1>1, <1>2

LEMMA KeptBounds ==
    ASSUME open \in Seq(Event), Ordered(open), NEW sp \in Nat
    PROVE  /\ Kept(sp) \in Nat /\ Kept(sp) <= Len(open)
           /\ \A i \in 1 .. Len(open) : i <= Kept(sp) <=> open[i].sp <= sp
<1> DEFINE n == Len(open)  S == {0} \cup {i \in DOMAIN open : open[i].sp <= sp}
<1>1. n \in Nat /\ DOMAIN open = 1 .. n /\ \A i \in 1 .. n : open[i].sp \in Nat
  BY EventsOf
<1>2. S \in SUBSET (0 .. n) /\ S # {}
  BY <1>1
<1>3. Kept(sp) \in S /\ \A y \in S : y <= Kept(sp)
  BY <1>1, <1>2, GreatestUpTo DEF Kept
<1>4. Kept(sp) \in 0 .. n
  BY <1>2, <1>3
<1>5. ASSUME NEW i \in 1 .. n PROVE i <= Kept(sp) <=> open[i].sp <= sp
  <2>1. CASE i = Kept(sp)
    BY <2>1, <1>1, <1>3
  <2>2. CASE i < Kept(sp)
    <3>1. Kept(sp) \in 1 .. n /\ open[Kept(sp)].sp <= sp
      BY <2>2, <1>1, <1>3, <1>4
    <3>2. open[i].sp <= open[Kept(sp)].sp
      BY <2>2, <3>1, <1>1 DEF Ordered
    <3>. QED BY <2>2, <3>1, <3>2, <1>1
  <2>3. CASE i > Kept(sp)
    BY <2>3, <1>1, <1>3, <1>4
  <2>. QED BY <2>1, <2>2, <2>3, <1>4
<1>. QED BY <1>4, <1>5

LEMMA RemainingIs ==
    ASSUME open \in Seq(Event), Ordered(open), NEW sp \in Nat
    PROVE  /\ Remaining(sp) \in Seq(Event) /\ Len(Remaining(sp)) = Kept(sp)
           /\ \A i \in 1 .. Kept(sp) : Remaining(sp)[i] = open[i]
           /\ Len(Evicted(sp)) = Len(open) - Kept(sp)
<1>1. Kept(sp) \in Nat /\ Kept(sp) <= Len(open) /\ Len(open) \in Nat
  BY KeptBounds
<1> DEFINE k == Kept(sp)
<1> HIDE DEF k
<1>2. k \in Nat /\ k <= Len(open) /\ k = Kept(sp)
  BY <1>1 DEF k
<1>3. /\ SubSeq(open, 1, k) \in Seq(Event) /\ Len(SubSeq(open, 1, k)) = k
      /\ \A i \in 1 .. k : SubSeq(open, 1, k)[i] = open[i]
  <2>1. SubSeq(open, 1, k) = [i \in 1 .. k |-> open[i]]
    BY <1>1, <1>2
  <2>2. \A i \in 1 .. k : open[i] \in Event
    BY <1>1, <1>2
  <2>3. SubSeq(open, 1, k) \in [1 .. k -> Event]
    BY <2>1, <2>2
  <2>. QED BY <2>1, <2>3, <1>2
<1>4. Len(SubSeq(open, k + 1, Len(open))) = Len(open) - k
  <2>1. CASE k = Len(open)
    BY <2>1, <1>1
  <2>2. CASE k < Len(open)
    BY <2>2, <1>1, <1>2, SubSeqProperties
  <2>. QED BY <2>1, <2>2, <1>2
<1>. QED BY <1>2, <1>3, <1>4 DEF Remaining, Evicted


(* A call in traced code: the calls from deeper down are evicted, the new    *)
(* one is the last, and a of the oldest are pushed out.                      *)
LEMMA CallOpens ==
    ASSUME CTypes, Ordered(open), stack # <<>>, stack \in Seq(Func), owed = Len(open),
           NEW me \in Me, Active, AtCall(me)
    PROVE  \E a \in {0, 1} :
           /\ open' \in Seq(Event) /\ Len(open') = Kept(Depth) + 1 - a /\ Len(open') > 0
           /\ \A i \in 1 .. Len(open') - 1 : i + a \in 1 .. Kept(Depth) /\ open'[i] = open[i + a]
           /\ open'[Len(open')] = [call |-> me, sp |-> Depth]
           /\ owed' = Len(open')
           /\ UNCHANGED <<wide, tracing, mixed>> /\ stopped' \in BOOLEAN /\ (stopped => stopped')
<1>a. PICK d : d = Depth
  OBVIOUS
<1>b. PICK k : k = Kept(d)
  OBVIOUS
<1> DEFINE event == [call |-> me, sp |-> d]
           calls == Append(Remaining(d), event)
<1>0. d \in Nat \ {0} /\ event \in Event
  BY <1>a DEF Depth, Event
<1>1. /\ k \in Nat /\ k <= Len(open) /\ Len(open) \in Nat
      /\ Remaining(d) \in Seq(Event) /\ Len(Remaining(d)) = k
      /\ \A i \in 1 .. k : Remaining(d)[i] = open[i]
      /\ Len(Evicted(d)) = Len(open) - k
  <2>1. open \in Seq(Event) /\ Len(open) \in Nat /\ d \in Nat
    BY <1>0 DEF CTypes
  <2>2. k \in Nat /\ k <= Len(open)
    BY <2>1, <1>b, KeptBounds
  <2>. QED BY <2>1, <2>2, <1>b, RemainingIs
<1>2. /\ open' = Cut(calls) /\ UNCHANGED <<wide, tracing, mixed>>
      /\ owed' = owed + 1 - Len(Evicted(d)) - (IF Len(calls) > MaxOpen THEN 1 ELSE 0)
      /\ Emitting(Len(Evicted(d)))
  BY <1>a DEF AtCall
<1>3. stopped' \in BOOLEAN /\ (stopped => stopped')
  BY <1>2 DEF Emitting, CTypes
<1> HIDE DEF event
<1>4. /\ calls \in Seq(Event) /\ Len(calls) = k + 1 /\ calls[k + 1] = event
      /\ \A i \in 1 .. k : calls[i] = open[i]
  BY <1>0, <1>1, AppendProperties
<1> HIDE DEF calls
<1>5. CASE Len(calls) > MaxOpen
  <2>0. k > 0
    BY <1>1, <1>4, <1>5, CallTracerAssumption
  <2>1. /\ Tail(calls) \in Seq(Event) /\ Len(Tail(calls)) = k
        /\ \A i \in 1 .. k : Tail(calls)[i] = calls[i + 1]
    BY <1>1, <1>4, <2>0, HeadTailProperties
  <2>2. open' = Tail(calls)
    BY <1>2, <1>5 DEF Cut
  <2>3. owed' = k
    BY <1>1, <1>2, <1>5
  <2>4. /\ open' \in Seq(Event) /\ Len(open') = k + 1 - 1 /\ Len(open') > 0
        /\ \A i \in 1 .. k - 1 : i + 1 \in 1 .. k /\ open'[i] = open[i + 1]
        /\ open'[k] = event
    <3>1. k \in 1 .. k /\ \A i \in 1 .. k - 1 : i \in 1 .. k /\ i + 1 \in 1 .. k
      BY <2>0, <1>1
    <3>2. open' \in Seq(Event) /\ Len(open') = k + 1 - 1 /\ Len(open') > 0
      BY <2>0, <2>1, <2>2, <1>1
    <3>3. \A i \in 1 .. k - 1 : open'[i] = open[i + 1]
      BY <3>1, <2>1, <2>2, <1>4
    <3>4. open'[k] = event
      BY <3>1, <2>1, <2>2, <1>4
    <3>. QED BY <3>1, <3>2, <3>3, <3>4
  <2>5. Len(open') - 1 = k - 1 /\ Len(open') = k
    BY <2>4, <1>1
  <2>6. \A i \in 1 .. Len(open') - 1 : i + 1 \in 1 .. k /\ open'[i] = open[i + 1]
    BY <2>4, <2>5
  <2>7. open'[Len(open')] = event /\ owed' = Len(open')
    BY <2>3, <2>4, <2>5
  <2>. WITNESS 1 \in {0, 1}
  <2>. QED BY <2>4, <2>6, <2>7, <1>2, <1>3, <1>a, <1>b DEF event
<1>6. CASE ~(Len(calls) > MaxOpen)
  <2>2. open' = calls
    BY <1>2, <1>6 DEF Cut
  <2>3. owed' = k + 1
    BY <1>1, <1>2, <1>6
  <2>4. /\ open' \in Seq(Event) /\ Len(open') = k + 1 - 0 /\ Len(open') > 0
        /\ \A i \in 1 .. k : i + 0 \in 1 .. k /\ open'[i] = open[i + 0]
        /\ open'[k + 1] = event
    BY <2>2, <1>1, <1>4
  <2>5. Len(open') - 1 = k
    BY <2>4, <1>1
  <2>. QED BY <2>3, <2>4, <2>5, <1>1, <1>2, <1>3, <1>a, <1>b DEF event
<1>. QED BY <1>5, <1>6

(* So: the list stays ordered, nothing is open from below the caller; seen   *)
(* from above the caller the newest call is the same; and the calls made at  *)
(* other depths were open before.                                            *)
LEMMA CallKeeps ==
    ASSUME CTypes, Ordered(open), stack # <<>>, stack \in Seq(Func), owed = Len(open),
           NEW me \in Me, Active, AtCall(me)
    PROVE  /\ open' \in Seq(Event) /\ owed' = Len(open') /\ Ordered(open)'
           /\ UNCHANGED <<wide, tracing, mixed>> /\ stopped' \in BOOLEAN /\ (stopped => stopped')
           /\ \A i \in DOMAIN open' : open'[i].sp <= Depth
           /\ \A i \in DOMAIN open' : Newest(open', i, Depth) => open'[i] = [call |-> me, sp |-> Depth]
           /\ \A j \in Nat, i \in DOMAIN open' : j < Depth /\ Newest(open', i, j) =>
                 \E m \in DOMAIN open : Newest(open, m, j) /\ open[m] = open'[i]
           /\ \A j \in Nat : j # Depth /\ NoneFrom(open, j) => NoneFrom(open', j)
           /\ \A j \in Nat : j # Depth /\ OnceFrom(open, j) => OnceFrom(open', j)
           /\ NoneFrom(open, Depth) => OnceFrom(open', Depth)
<1>a. PICK d : d = Depth
  OBVIOUS
<1>b. PICK k : k = Kept(d)
  OBVIOUS
<1>c. PICK n : n = Len(open')
  OBVIOUS
<1> DEFINE event == [call |-> me, sp |-> d]
<1>0. d \in Nat \ {0} /\ event \in Event /\ event.sp = d
  BY <1>a DEF Depth, Event
<1>1. PICK a \in {0, 1} :
           /\ open' \in Seq(Event) /\ n = k + 1 - a /\ n > 0
           /\ \A i \in 1 .. n - 1 : i + a \in 1 .. k /\ open'[i] = open[i + a]
           /\ open'[n] = event
           /\ owed' = n
           /\ UNCHANGED <<wide, tracing, mixed>> /\ stopped' \in BOOLEAN /\ (stopped => stopped')
  BY <1>a, <1>b, <1>c, CallOpens
<1> HIDE DEF event
<1>2. /\ k \in Nat /\ k <= Len(open) /\ Len(open) \in Nat
      /\ \A i \in 1 .. Len(open) : i <= k <=> open[i].sp <= d
  BY <1>0, <1>b, KeptBounds DEF CTypes
<1>3. n \in Nat /\ n > 0 /\ DOMAIN open' = 1 .. n /\ DOMAIN open = 1 .. Len(open)
  BY <1>1, <1>c DEF CTypes
<1>4. /\ \A i \in 1 .. n : open'[i].sp \in Nat
      /\ \A i \in 1 .. Len(open) : open[i].sp \in Nat
  BY <1>1, <1>3, <1>c, EventsOf DEF CTypes
<1>5. ASSUME NEW i \in 1 .. n - 1
      PROVE  i + a \in 1 .. Len(open) /\ open'[i] = open[i + a] /\ open'[i].sp <= d
  <2>1. i + a \in 1 .. k /\ open'[i] = open[i + a]
    BY <1>1
  <2>2. i + a \in 1 .. Len(open) /\ i + a <= k
    BY <2>1, <1>2
  <2>. QED BY <2>1, <2>2, <1>2
<1>6. \A i \in 1 .. n : open'[i].sp <= d
  BY <1>0, <1>1, <1>3, <1>5
<1>7. Ordered(open)'
  <2> SUFFICES ASSUME NEW i \in 1 .. n, NEW j \in 1 .. n, i < j PROVE open'[i].sp <= open'[j].sp
    BY <1>3 DEF Ordered
  <2>1. i \in 1 .. n - 1
    BY <1>3
  <2>2. CASE j = n
    BY <2>1, <2>2, <1>0, <1>1, <1>5
  <2>3. CASE j # n
    <3>1. j \in 1 .. n - 1 /\ i + a < j + a
      BY <2>3, <1>3
    <3>. QED BY <2>1, <3>1, <1>3, <1>5 DEF Ordered
  <2>. QED BY <2>2, <2>3
<1>8. \A i \in DOMAIN open' : Newest(open', i, d) => open'[i] = event
  <2> SUFFICES ASSUME NEW i \in 1 .. n, Newest(open', i, d) PROVE open'[i] = event
    BY <1>3
  <2>1. CASE i = n
    BY <2>1, <1>1
  <2>2. CASE i # n
    <3>1. i + 1 \in 1 .. n /\ i < n
      BY <2>2, <1>3
    <3>2. open'[i + 1].sp > d
      BY <3>1, <1>c DEF Newest
    <3>. QED BY <3>1, <3>2, <1>0, <1>4, <1>6
  <2>. QED BY <2>1, <2>2
<1>9. ASSUME NEW j \in Nat, NEW i \in DOMAIN open', j < d, Newest(open', i, j)
      PROVE  \E m \in DOMAIN open : Newest(open, m, j) /\ open[m] = open'[i]
  <2>1. i \in 1 .. n /\ open'[i].sp <= j /\ (i < n => open'[i + 1].sp > j)
    BY <1>3, <1>9, <1>c DEF Newest
  <2>2. i # n
    BY <2>1, <1>0, <1>1, <1>9
  <2>3. i \in 1 .. n - 1 /\ i + a \in DOMAIN open /\ open[i + a] = open'[i]
    BY <2>1, <2>2, <1>3, <1>5
  <2>4. ASSUME i + a < Len(open) PROVE open[i + a + 1].sp > j
    <3>1. CASE i + 1 = n
      <4>1. i + a = k /\ k + 1 \in 1 .. Len(open)
        BY <3>1, <2>4, <1>1, <1>2, <1>3
      <4>2. ~(open[k + 1].sp <= d)
        BY <4>1, <1>2
      <4>. QED BY <4>1, <4>2, <1>0, <1>4, <1>9
    <3>2. CASE i + 1 # n
      <4>0. i + 1 \in 1 .. n - 1 /\ i + 1 + a = i + a + 1
        BY <3>2, <2>3, <1>3
      <4>1. open'[i + 1] = open[i + 1 + a] /\ i + 1 + a = i + a + 1
        BY <4>0, <1>5
      <4>. QED BY <4>0, <4>1, <2>1, <1>3
    <3>. QED BY <3>1, <3>2
  <2>5. Newest(open, i + a, j)
    BY <2>1, <2>3, <2>4 DEF Newest
  <2>. QED BY <2>3, <2>5
<1>10. ASSUME NEW j \in Nat, j # d, NoneFrom(open, j) PROVE NoneFrom(open', j)
  <2> SUFFICES ASSUME NEW i \in 1 .. n PROVE open'[i].sp # j
    BY <1>3 DEF NoneFrom
  <2>1. CASE i = n
    BY <2>1, <1>0, <1>1, <1>10
  <2>2. CASE i # n
    <3>1. i \in 1 .. n - 1
      BY <2>2, <1>3
    <3>. QED BY <3>1, <1>3, <1>5, <1>10 DEF NoneFrom
  <2>. QED BY <2>1, <2>2
<1>11. ASSUME NEW j \in Nat, j # d, OnceFrom(open, j) PROVE OnceFrom(open', j)
  <2> SUFFICES ASSUME NEW i1 \in 1 .. n, NEW i2 \in 1 .. n, open'[i1].sp = j, open'[i2].sp = j
               PROVE  i1 = i2
    BY <1>3 DEF OnceFrom
  <2>1. i1 # n /\ i2 # n
    BY <1>0, <1>1, <1>11
  <2>2. i1 \in 1 .. n - 1 /\ i2 \in 1 .. n - 1
    BY <2>1, <1>3
  <2>3. i1 + a = i2 + a
    BY <2>2, <1>3, <1>5, <1>11 DEF OnceFrom
  <2>. QED BY <2>2, <2>3, <1>3
<1>12. ASSUME NoneFrom(open, d) PROVE OnceFrom(open', d)
  <2> SUFFICES ASSUME NEW i1 \in 1 .. n, NEW i2 \in 1 .. n, open'[i1].sp = d, open'[i2].sp = d
               PROVE  i1 = i2
    BY <1>3 DEF OnceFrom
  <2>1. \A i \in 1 .. n : open'[i].sp = d => i = n
    <3> SUFFICES ASSUME NEW i \in 1 .. n, open'[i].sp = d, i # n PROVE FALSE
      OBVIOUS
    <3>1. i \in 1 .. n - 1
      BY <1>3
    <3>. QED BY <3>1, <1>3, <1>5, <1>12 DEF NoneFrom
  <2>. QED BY <2>1
<1>. QED BY <1>1, <1>3, <1>6, <1>7, <1>8, <1>9, <1>10, <1>11, <1>12, <1>a, <1>c DEF event

(* A list that is cut off somewhere: seen from a depth above the cut, the    *)
(* newest call is the same.                                                  *)
LEMMA CutOff ==
    ASSUME NEW calls \in Seq(Event), NEW new \in Seq(Event), Len(new) <= Len(calls),
           \A i \in 1 .. Len(new) : new[i] = calls[i], Ordered(calls)
    PROVE  /\ Ordered(new)
           /\ \A j \in Nat : NoneFrom(calls, j) => NoneFrom(new, j)
           /\ \A j \in Nat : OnceFrom(calls, j) => OnceFrom(new, j)
           /\ \A j \in Nat, i \in DOMAIN new :
                 Newest(new, i, j) /\ (Len(new) < Len(calls) => calls[Len(new) + 1].sp > j) =>
                     i \in DOMAIN calls /\ Newest(calls, i, j) /\ new[i] = calls[i]
<1>1. /\ Len(calls) \in Nat /\ Len(new) \in Nat
      /\ DOMAIN calls = 1 .. Len(calls) /\ DOMAIN new = 1 .. Len(new)
  OBVIOUS
<1>2. \A i \in DOMAIN new : i \in DOMAIN calls /\ new[i] = calls[i]
  BY <1>1
<1>3. Ordered(new)
  BY <1>2 DEF Ordered
<1>4. \A j \in Nat : NoneFrom(calls, j) => NoneFrom(new, j)
  BY <1>2 DEF NoneFrom
<1>5. \A j \in Nat : OnceFrom(calls, j) => OnceFrom(new, j)
  BY <1>2 DEF OnceFrom
<1>6. ASSUME NEW j \in Nat, NEW i \in DOMAIN new, Newest(new, i, j),
             Len(new) < Len(calls) => calls[Len(new) + 1].sp > j
      PROVE  Newest(calls, i, j)
  <2>1. CASE i = Len(new)
    BY <2>1, <1>2, <1>6 DEF Newest
  <2>2. CASE i # Len(new)
    <3>1. i < Len(new) /\ i + 1 \in 1 .. Len(new)
      BY <2>2, <1>1
    <3>. QED BY <3>1, <1>2, <1>6, <1>1 DEF Newest
  <2>. QED BY <2>1, <2>2
<1>. QED BY <1>2, <1>3, <1>4, <1>5, <1>6

(* A return in traced code.                                                  *)
LEMMA ReturnCloses ==
    ASSUME CTypes, Ordered(open), stack # <<>>, stack \in Seq(Func), owed = Len(open),
           Active, AtReturn
    PROVE  \E pops \in BOOLEAN, k \in Nat :
           /\ pops => ~wide
           /\ k = Kept(IF pops THEN Depth ELSE Depth - 1) /\ k <= Len(open)
           /\ open' \in Seq(Event) /\ Len(open') = (IF k = 0 THEN 0 ELSE k - 1)
           /\ \A i \in 1 .. Len(open') : open'[i] = open[i]
           /\ owed' = Len(open')
           /\ UNCHANGED <<wide, tracing>> /\ stopped' \in BOOLEAN /\ (stopped => stopped')
           /\ muddled' \in BOOLEAN /\ (muddled \/ Blurs(pops) => muddled')
           /\ mixed' \in BOOLEAN
           /\ (mixed' => mixed \/ (k > 0 /\ ~muddled' /\ open[k].call # Top.me))
<1>a. PICK d : d = Depth
  OBVIOUS
<1>0. d \in Nat \ {0}
  BY <1>a DEF Depth
<1>1. PICK pops \in {FALSE} \cup {~wide} :
         LET sp == ReturnSp(pops)
         IN  /\ open' = StillOpen(sp)
             /\ owed' = owed - Len(Evicted(sp)) - Len(Completed(sp))
             /\ Emitting(Len(Evicted(sp)) + Len(Completed(sp)))
             /\ muddled' = (muddled \/ Blurs(pops))
             /\ mixed' = (mixed \/ \E event \in ToSet(Completed(sp)) : ~muddled' /\ event.call # Top.me)
             /\ UNCHANGED <<wide, tracing>>
  BY DEF AtReturn
<1>2. pops \in BOOLEAN /\ (pops => ~wide)
  BY <1>1 DEF CTypes
<1>b. PICK sp : sp = ReturnSp(pops)
  OBVIOUS
<1>c. PICK k : k = Kept(sp)
  OBVIOUS
<1>3. sp \in Nat /\ sp = IF pops THEN Depth ELSE Depth - 1
  BY <1>0, <1>a, <1>b DEF ReturnSp
<1>4. /\ k \in Nat /\ k <= Len(open) /\ Len(open) \in Nat /\ open \in Seq(Event)
      /\ Remaining(sp) \in Seq(Event) /\ Len(Remaining(sp)) = k
      /\ \A i \in 1 .. k : Remaining(sp)[i] = open[i]
      /\ Len(Evicted(sp)) = Len(open) - k
  <2>1. open \in Seq(Event) /\ Len(open) \in Nat
    BY DEF CTypes
  <2>2. k \in Nat /\ k <= Len(open)
    BY <2>1, <1>3, <1>c, KeptBounds
  <2>. QED BY <2>1, <2>2, <1>3, <1>c, RemainingIs
<1>5. /\ stopped' \in BOOLEAN /\ (stopped => stopped')
  BY <1>1 DEF Emitting, CTypes
<1>6. muddled' = (muddled \/ Blurs(pops))
  BY <1>1
<1>7. muddled' \in BOOLEAN /\ (muddled \/ Blurs(pops) => muddled')
  BY <1>6
<1>8. open' = StillOpen(sp) /\ owed' = owed - Len(Evicted(sp)) - Len(Completed(sp))
  BY <1>1, <1>b
<1>9. mixed' = (mixed \/ \E event \in ToSet(Completed(sp)) : ~muddled' /\ event.call # Top.me)
  BY <1>1, <1>b
<1>10. UNCHANGED <<wide, tracing>>
  BY <1>1
<1>11. CASE k = 0
  <2>1. Remaining(sp) = <<>>
    BY <1>4, <1>11
  <2>2. open' = <<>> /\ Completed(sp) = <<>>
    BY <2>1, <1>8 DEF StillOpen, Completed
  <2>3. owed' = 0 /\ Len(open') = 0 /\ open' \in Seq(Event)
    <3>1. Len(Completed(sp)) = 0
      BY <2>2
    <3>2. open' \in Seq(Event) /\ Len(open') = 0
      BY <2>2
    <3>. QED BY <3>1, <3>2, <1>4, <1>8, <1>11
  <2>4. ToSet(Completed(sp)) = {}
    BY <2>2 DEF ToSet
  <2>5. mixed' = mixed
    BY <2>4, <1>9 DEF CTypes
  <2>6. mixed' \in BOOLEAN /\ (mixed' => mixed)
    BY <2>5 DEF CTypes
  <2>7. \A i \in 1 .. Len(open') : open'[i] = open[i]
    BY <2>3
  <2>. QED BY <2>3, <2>6, <2>7, <1>2, <1>3, <1>4, <1>5, <1>7, <1>10, <1>11, <1>c
<1>12. CASE k # 0
  <2>1. Remaining(sp) # <<>> /\ k - 1 \in Nat /\ k \in 1 .. k
    BY <1>4, <1>12
  <2>2. Last(Remaining(sp)) = open[k]
    BY <2>1, <1>4 DEF Last
  <2>3. open' = Front(Remaining(sp)) /\ Completed(sp) = <<open[k]>>
    BY <2>1, <2>2, <1>8 DEF StillOpen, Completed
  <2>4. /\ open' \in Seq(Event) /\ Len(open') = k - 1
        /\ \A i \in 1 .. k - 1 : open'[i] = Remaining(sp)[i]
    BY <2>1, <2>3, <1>4, FrontOf
  <2>5. \A i \in 1 .. k - 1 : open'[i] = open[i]
    BY <2>4, <1>4
  <2>6. owed' = k - 1
    <3>1. Len(Completed(sp)) = 1
      BY <2>3
    <3>. QED BY <3>1, <1>4, <1>8
  <2>7. ToSet(Completed(sp)) = {open[k]}
    BY <2>3 DEF ToSet
  <2>8. mixed' = (mixed \/ (~muddled' /\ open[k].call # Top.me))
    BY <2>7, <1>9
  <2>9. mixed' \in BOOLEAN /\ (mixed' => mixed \/ (k > 0 /\ ~muddled' /\ open[k].call # Top.me))
    <3>1. k > 0
      BY <1>4, <1>12
    <3>. QED BY <3>1, <2>8
  <2>. QED BY <2>4, <2>5, <2>6, <2>9, <1>2, <1>3, <1>4, <1>5, <1>7, <1>10, <1>12, <1>c
<1>. QED BY <1>11, <1>12

LEMMA PlainKept ==
    ASSUME NEW s \in Seq(Func), NEW t \in Seq(Func), NEW d \in Nat, d <= Len(s), d <= Len(t),
           SameUpTo(s, t, d), NEW j \in 1 .. d
    PROVE  /\ t[j].traced = s[j].traced /\ t[j].me = s[j].me
           /\ IsCallback(t[j]) <=> IsCallback(s[j])
           /\ Plain(t, j) => Plain(s, j)
<1>1. /\ t[j].traced = s[j].traced /\ t[j].me = s[j].me /\ (s[j].left => t[j].left)
      /\ (IsCallback(t[j]) <=> IsCallback(s[j]))
  BY DEF SameUpTo, Same, IsCallback
<1>2. j > 1 => t[j - 1].traced = s[j - 1].traced
  BY DEF SameUpTo, Same
<1>3. ASSUME Plain(t, j) PROVE Plain(s, j)
  <2>1. s[j].traced /\ ~s[j].left
    BY <1>1, <1>3 DEF Plain
  <2>2. ASSUME j > 1 PROVE s[j - 1].traced /\ ~IsCallback(s[j])
    BY <2>2, <1>1, <1>2, <1>3 DEF Plain
  <2>. QED BY <2>1, <2>2 DEF Plain
<1>. QED BY <1>1, <1>3

(* A function is entered.  Traced code has opened the call, or it enters a   *)
(* callback by itself, or the caller is not traced.                          *)
LEMMA EnterMatched ==
    ASSUME CTypes, Ordered(open), stack # <<>>, stack \in Seq(Func), owed = Len(open),
           NEW me \in Me, NEW f \in Func, NEW r \in Seq(Func), Len(r) = Len(stack),
           SameUpTo(stack, r, Len(stack)), stack' = Append(r, f),
           IsCallback(f) => r[Len(stack)].left,
           \/ Active /\ AtCall(me) /\ (IsCallback(f) \/ f.me = me)
           \/ UNCHANGED open /\ (IsCallback(f) \/ ~Top.traced),
           CallersMatch(stack, open), ~wide => CallsDone(stack, open)
    PROVE  CallersMatch(stack', open') /\ (~wide => CallsDone(stack', open'))
<1>a. PICK n : n = Len(stack)
  OBVIOUS
<1>0. /\ n \in Nat \ {0} /\ DOMAIN stack = 1 .. n /\ Depth = n /\ Top = stack[n]
      /\ stack' \in Seq(Func) /\ Len(stack') = n + 1 /\ DOMAIN stack' = 1 .. n + 1
      /\ stack'[n + 1] = f /\ SameUpTo(stack, stack', n)
      /\ \A i \in 1 .. n : stack'[i] = r[i]
      /\ open \in Seq(Event)
  <2>1. n \in Nat \ {0} /\ DOMAIN stack = 1 .. n /\ Depth = n /\ Top = stack[n] /\ open \in Seq(Event)
    BY <1>a DEF Depth, Top, Last, CTypes
  <2>2. /\ stack' \in Seq(Func) /\ Len(stack') = n + 1
        /\ stack'[n + 1] = f /\ SameUpTo(stack, stack', n)
        /\ \A i \in 1 .. n : stack'[i] = r[i]
    BY <1>a, Pushed
  <2>. QED BY <2>1, <2>2
<1>1. \A j \in 1 .. n : /\ stack'[j].traced = stack[j].traced /\ stack'[j].me = stack[j].me
                        /\ (IsCallback(stack'[j]) <=> IsCallback(stack[j]))
                        /\ (Plain(stack', j) => Plain(stack, j))
  <2>1. n \in Nat /\ n <= Len(stack) /\ n <= Len(stack') /\ SameUpTo(stack, stack', n)
        /\ stack \in Seq(Func) /\ stack' \in Seq(Func)
    BY <1>0, <1>a
  <2>a. PICK t : t = stack'
    OBVIOUS
  <2>2. \A j \in 1 .. n :
           /\ t[j].traced = stack[j].traced /\ t[j].me = stack[j].me
           /\ (IsCallback(t[j]) <=> IsCallback(stack[j]))
           /\ (Plain(t, j) => Plain(stack, j))
    BY ONLY <2>1, <2>a, PlainKept
  <2>. QED BY <2>2, <2>a
(* What holds of the list after the step, whichever way it was made.         *)
<1>2. /\ open' \in Seq(Event)
      /\ \A j \in Nat, i \in DOMAIN open' : j < n /\ Newest(open', i, j) =>
            \E m \in DOMAIN open : Newest(open, m, j) /\ open[m] = open'[i]
      /\ \A j \in Nat : j # n /\ NoneFrom(open, j) => NoneFrom(open', j)
      /\ \A j \in Nat : j # n /\ OnceFrom(open, j) => OnceFrom(open', j)
      /\ NoneFrom(open, n) => OnceFrom(open', n)
  <2>1. CASE Active /\ AtCall(me)
    BY <2>1, <1>0, CallKeeps
  <2>2. CASE UNCHANGED open
    BY <2>2, <1>0 DEF NoneFrom, OnceFrom
  <2>. QED BY <2>1, <2>2
<1>3. CallersMatch(stack', open')
  <2> SUFFICES ASSUME NEW j \in 1 .. n, stack'[j].traced, ~IsCallback(stack'[j + 1]),
                      NEW i \in DOMAIN open', Newest(open', i, j)
               PROVE  open'[i].sp = j /\ open'[i].call = stack'[j + 1].me
    <3>1. \A j \in DOMAIN stack' : j < Len(stack') => j \in 1 .. n
      BY <1>0
    <3>. QED BY <3>1 DEF CallersMatch
  <2>1. CASE j = n
    <3>1. ~IsCallback(f) /\ Top.traced
      BY <2>1, <1>0, <1>1
    <3>2. Active /\ AtCall(me) /\ f.me = me
      BY <3>1
    <3>3. open'[i] = [call |-> me, sp |-> n]
      BY <3>2, <2>1, <1>0, CallKeeps
    <3>. QED BY <3>2, <3>3, <2>1, <1>0
  <2>2. CASE j # n
    <3>1. j \in Nat /\ j < n /\ j + 1 \in 1 .. n /\ j \in DOMAIN stack /\ j < Len(stack)
      BY <2>2, <1>0, <1>a
    <3>2. PICK m \in DOMAIN open : Newest(open, m, j) /\ open[m] = open'[i]
      BY <3>1, <1>2
    <3>3. stack[j].traced /\ ~IsCallback(stack[j + 1]) /\ stack'[j + 1].me = stack[j + 1].me
      BY <3>1, <1>1
    <3>. QED BY <3>1, <3>2, <3>3 DEF CallersMatch
  <2>. QED BY <2>1, <2>2
<1>4. ASSUME ~wide PROVE CallsDone(stack', open')
  <2>0. CallsDone(stack, open)
    BY <1>4
  <2>1. ASSUME NEW j \in 1 .. n + 1, Plain(stack', j)
        PROVE  OnceFrom(open', j) /\ (j = n + 1 => NoneFrom(open', j))
    <3>1. CASE j = n + 1
      <4>1. stack'[n].traced /\ ~IsCallback(f) /\ j - 1 = n
        BY <2>1, <3>1, <1>0 DEF Plain
      <4>2. Top.traced
        BY <4>1, <1>0, <1>1
      <4>3. \A i \in DOMAIN open' : open'[i].sp <= n
        BY <4>1, <4>2, <1>0, CallKeeps
      <4>4. \A i \in DOMAIN open' : open'[i].sp \in Nat
        BY <1>2, EventsOf
      <4>5. \A i \in DOMAIN open' : open'[i].sp # j
        BY <4>3, <4>4, <3>1, <1>0
      <4>. QED BY <4>5 DEF OnceFrom, NoneFrom
    <3>2. CASE j = n
      <4>1. Plain(stack, n) /\ n \in DOMAIN stack /\ n = Len(stack)
        BY <2>1, <3>2, <1>0, <1>1, <1>a
      <4>2. NoneFrom(open, n)
        BY <4>1, <2>0 DEF CallsDone
      <4>. QED BY <4>2, <3>2, <1>0, <1>2
    <3>3. CASE j < n
      <4>1. Plain(stack, j) /\ j \in DOMAIN stack
        BY <2>1, <3>3, <1>0, <1>1
      <4>2. OnceFrom(open, j)
        BY <4>1, <2>0 DEF CallsDone
      <4>. QED BY <4>2, <3>3, <1>0, <1>2
    <3>. QED BY <3>1, <3>2, <3>3, <1>0
  <2>2. ASSUME ~stack'[1].traced PROVE NoneFrom(open', 1)
    <3>0. 1 \in 1 .. n
      BY <1>0
    <3>1. ~stack[1].traced
      BY <3>0, <2>2, <1>1
    <3>2. NoneFrom(open, 1)
      BY <3>1, <2>0 DEF CallsDone
    <3>3. CASE n = 1
      <4>1. UNCHANGED open
        BY <3>1, <3>3, <1>0 DEF Active
      <4>. QED BY <4>1, <3>2
    <3>4. CASE n # 1
      BY <3>2, <3>4, <1>2
    <3>. QED BY <3>3, <3>4
  <2>3. stack' # <<>>
    BY <1>0
  <2>. QED BY <2>1, <2>2, <2>3, <1>0 DEF CallsDone
<1>. QED BY <1>3, <1>4

(* The newest call that a return keeps is that of the function's caller.     *)
LEMMA NewestIsOwn ==
    ASSUME CTypes, Ordered(open), stack # <<>>, stack \in Seq(Func),
           Active, NEW pops \in BOOLEAN, pops => ~wide, ~Blurs(pops),
           NEW k \in Nat, k = Kept(IF pops THEN Depth ELSE Depth - 1), k <= Len(open),
           CallersMatch(stack, open), ~wide => CallsDone(stack, open)
    PROVE  /\ \A i \in 1 .. Len(open) : i <= k <=> open[i].sp <= Len(stack) - 1
           /\ Len(stack) = 1 => k = 0
           /\ k > 0 => k \in DOMAIN open /\ open[k].sp = Len(stack) - 1 /\ open[k].call = Top.me
<1>a. PICK n : n = Len(stack)
  OBVIOUS
<1>0. /\ n \in Nat \ {0} /\ DOMAIN stack = 1 .. n /\ Depth = n /\ Top = stack[n]
      /\ open \in Seq(Event) /\ Top.traced
  BY <1>a DEF Depth, Top, Last, CTypes, Active
<1>1. /\ Len(open) \in Nat /\ DOMAIN open = 1 .. Len(open)
      /\ \A i \in 1 .. Len(open) : open[i].sp \in Nat /\ open[i].sp > 0
  BY <1>0, EventsOf
<1>2. pops => NoneFrom(open, n)
  <2> SUFFICES ASSUME pops PROVE NoneFrom(open, n)
    OBVIOUS
  <2>1. ~Top.left /\ (n > 1 => stack[n - 1].traced /\ ~IsCallback(Top))
    BY <1>0 DEF Blurs
  <2>2. Plain(stack, n)
    BY <2>1, <1>0 DEF Plain
  <2>. QED BY SMTT(60), <2>2, <1>0, <1>a DEF CallsDone
(* The newest call kept is the one from the caller's depth.                  *)
<1>3. \A i \in 1 .. Len(open) : i <= k <=> open[i].sp <= n - 1
  <2>1. CASE pops
    <3>1. \A i \in 1 .. Len(open) : i <= k <=> open[i].sp <= n
      BY <2>1, <1>0, KeptBounds
    <3>2. \A i \in 1 .. Len(open) : open[i].sp # n
      BY <2>1, <1>1, <1>2 DEF NoneFrom
    <3>. QED BY <3>1, <3>2, <1>0, <1>1
  <2>2. CASE ~pops
    <3>1. n - 1 \in Nat /\ k = Kept(n - 1)
      BY <2>2, <1>0
    <3>. QED BY <3>1, <1>0, KeptBounds
  <2>. QED BY <2>1, <2>2
<1>4. n = 1 => k = 0
  <2> SUFFICES ASSUME n = 1, k # 0 PROVE FALSE
    OBVIOUS
  <2>1. k \in 1 .. Len(open) /\ open[k].sp <= 0 /\ open[k].sp \in Nat /\ open[k].sp > 0
    BY <1>1, <1>3
  <2>. QED BY <2>1
<1>5. ASSUME k > 0
      PROVE  k \in DOMAIN open /\ open[k].sp = n - 1 /\ open[k].call = Top.me
  <2>0. n > 1 /\ n - 1 \in DOMAIN stack /\ n - 1 < n /\ n - 1 + 1 = n
    BY <1>0, <1>4, <1>5
  <2>1. stack[n - 1].traced /\ ~IsCallback(Top)
    BY <2>0, <1>0 DEF Blurs
  <2>2. k \in DOMAIN open /\ open[k].sp <= n - 1
    BY <1>1, <1>3, <1>5
  <2>3. ASSUME k < Len(open) PROVE open[k + 1].sp > n - 1
    <3>1. k + 1 \in 1 .. Len(open) /\ ~(k + 1 <= k)
      BY <2>3, <1>1
    <3>. QED BY <3>1, <1>0, <1>1, <1>3
  <2>4. Newest(open, k, n - 1)
    BY <2>2, <2>3 DEF Newest
  <2>5. \A i \in DOMAIN open :
           Newest(open, i, n - 1) => open[i].sp = n - 1 /\ open[i].call = stack[n - 1 + 1].me
    <3>1. n - 1 < Len(stack) /\ ~IsCallback(stack[n - 1 + 1])
      BY <2>0, <2>1, <1>0, <1>a
    <3>. QED BY <3>1, <2>0, <2>1 DEF CallersMatch
  <2>. QED BY <2>0, <2>2, <2>4, <2>5, <1>0
<1>. QED BY <1>3, <1>4, <1>5, <1>a

(* A function of traced code returns: its caller's call was the newest one,  *)
(* so it is completed with its own value, and what is left matches.          *)
LEMMA ReturnMatched ==
    ASSUME CTypes, Ordered(open), stack # <<>>, stack \in Seq(Func), owed = Len(open),
           stack' = Front(stack), Active, NEW pops \in BOOLEAN, pops => ~wide, ~Blurs(pops),
           NEW k \in Nat, k = Kept(IF pops THEN Depth ELSE Depth - 1), k <= Len(open),
           open' \in Seq(Event), Len(open') = (IF k = 0 THEN 0 ELSE k - 1),
           \A i \in 1 .. Len(open') : open'[i] = open[i],
           CallersMatch(stack, open), ~wide => CallsDone(stack, open)
    PROVE  /\ k > 0 => open[k].call = Top.me
           /\ CallersMatch(stack', open') /\ (~wide => CallsDone(stack', open'))
<1>a. PICK n : n = Len(stack)
  OBVIOUS
<1>0. /\ n \in Nat \ {0} /\ DOMAIN stack = 1 .. n /\ Depth = n /\ Top = stack[n]
      /\ stack' \in Seq(Func) /\ Len(stack') = n - 1 /\ DOMAIN stack' = 1 .. n - 1
      /\ \A i \in 1 .. n - 1 : stack'[i] = stack[i]
      /\ open \in Seq(Event) /\ Top.traced
  <2>1. n \in Nat \ {0} /\ DOMAIN stack = 1 .. n /\ Depth = n /\ Top = stack[n] /\ open \in Seq(Event)
    BY <1>a DEF Depth, Top, Last, CTypes
  <2>2. /\ stack' \in Seq(Func) /\ Len(stack') = n - 1
        /\ \A i \in 1 .. n - 1 : stack'[i] = stack[i]
    BY <1>a, FrontOf
  <2>3. DOMAIN stack' = 1 .. n - 1 /\ Top.traced
    BY <2>2 DEF Active
  <2>. QED BY <2>1, <2>2, <2>3
<1>1. /\ Len(open) \in Nat /\ DOMAIN open = 1 .. Len(open) /\ DOMAIN open' = 1 .. Len(open')
      /\ \A i \in 1 .. Len(open) : open[i].sp \in Nat /\ open[i].sp > 0
  BY <1>0, EventsOf
<1>3. /\ \A i \in 1 .. Len(open) : i <= k <=> open[i].sp <= n - 1
      /\ n = 1 => k = 0
      /\ k > 0 => k \in DOMAIN open /\ open[k].sp = n - 1 /\ open[k].call = Top.me
  BY <1>a, NewestIsOwn
<1>4. n = 1 => k = 0
  BY <1>3
<1>5. ASSUME k > 0
      PROVE  k \in DOMAIN open /\ open[k].sp = n - 1 /\ open[k].call = Top.me
  BY <1>3, <1>5
<1>6. /\ Len(open') <= Len(open) /\ Len(open') \in Nat
      /\ \A j \in Nat : j < n - 1 => (Len(open') < Len(open) => open[Len(open') + 1].sp > j)
  <2>1. Len(open') <= Len(open) /\ Len(open') \in Nat
    BY <1>1
  <2>2. ASSUME NEW j \in Nat, j < n - 1, Len(open') < Len(open) PROVE open[Len(open') + 1].sp > j
    <3>1. CASE k = 0
      <4>1. 1 \in 1 .. Len(open) /\ ~(1 <= k) /\ Len(open') + 1 = 1
        BY <2>2, <3>1, <1>1
      <4>. QED BY <4>1, <2>2, <1>0, <1>1, <1>3
    <3>2. CASE k # 0
      BY <3>2, <2>2, <1>5
    <3>. QED BY <3>1, <3>2
  <2>. QED BY <2>1, <2>2
<1>7. /\ \A j \in Nat : NoneFrom(open, j) => NoneFrom(open', j)
      /\ \A j \in Nat : OnceFrom(open, j) => OnceFrom(open', j)
      /\ \A j \in Nat, i \in DOMAIN open' : j < n - 1 /\ Newest(open', i, j) =>
            i \in DOMAIN open /\ Newest(open, i, j) /\ open'[i] = open[i]
  <2>1. open \in Seq(Event) /\ open' \in Seq(Event) /\ Len(open') <= Len(open) /\ Ordered(open)
        /\ \A i \in 1 .. Len(open') : open'[i] = open[i]
    BY <1>0, <1>6
  <2>2. /\ \A j \in Nat : NoneFrom(open, j) => NoneFrom(open', j)
        /\ \A j \in Nat : OnceFrom(open, j) => OnceFrom(open', j)
    BY <2>1, CutOff
  <2>3. \A j \in Nat, i \in DOMAIN open' :
           Newest(open', i, j) /\ (Len(open') < Len(open) => open[Len(open') + 1].sp > j) =>
               i \in DOMAIN open /\ Newest(open, i, j) /\ open'[i] = open[i]
    BY <2>1, CutOff
  <2>. QED BY <2>2, <2>3, <1>6
<1>8. CallersMatch(stack', open')
  <2> SUFFICES ASSUME NEW j \in 1 .. n - 1, j < n - 1, stack'[j].traced, ~IsCallback(stack'[j + 1]),
                      NEW i \in DOMAIN open', Newest(open', i, j)
               PROVE  open'[i].sp = j /\ open'[i].call = stack'[j + 1].me
    BY <1>0 DEF CallersMatch
  <2>1. j \in Nat /\ j \in DOMAIN stack /\ j + 1 \in 1 .. n - 1 /\ j < Len(stack)
    BY <1>0, <1>a
  <2>2. i \in DOMAIN open /\ Newest(open, i, j) /\ open'[i] = open[i]
    BY <2>1, <1>7
  <2>3. stack[j].traced /\ ~IsCallback(stack[j + 1]) /\ stack'[j + 1].me = stack[j + 1].me
    BY <2>1, <1>0
  <2>. QED BY <2>1, <2>2, <2>3 DEF CallersMatch
<1>9. ASSUME ~wide PROVE CallsDone(stack', open')
  <2>0. CallsDone(stack, open)
    BY <1>9
  <2>1. ASSUME NEW j \in 1 .. n - 1, Plain(stack', j)
        PROVE  OnceFrom(open', j) /\ (j = n - 1 => NoneFrom(open', j))
    <3>1. j \in DOMAIN stack /\ stack'[j] = stack[j] /\ (j > 1 => j - 1 \in 1 .. n - 1)
      BY <1>0
    <3>2. Plain(stack, j)
      BY <2>1, <3>1, <1>0 DEF Plain
    <3>3. OnceFrom(open, j)
      BY <3>1, <3>2, <2>0 DEF CallsDone
    <3>4. ASSUME j = n - 1 PROVE NoneFrom(open', j)
      <4> SUFFICES ASSUME NEW i \in DOMAIN open', open'[i].sp = j PROVE FALSE
        BY DEF NoneFrom
      <4>1. k > 0 /\ i < k /\ i \in DOMAIN open /\ open[i].sp = j
        BY <1>1, <1>6
      <4>2. i = k
        BY <4>1, <3>3, <3>4, <1>5 DEF OnceFrom
      <4>. QED BY <4>1, <4>2
    <3>. QED BY <3>3, <3>4, <1>7
  <2>2. ASSUME stack' = <<>> \/ ~stack'[1].traced PROVE NoneFrom(open', 1)
    <3>1. CASE n = 1
      <4>1. DOMAIN open' = {}
        BY <3>1, <1>1, <1>4
      <4>. QED BY <4>1 DEF NoneFrom
    <3>2. CASE n # 1
      <4>1. stack' # <<>> /\ stack'[1] = stack[1]
        BY <3>2, <1>0
      <4>2. NoneFrom(open, 1)
        BY <4>1, <2>0, <2>2 DEF CallsDone
      <4>. QED BY <4>2, <1>7
    <3>. QED BY <3>1, <3>2
  <2>. QED BY <2>1, <2>2, <1>0 DEF CallsDone
<1>. QED BY <1>5, <1>8, <1>9

(* A function that is not traced returns: the tracer sees nothing, and what  *)
(* it returns to is marked.                                                  *)
LEMMA ReturnUnseen ==
    ASSUME CTypes, stack # <<>>, stack \in Seq(Func), Marked,
           stack' = Front(stack), ~Top.traced, UNCHANGED open,
           CallersMatch(stack, open), ~wide => CallsDone(stack, open)
    PROVE  CallersMatch(stack', open') /\ (~wide => CallsDone(stack', open'))
<1>a. PICK n : n = Len(stack)
  OBVIOUS
<1>0. /\ n \in Nat \ {0} /\ DOMAIN stack = 1 .. n /\ Top = stack[n]
      /\ stack' \in Seq(Func) /\ Len(stack') = n - 1 /\ DOMAIN stack' = 1 .. n - 1
      /\ \A i \in 1 .. n - 1 : stack'[i] = stack[i]
  <2>1. n \in Nat \ {0} /\ DOMAIN stack = 1 .. n /\ Top = stack[n]
    BY <1>a DEF Top, Last
  <2>2. /\ stack' \in Seq(Func) /\ Len(stack') = n - 1
        /\ \A i \in 1 .. n - 1 : stack'[i] = stack[i]
    BY <1>a, FrontOf
  <2>3. DOMAIN stack' = 1 .. n - 1
    BY <2>2
  <2>. QED BY <2>1, <2>2, <2>3
<1>1. CallersMatch(stack', open)
  <2> SUFFICES ASSUME NEW j \in 1 .. n - 1, j < n - 1, stack'[j].traced, ~IsCallback(stack'[j + 1]),
                      NEW i \in DOMAIN open, Newest(open, i, j)
               PROVE  open[i].sp = j /\ open[i].call = stack'[j + 1].me
    BY <1>0 DEF CallersMatch
  <2>1. j \in DOMAIN stack /\ j + 1 \in 1 .. n - 1 /\ j < Len(stack)
    BY <1>0, <1>a
  <2>2. stack[j].traced /\ ~IsCallback(stack[j + 1]) /\ stack'[j + 1].me = stack[j + 1].me
    BY <2>1, <1>0
  <2>. QED BY <2>1, <2>2 DEF CallersMatch
<1>2. ASSUME ~wide PROVE CallsDone(stack', open)
  <2>0. CallsDone(stack, open)
    BY <1>2
  <2>1. ASSUME NEW j \in 1 .. n - 1, Plain(stack', j)
        PROVE  OnceFrom(open, j) /\ j # n - 1
    <3>1. j \in DOMAIN stack /\ stack'[j] = stack[j] /\ (j > 1 => j - 1 \in 1 .. n - 1)
      BY <1>0
    <3>2. Plain(stack, j)
      BY <2>1, <3>1, <1>0 DEF Plain
    <3>3. j # n - 1
      <4> SUFFICES ASSUME j = n - 1 PROVE FALSE
        OBVIOUS
      <4>1. j + 1 = n /\ j < Len(stack)
        BY <1>0, <1>a
      <4>2. stack[j].left
        BY <4>1, <3>1, <1>0 DEF Marked
      <4>. QED BY <4>2, <3>2 DEF Plain
    <3>. QED BY <3>1, <3>2, <3>3, <2>0 DEF CallsDone
  <2>2. ASSUME stack' = <<>> \/ ~stack'[1].traced PROVE NoneFrom(open, 1)
    <3>1. ~stack[1].traced
      <4>1. CASE n = 1
        BY <4>1, <1>0
      <4>2. CASE n # 1
        <5>1. stack' # <<>> /\ 1 \in 1 .. n - 1
          BY <4>2, <1>0
        <5>. QED BY <5>1, <2>2, <1>0
      <4>. QED BY <4>1, <4>2
    <3>. QED BY <3>1, <2>0 DEF CallsDone
  <2>. QED BY <2>1, <2>2, <1>0 DEF CallsDone
<1>. QED BY <1>1, <1>2

(* A jump to depth d: the function there is marked, and whatever was opened  *)
(* lies deeper.                                                              *)
LEMMA JumpMatched ==
    ASSUME CTypes, Ordered(open), stack # <<>>, stack \in Seq(Func), owed = Len(open),
           NEW me \in Me, NEW d \in Nat, d > 0, d < Len(stack), stack' = Left(SubSeq(stack, 1, d)),
           (Active /\ AtCall(me)) \/ UNCHANGED open,
           CallersMatch(stack, open), ~wide => CallsDone(stack, open)
    PROVE  CallersMatch(stack', open') /\ (~wide => CallsDone(stack', open'))
<1> DEFINE s == SubSeq(stack, 1, d)
<1>a. PICK n : n = Len(stack)
  OBVIOUS
<1>0. /\ n \in Nat \ {0} /\ DOMAIN stack = 1 .. n /\ Depth = n /\ d < n /\ open \in Seq(Event)
      /\ d \in 1 .. n
  BY <1>a DEF Depth, CTypes
<1>1. s \in Seq(Func) /\ Len(s) = d /\ s # <<>> /\ \A i \in 1 .. d : s[i] = stack[i]
  BY <1>0, <1>a
<1> HIDE DEF s
<1>2. /\ stack' \in Seq(Func) /\ Len(stack') = d /\ DOMAIN stack' = 1 .. d
      /\ SameUpTo(s, stack', d) /\ stack'[d].left
  <2>1. stack' = Left(s)
    BY DEF s
  <2>. QED BY <2>1, <1>1, LeftKeeps
<1>3. SameUpTo(stack, stack', d)
  BY <1>1, <1>2 DEF SameUpTo, Same
<1>4. \A j \in 1 .. d : /\ stack'[j].traced = stack[j].traced /\ stack'[j].me = stack[j].me
                        /\ (IsCallback(stack'[j]) <=> IsCallback(stack[j]))
                        /\ (Plain(stack', j) => Plain(stack, j))
  <2>1. d \in Nat /\ d <= Len(stack) /\ d <= Len(stack')
    BY <1>2
  <2>. QED BY <2>1, <1>2, <1>3, PlainKept
<1>5. /\ open' \in Seq(Event)
      /\ \A j \in Nat, i \in DOMAIN open' : j < n /\ Newest(open', i, j) =>
            \E m \in DOMAIN open : Newest(open, m, j) /\ open[m] = open'[i]
      /\ \A j \in Nat : j # n /\ NoneFrom(open, j) => NoneFrom(open', j)
      /\ \A j \in Nat : j # n /\ OnceFrom(open, j) => OnceFrom(open', j)
  <2>1. CASE Active /\ AtCall(me)
    BY <2>1, <1>0, CallKeeps
  <2>2. CASE UNCHANGED open
    BY <2>2, <1>0 DEF NoneFrom, OnceFrom
  <2>. QED BY <2>1, <2>2
<1>6. CallersMatch(stack', open')
  <2> SUFFICES ASSUME NEW j \in 1 .. d, j < d, stack'[j].traced, ~IsCallback(stack'[j + 1]),
                      NEW i \in DOMAIN open', Newest(open', i, j)
               PROVE  open'[i].sp = j /\ open'[i].call = stack'[j + 1].me
    BY <1>2 DEF CallersMatch
  <2>1. j \in Nat /\ j < n /\ j + 1 \in 1 .. d /\ j \in DOMAIN stack /\ j < Len(stack)
    BY <1>0, <1>a
  <2>2. PICK m \in DOMAIN open : Newest(open, m, j) /\ open[m] = open'[i]
    BY <2>1, <1>5
  <2>3. stack[j].traced /\ ~IsCallback(stack[j + 1]) /\ stack'[j + 1].me = stack[j + 1].me
    BY <2>1, <1>4
  <2>. QED BY <2>1, <2>2, <2>3 DEF CallersMatch
<1>7. ASSUME ~wide PROVE CallsDone(stack', open')
  <2>0. CallsDone(stack, open)
    BY <1>7
  <2>1. ASSUME NEW j \in 1 .. d, Plain(stack', j)
        PROVE  OnceFrom(open', j) /\ j # d
    <3>1. Plain(stack, j) /\ j \in DOMAIN stack /\ j # n /\ j \in Nat
      BY <2>1, <1>0, <1>4
    <3>2. OnceFrom(open, j)
      BY <3>1, <2>0 DEF CallsDone
    <3>3. j # d
      BY <2>1, <1>2 DEF Plain
    <3>. QED BY <3>1, <3>2, <3>3, <1>5
  <2>2. ASSUME ~stack'[1].traced PROVE NoneFrom(open', 1)
    <3>1. ~stack[1].traced /\ 1 # n
      BY <2>2, <1>0, <1>4
    <3>2. NoneFrom(open, 1)
      BY <3>1, <2>0 DEF CallsDone
    <3>. QED BY <3>1, <3>2, <1>5
  <2>3. stack' # <<>>
    BY <1>2
  <2>. QED BY <2>1, <2>2, <2>3, <1>2 DEF CallsDone
<1>. QED BY <1>6, <1>7

LEMMA TracerStepsIterations == [CNext]_cvars => [INext]_ivars
<1>1. CNext => INext \/ UNCHANGED ivars
  BY DEF CNext, INext, Goes, Work, Trace, Flush, StepRaises, FlushRaises
<1>2. UNCHANGED cvars => UNCHANGED ivars
  BY DEF cvars
<1>. QED BY <1>1, <1>2

(* What a step that may open a call does when it does not.                   *)
LEMMA CallUnseen ==
    ASSUME NEW me, ~Active, AtCall(me)
    PROVE  UNCHANGED <<wide, tracing, open, stopped, owed, mixed>>
BY DEF AtCall

(* Steps that enter or leave functions, without a return: either a call is   *)
(* opened or the tracer stays as it is.                                      *)
LEMMA OpensOrStays ==
    ASSUME TracerInv, stack # <<>>, stack \in Seq(Func), NEW me \in Me, AtCall(me), AtAbort
    PROVE  /\ CTypes' /\ Ordered(open)' /\ mixed' = mixed /\ CallsAccounted'
           /\ UNCHANGED <<wide, tracing>> /\ (stopped => stopped')
           /\ (tracing = "before" => open' = <<>>)
           /\ (muddled => muddled')
           /\ (stack' = <<>> /\ ~wide /\ ~muddled' => open' = <<>>)
<1>1. CTypes /\ Ordered(open) /\ owed = Len(open)
  BY DEF TracerInv, CallsAccounted
<1>2. muddled' \in BOOLEAN /\ (muddled => muddled')
      /\ (stack' = <<>> /\ ~wide /\ ~muddled' => open' = <<>>)
  BY <1>1 DEF AtAbort, CTypes
<1>3. CASE Active
  <2>1. /\ open' \in Seq(Event) /\ owed' = Len(open') /\ Ordered(open)'
        /\ UNCHANGED <<wide, tracing, mixed>> /\ stopped' \in BOOLEAN /\ (stopped => stopped')
    BY <1>1, <1>3, CallKeeps
  <2>2. tracing = "on"
    BY <1>3 DEF Active
  <2>3. CTypes'
    <3>1. owed' \in Int
      BY <2>1
    <3>2. wide' \in BOOLEAN /\ mixed' \in BOOLEAN /\ tracing' \in {"before", "on", "removed"}
      BY <1>1, <2>1 DEF CTypes
    <3>. QED BY <2>1, <3>1, <3>2, <1>2 DEF CTypes
  <2>4. CallsAccounted'
    BY <2>1, <2>2 DEF CallsAccounted
  <2>. QED BY <2>1, <2>2, <2>3, <2>4, <1>2
<1>4. CASE ~Active
  <2>1. UNCHANGED <<wide, tracing, open, stopped, owed, mixed>>
    BY <1>4, CallUnseen
  <2>2. CTypes'
    BY <2>1, <1>1, <1>2 DEF CTypes
  <2>3. CallsAccounted' /\ Ordered(open)'
    BY <2>1 DEF CallsAccounted, Ordered, TracerInv
  <2>. QED BY <2>1, <2>2, <2>3, <1>2 DEF TracerInv
<1>. QED BY <1>3, <1>4

(* Putting a step's parts together.                                          *)
LEMMA Together ==
    ASSUME TracerInv, CTypes', Ordered(open)', mixed' = mixed, CallsAccounted', Marked',
           UNCHANGED <<wide, tracing>>, stopped => stopped', tracing = "before" => open' = <<>>,
           muddled => muddled',
           ~muddled' /\ tracing = "on" /\ ~stopped' =>
               CallersMatch(stack', open') /\ (~wide => CallsDone(stack', open'))
    PROVE  TracerInv'
<1>0. ~mixed
  BY DEF TracerInv
<1>1. ~mixed' /\ (tracing' = "before" => open' = <<>>)
  BY <1>0
<1>2. Matched'
  BY DEF Matched
<1>. QED BY <1>1, <1>2 DEF TracerInv

LEMMA NoneRuns ==
    ASSUME stack' = <<>>, ~wide => open' = <<>>
    PROVE  CallersMatch(stack', open') /\ (~wide => CallsDone(stack', open'))
BY DEF CallersMatch, CallsDone, NoneFrom

LEMMA EnteredMarked ==
    ASSUME Marked, stack # <<>>, stack \in Seq(Func), NEW f \in Func, NEW r \in Seq(Func),
           Len(r) = Len(stack), SameUpTo(stack, r, Len(stack)), stack' = Append(r, f),
           ~f.traced \/ IsCallback(f) => r[Len(stack)].left, trap' = NoTrap
    PROVE  Marked'
<1>a. PICK n : n = Len(stack)
  OBVIOUS
<1>0. /\ n \in Nat \ {0} /\ DOMAIN stack = 1 .. n
      /\ stack' \in Seq(Func) /\ Len(stack') = n + 1 /\ DOMAIN stack' = 1 .. n + 1
      /\ stack'[n + 1] = f /\ SameUpTo(stack, stack', n)
      /\ \A i \in 1 .. n : stack'[i] = r[i]
  BY <1>a, Pushed
<1>1. \A j \in 1 .. n : /\ stack'[j].traced = stack[j].traced /\ (stack[j].left => stack'[j].left)
                        /\ (IsCallback(stack'[j]) <=> IsCallback(stack[j]))
  BY <1>0 DEF SameUpTo, Same, IsCallback
<1>2. ASSUME NEW j \in 1 .. n, ~stack'[j + 1].traced \/ IsCallback(stack'[j + 1])
      PROVE  stack'[j].left
  <2>1. CASE j = n
    BY <2>1, <1>0, <1>2, <1>a
  <2>2. CASE j # n
    <3>1. j + 1 \in 1 .. n /\ j \in DOMAIN stack /\ j < Len(stack)
      BY <2>2, <1>0, <1>a
    <3>2. ~stack[j + 1].traced \/ IsCallback(stack[j + 1])
      BY <3>1, <1>1, <1>2
    <3>3. stack[j].left
      BY <3>1, <3>2 DEF Marked
    <3>. QED BY <3>3, <1>1
  <2>. QED BY <2>1, <2>2
<1>3. \A j \in DOMAIN stack' : j < Len(stack') => j \in 1 .. n
  BY <1>0
<1>. QED BY <1>2, <1>3 DEF Marked

(* Leaving functions keeps the marks of the others.                          *)
LEMMA CutMarked ==
    ASSUME Marked, stack \in Seq(Func), NEW d \in Nat, d <= Len(stack),
           stack' \in Seq(Func), Len(stack') = d, SameUpTo(stack, stack', d),
           trap' = NoTrap \/ (d > 0 /\ stack'[d].left)
    PROVE  Marked'
<1>1. /\ DOMAIN stack' = 1 .. d /\ DOMAIN stack = 1 .. Len(stack) /\ Len(stack) \in Nat
  OBVIOUS
<1>2. \A j \in 1 .. d : /\ stack'[j].traced = stack[j].traced /\ (stack[j].left => stack'[j].left)
                        /\ (IsCallback(stack'[j]) <=> IsCallback(stack[j]))
  BY DEF SameUpTo, Same, IsCallback
<1>3. ASSUME NEW j \in DOMAIN stack', j < Len(stack'),
             ~stack'[j + 1].traced \/ IsCallback(stack'[j + 1])
      PROVE  stack'[j].left
  <2>1. j \in 1 .. d /\ j + 1 \in 1 .. d /\ j \in DOMAIN stack /\ j < Len(stack)
    BY <1>1, <1>3
  <2>2. ~stack[j + 1].traced \/ IsCallback(stack[j + 1])
    BY <2>1, <1>2, <1>3
  <2>. QED BY <2>1, <2>2, <1>2 DEF Marked
<1>4. trap' # NoTrap => Top'.left
  BY DEF Top, Last
<1>. QED BY <1>3, <1>4 DEF Marked

LEMMA TracerRun ==
    ASSUME TracerInv, IterationsInv, NEW traced \in BOOLEAN, Run(traced), UNCHANGED tvars
    PROVE  TracerInv'
<1>1. stack = <<>> /\ UNCHANGED <<wide, tracing, open, stopped, owed, mixed, muddled>> /\ trap' = NoTrap
  BY DEF Run, tvars, IterationsInv, Placed
<1>2. Outermost \in Me
  BY DEF Outermost, Me
<1>3. stack' \in Seq(Func) /\ Len(stack') = 1 /\ DOMAIN stack' = 1 .. 1
  BY <1>2, FunctionType DEF Run
<1>4. CTypes' /\ Ordered(open)' /\ CallsAccounted'
  BY <1>1 DEF CTypes, Ordered, CallsAccounted, TracerInv
<1>5. Marked'
  BY <1>1, <1>3 DEF Marked
<1>6. ASSUME ~muddled, tracing = "on", ~stopped
      PROVE  CallersMatch(stack', open) /\ (~wide => CallsDone(stack', open))
  <2>1. ~wide => NoneFrom(open, 1)
    BY <1>1, <1>6 DEF TracerInv, Matched, CallsDone
  <2>2. NoneFrom(open, 1) => OnceFrom(open, 1)
    BY DEF NoneFrom, OnceFrom
  <2>3. CallersMatch(stack', open)
    BY <1>3 DEF CallersMatch
  <2>4. ASSUME ~wide PROVE CallsDone(stack', open)
    <3>1. \A j \in DOMAIN stack' : j = 1
      BY <1>3
    <3>. QED BY <2>1, <2>2, <2>4, <3>1 DEF CallsDone
  <2>. QED BY <2>3, <2>4
<1>7. tracing = "before" => open = <<>>
  BY DEF TracerInv
<1>. QED BY <1>1, <1>4, <1>5, <1>6, <1>7, Together

LEMMA TracerCall ==
    ASSUME TracerInv, IterationsInv, NEW traced \in BOOLEAN, Call(traced),
           AtCall(<<made + 1, 0, 0>>), AtAbort
    PROVE  TracerInv'
<1> DEFINE r == IF traced THEN stack ELSE Left(stack)
           me == <<made + 1, 0, 0>>
           f == Function(me, traced)
<1>0. stack \in Seq(Func) /\ stack # <<>> /\ trap' = NoTrap /\ me \in Me /\ stack' = Append(r, f)
  BY DEF IterationsInv, ITypes, Call, InGuest, Me
<1>1. f \in Func /\ ~IsCallback(f) /\ f.me = me /\ f.traced = traced
  BY <1>0, FunctionType
<1>2. r \in Seq(Func) /\ Len(r) = Len(stack) /\ SameUpTo(stack, r, Len(stack))
      /\ (~traced => r[Len(stack)].left)
  BY <1>0, LeftKeeps, SameRefl
<1>3. AtCall(me)
  OBVIOUS
<1> HIDE DEF r, f, me
<1>4. /\ CTypes' /\ Ordered(open)' /\ mixed' = mixed /\ CallsAccounted'
      /\ UNCHANGED <<wide, tracing>> /\ (stopped => stopped')
      /\ (tracing = "before" => open' = <<>>) /\ (muddled => muddled')
  BY <1>0, <1>3, OpensOrStays
<1>5. Marked'
  BY <1>0, <1>1, <1>2, EnteredMarked DEF TracerInv
<1>6. ASSUME ~muddled', tracing = "on", ~stopped'
      PROVE  CallersMatch(stack', open') /\ (~wide => CallsDone(stack', open'))
  <2>1. ~muddled /\ ~stopped
    BY <1>4, <1>6
  <2>2. CallersMatch(stack, open) /\ (~wide => CallsDone(stack, open))
    BY <2>1, <1>6 DEF TracerInv, Matched
  <2>3. (Active /\ AtCall(me) /\ (IsCallback(f) \/ f.me = me))
        \/ (UNCHANGED open /\ (IsCallback(f) \/ ~Top.traced))
    <3>1. CASE Active
      BY <3>1, <1>1, <1>3
    <3>2. CASE ~Active
      BY <3>2, <2>1, <1>3, <1>6, CallUnseen DEF Active
    <3>. QED BY <3>1, <3>2
  <2>4. CTypes /\ Ordered(open) /\ owed = Len(open)
    BY DEF TracerInv, CallsAccounted
  <2>. QED BY <1>0, <1>1, <1>2, <2>2, <2>3, <2>4, EnterMatched
<1>. QED BY <1>4, <1>5, <1>6, Together

LEMMA TracerBegin ==
    ASSUME TracerInv, IterationsInv, NEW k \in Kinds, NEW traced \in BOOLEAN, Begin(k, traced),
           AtCall(<<0, begun + 1, 0>>), AtAbort
    PROVE  TracerInv'
<1> DEFINE r == Left(stack)
           me == <<0, begun + 1, 0>>
           f == CallbackOf(k, New(k, traced))
<1>0. stack \in Seq(Func) /\ stack # <<>> /\ begun < MaxBegun /\ trap' = NoTrap /\ stack' = Append(r, f)
  BY DEF IterationsInv, ITypes, Begin, MayBegin, InGuest, Invoke
<1>1. f \in Func /\ IsCallback(f)
  BY <1>0, NewType, CallbackType DEF IterationsInv
<1>2. r \in Seq(Func) /\ Len(r) = Len(stack) /\ SameUpTo(stack, r, Len(stack)) /\ r[Len(stack)].left
  BY <1>0, LeftKeeps
<1>3. AtCall(me) /\ me \in Me
  BY DEF IterationsInv, ITypes, Me
<1> HIDE DEF r, f, me
<1>4. /\ CTypes' /\ Ordered(open)' /\ mixed' = mixed /\ CallsAccounted'
      /\ UNCHANGED <<wide, tracing>> /\ (stopped => stopped')
      /\ (tracing = "before" => open' = <<>>) /\ (muddled => muddled')
  BY <1>0, <1>3, OpensOrStays
<1>5. Marked'
  BY <1>0, <1>1, <1>2, EnteredMarked DEF TracerInv
<1>6. ASSUME ~muddled', tracing = "on", ~stopped'
      PROVE  CallersMatch(stack', open') /\ (~wide => CallsDone(stack', open'))
  <2>1. ~muddled /\ ~stopped
    BY <1>4, <1>6
  <2>2. CallersMatch(stack, open) /\ (~wide => CallsDone(stack, open))
    BY <2>1, <1>6 DEF TracerInv, Matched
  <2>3. (Active /\ AtCall(me) /\ (IsCallback(f) \/ f.me = me))
        \/ (UNCHANGED open /\ (IsCallback(f) \/ ~Top.traced))
    BY <1>1, <1>3, CallUnseen
  <2>4. CTypes /\ Ordered(open) /\ owed = Len(open)
    BY DEF TracerInv, CallsAccounted
  <2>. QED BY <1>0, <1>1, <1>2, <1>3, <2>2, <2>3, <2>4, EnterMatched
<1>. QED BY <1>4, <1>5, <1>6, Together

LEMMA TracerBeginFails ==
    ASSUME TracerInv, IterationsInv, NEW traced \in BOOLEAN, BeginFails(traced),
           AtCall(<<0, begun + 1, 0>>), AtAbort
    PROVE  TracerInv'
<1> DEFINE me == <<0, begun + 1, 0>>
<1>0. stack \in Seq(Func) /\ stack # <<>> /\ stack' = <<>> /\ trap' = NoTrap
  BY DEF IterationsInv, ITypes, BeginFails, MayBegin, InGuest, Abort
<1>3. AtCall(me) /\ me \in Me
  BY DEF IterationsInv, ITypes, Me
<1> HIDE DEF me
<1>4. /\ CTypes' /\ Ordered(open)' /\ mixed' = mixed /\ CallsAccounted'
      /\ UNCHANGED <<wide, tracing>> /\ (stopped => stopped')
      /\ (tracing = "before" => open' = <<>>) /\ (muddled => muddled')
      /\ (stack' = <<>> /\ ~wide /\ ~muddled' => open' = <<>>)
  BY <1>0, <1>3, OpensOrStays
<1>5. Marked'
  BY <1>0 DEF Marked
<1>6. ASSUME ~muddled'
      PROVE  CallersMatch(stack', open') /\ (~wide => CallsDone(stack', open'))
  BY <1>0, <1>4, <1>6, NoneRuns
<1>. QED BY <1>4, <1>5, <1>6, Together

LEMMA TracerLongJump ==
    ASSUME TracerInv, IterationsInv, NEW d \in 1 .. MaxDepth, LongJump(d),
           AtCall(<<made + 1, 0, 0>>), AtAbort
    PROVE  TracerInv'
<1> DEFINE me == <<made + 1, 0, 0>>
           s == SubSeq(stack, 1, d)
<1>0. /\ stack \in Seq(Func) /\ stack # <<>> /\ stack' = Left(s) /\ trap' = NoTrap
      /\ d \in Nat /\ d > 0 /\ d < Len(stack) /\ me \in Me /\ AtCall(me)
  BY IterationsAssumption DEF IterationsInv, ITypes, LongJump, InGuest, Me
<1> HIDE DEF me
<1>1. s \in Seq(Func) /\ Len(s) = d /\ s # <<>> /\ \A i \in 1 .. d : s[i] = stack[i]
  BY <1>0
<1> HIDE DEF s
<1>2. stack' \in Seq(Func) /\ Len(stack') = d /\ SameUpTo(s, stack', d)
  BY <1>0, <1>1, LeftKeeps
<1>3. SameUpTo(stack, stack', d)
  BY <1>1, <1>2 DEF SameUpTo, Same
<1>4. /\ CTypes' /\ Ordered(open)' /\ mixed' = mixed /\ CallsAccounted'
      /\ UNCHANGED <<wide, tracing>> /\ (stopped => stopped')
      /\ (tracing = "before" => open' = <<>>) /\ (muddled => muddled')
  BY <1>0, OpensOrStays
<1>5. Marked'
  BY <1>0, <1>2, <1>3, CutMarked DEF TracerInv
<1>6. ASSUME ~muddled', tracing = "on", ~stopped'
      PROVE  CallersMatch(stack', open') /\ (~wide => CallsDone(stack', open'))
  <2>1. ~muddled /\ ~stopped
    BY <1>4, <1>6
  <2>2. CallersMatch(stack, open) /\ (~wide => CallsDone(stack, open))
    BY <2>1, <1>6 DEF TracerInv, Matched
  <2>3. (Active /\ AtCall(me)) \/ UNCHANGED open
    BY <1>0, CallUnseen
  <2>4. CTypes /\ Ordered(open) /\ owed = Len(open)
    BY DEF TracerInv, CallsAccounted
  <2>5. stack' = Left(SubSeq(stack, 1, d))
    BY <1>0 DEF s
  <2>. QED BY <1>0, <2>2, <2>3, <2>4, <2>5, JumpMatched
<1>. QED BY <1>4, <1>5, <1>6, Together

LEMMA TracerReturn ==
    ASSUME TracerInv, IterationsInv, Return, AtReturn
    PROVE  TracerInv'
<1>a. PICK n : n = Len(stack)
  OBVIOUS
<1>0. /\ stack \in Seq(Func) /\ stack # <<>> /\ stack' = Front(stack) /\ trap = NoTrap
      /\ n \in Nat \ {0} /\ DOMAIN stack = 1 .. n /\ Top = stack[n]
  BY <1>a DEF IterationsInv, ITypes, Return, InGuest, Top, Last
<1>1. /\ stack' \in Seq(Func) /\ Len(stack') = n - 1 /\ n - 1 \in Nat
      /\ \A i \in 1 .. n - 1 : stack'[i] = stack[i]
  <2>1. /\ Front(stack) \in Seq(Func) /\ Len(Front(stack)) = n - 1
        /\ \A i \in 1 .. n - 1 : Front(stack)[i] = stack[i]
    BY <1>0, <1>a, FrontOf
  <2>. QED BY <2>1, <1>0
<1>2. CTypes /\ Ordered(open) /\ owed = Len(open) /\ Marked /\ ~mixed
  BY DEF TracerInv, CallsAccounted
<1>3. Marked'
  <2>1. SameUpTo(stack, stack', n - 1)
    BY <1>0, <1>1 DEF SameUpTo, Same
  <2>2. trap' = NoTrap \/ (n - 1 > 0 /\ stack'[n - 1].left)
    <3>1. CASE IsCallback(Top)
      <4>1. n > 1
        BY <3>1, <1>0 DEF IterationsInv, Placed
      <4>2. n - 1 \in 1 .. n - 1 /\ n - 1 \in DOMAIN stack /\ n - 1 + 1 = n /\ n - 1 < Len(stack)
        BY <4>1, <1>0, <1>a
      <4>3. IsCallback(stack[n - 1 + 1])
        BY <4>2, <3>1, <1>0
      <4>4. stack[n - 1].left
        BY <4>2, <4>3, <1>2 DEF Marked
      <4>. QED BY <4>1, <4>2, <4>4, <1>1
    <3>2. CASE ~IsCallback(Top)
      BY <3>2, <1>0 DEF Return
    <3>. QED BY <3>1, <3>2
  <2>3. n - 1 \in Nat /\ n - 1 <= Len(stack)
    BY <1>0, <1>a
  <2>. QED BY <2>1, <2>2, <2>3, <1>0, <1>1, <1>2, CutMarked
<1>4. CASE Active
  <2>1. PICK pops \in BOOLEAN, k \in Nat :
           /\ pops => ~wide
           /\ k = Kept(IF pops THEN Depth ELSE Depth - 1) /\ k <= Len(open)
           /\ open' \in Seq(Event) /\ Len(open') = (IF k = 0 THEN 0 ELSE k - 1)
           /\ \A i \in 1 .. Len(open') : open'[i] = open[i]
           /\ owed' = Len(open')
           /\ UNCHANGED <<wide, tracing>> /\ stopped' \in BOOLEAN /\ (stopped => stopped')
           /\ muddled' \in BOOLEAN /\ (muddled \/ Blurs(pops) => muddled')
           /\ mixed' \in BOOLEAN
           /\ (mixed' => mixed \/ (k > 0 /\ ~muddled' /\ open[k].call # Top.me))
    BY <1>0, <1>2, <1>4, ReturnCloses
  <2>2. tracing = "on" /\ ~stopped
    BY <1>4 DEF Active
  <2>3. ASSUME ~muddled'
        PROVE  /\ k > 0 => open[k].call = Top.me
               /\ CallersMatch(stack', open') /\ (~wide => CallsDone(stack', open'))
    <3>1. ~muddled /\ ~Blurs(pops)
      BY <2>1, <2>3
    <3>2. CallersMatch(stack, open) /\ (~wide => CallsDone(stack, open))
      BY <3>1, <2>2 DEF TracerInv, Matched
    <3>3. /\ pops => ~wide
          /\ k = Kept(IF pops THEN Depth ELSE Depth - 1) /\ k <= Len(open)
          /\ open' \in Seq(Event) /\ Len(open') = (IF k = 0 THEN 0 ELSE k - 1)
          /\ \A i \in 1 .. Len(open') : open'[i] = open[i]
      BY <2>1
    <3>. QED BY <1>0, <1>2, <1>4, <3>1, <3>2, <3>3, ReturnMatched
  <2>4. mixed' = mixed
    <3>1. ~mixed'
      BY <2>1, <2>3, <1>2
    <3>2. mixed' \in BOOLEAN /\ mixed \in BOOLEAN
      BY <2>1, <1>2 DEF CTypes
    <3>. QED BY <3>1, <3>2, <1>2
  <2>5. Ordered(open)'
    <3>1. Len(open') <= Len(open) /\ open \in Seq(Event)
      BY <2>1, <1>2 DEF CTypes
    <3>2. open' \in Seq(Event) /\ \A i \in 1 .. Len(open') : open'[i] = open[i]
      BY <2>1
    <3>. QED BY <3>1, <3>2, <1>2, CutOff
  <2>6. CTypes'
    <3>1. owed' \in Int /\ open' \in Seq(Event)
      BY <2>1
    <3>2. wide' \in BOOLEAN /\ tracing' \in {"before", "on", "removed"}
      BY <2>1, <1>2 DEF CTypes
    <3>3. stopped' \in BOOLEAN /\ mixed' \in BOOLEAN /\ muddled' \in BOOLEAN
      BY <2>1
    <3>. QED BY <3>1, <3>2, <3>3 DEF CTypes
  <2>7. CallsAccounted'
    BY <2>1, <2>2 DEF CallsAccounted
  <2>8. /\ UNCHANGED <<wide, tracing>> /\ (stopped => stopped') /\ (muddled => muddled')
        /\ (tracing = "before" => open' = <<>>)
    BY <2>1, <2>2
  <2>9. ~muddled' /\ tracing = "on" /\ ~stopped' =>
            CallersMatch(stack', open') /\ (~wide => CallsDone(stack', open'))
    BY <2>3
  <2>. QED BY <1>3, <2>4, <2>5, <2>6, <2>7, <2>8, <2>9, Together
<1>5. CASE ~Active
  <2>1. UNCHANGED <<wide, tracing, open, stopped, owed, mixed, muddled>>
    BY <1>5 DEF AtReturn, tvars
  <2>2. CTypes' /\ Ordered(open)' /\ CallsAccounted' /\ (tracing = "before" => open' = <<>>)
    BY <2>1 DEF TracerInv, CTypes, Ordered, CallsAccounted
  <2>3. ASSUME ~muddled, tracing = "on", ~stopped
        PROVE  CallersMatch(stack', open') /\ (~wide => CallsDone(stack', open'))
    <3>1. ~Top.traced
      BY <2>3, <1>5 DEF Active
    <3>2. CallersMatch(stack, open) /\ (~wide => CallsDone(stack, open))
      BY <2>3 DEF TracerInv, Matched
    <3>. QED BY <3>1, <3>2, <2>1, <1>0, <1>2, ReturnUnseen
  <2>. QED BY <2>1, <2>2, <2>3, <1>3, Together
<1>. QED BY <1>4, <1>5

(* Steps of the guest that the tracer does not see: a crash, and the trap.   *)
LEMMA TracerGoes ==
    ASSUME TracerInv, IterationsInv, Goes(Crash \/ Advance \/ End)
    PROVE  TracerInv'
<1>0. /\ Crash \/ Advance \/ End
      /\ UNCHANGED <<wide, tracing, open, stopped, owed, mixed>> /\ AtAbort
  BY DEF Goes
<1>1. muddled' \in BOOLEAN /\ (muddled => muddled')
      /\ (stack' = <<>> /\ ~wide /\ ~muddled' => open' = <<>>)
  BY DEF AtAbort, Goes, TracerInv, CTypes
<1>2. CTypes' /\ Ordered(open)' /\ CallsAccounted' /\ (tracing = "before" => open' = <<>>)
  BY <1>0, <1>1 DEF TracerInv, CTypes, Ordered, CallsAccounted
<1>3. CASE stack' = <<>> /\ trap' = NoTrap
  <2>1. Marked'
    BY <1>3 DEF Marked
  <2>2. ~muddled' => CallersMatch(stack', open') /\ (~wide => CallsDone(stack', open'))
    BY <1>1, <1>3, NoneRuns
  <2>. QED BY <2>1, <2>2, <1>0, <1>1, <1>2, Together
<1>4. CASE stack' = stack /\ trap' = NoTrap
  <2>1. Marked'
    BY <1>4 DEF TracerInv, Marked
  <2>2. ~muddled' /\ tracing = "on" /\ ~stopped' =>
            CallersMatch(stack', open') /\ (~wide => CallsDone(stack', open'))
    BY <1>0, <1>1, <1>4 DEF TracerInv, Matched
  <2>. QED BY <2>1, <2>2, <1>0, <1>1, <1>2, Together
<1>5. CASE Advance
  <2> DEFINE f == CallbackOf(trap.kind, Advanced(Current))
  <2>1. /\ trap # NoTrap /\ stack' = Append(stack, f) /\ trap' = NoTrap
        /\ stack # <<>> /\ stack \in Seq(Func) /\ trap.kind \in Kinds /\ Current \in Iteration
    BY <1>5, CurrentPlace DEF Advance, Invoke
  <2>2. Advanced(Current) \in Iteration
    <3>1. ASSUME NEW it \in Iteration PROVE Advanced(it) \in Iteration
      BY ONLY <3>1 DEF Advanced, Iteration
    <3>. QED BY <2>1, <3>1
  <2>3. f \in Func /\ IsCallback(f)
    BY <2>1, <2>2, CallbackType
  <2> HIDE DEF f
  <2>4. SameUpTo(stack, stack, Len(stack)) /\ stack[Len(stack)].left
    <3>1. Top.left
      BY <2>1 DEF TracerInv, Marked
    <3>2. Len(stack) \in 0 .. Len(stack)
      BY <2>1
    <3>. QED BY <3>1, <3>2, <2>1, SameRefl DEF Top, Last
  <2>5. Marked'
    BY <2>1, <2>3, <2>4, EnteredMarked DEF TracerInv
  <2>6. ASSUME ~muddled', tracing = "on", ~stopped'
        PROVE  CallersMatch(stack', open') /\ (~wide => CallsDone(stack', open'))
    <3>1. CallersMatch(stack, open) /\ (~wide => CallsDone(stack, open))
      BY <2>6, <1>0, <1>1 DEF TracerInv, Matched
    <3>2. CTypes /\ Ordered(open) /\ owed = Len(open) /\ UNCHANGED open
      BY <1>0 DEF TracerInv, CallsAccounted
    <3>3. <<0, 0, 0>> \in Me
      BY DEF Me
    <3>. QED BY <2>1, <2>3, <2>4, <3>1, <3>2, <3>3, EnterMatched
  <2>. QED BY <2>5, <2>6, <1>0, <1>1, <1>2, Together
<1>6. Crash \/ End => (stack' = <<>> \/ stack' = stack) /\ trap' = NoTrap
  BY DEF Crash, End, Abort
<1>. QED BY <1>0, <1>3, <1>4, <1>5, <1>6

(* Anything else that traced code executes.                                  *)
LEMMA TracerWork ==
    ASSUME TracerInv, IterationsInv, Work
    PROVE  TracerInv'
<1>a. PICK n : n = Len(stack)
  OBVIOUS
<1>b. PICK k : k = Kept(n)
  OBVIOUS
<1>0. /\ stack \in Seq(Func) /\ n \in Nat \ {0} /\ DOMAIN stack = 1 .. n /\ Depth = n
      /\ UNCHANGED <<stack, trap>> /\ UNCHANGED <<wide, tracing, mixed, muddled>>
      /\ CTypes /\ Ordered(open) /\ owed = Len(open) /\ open \in Seq(Event) /\ Len(open) \in Nat
      /\ tracing = "on" /\ ~stopped
  <2>1. stack \in Seq(Func) /\ stack # <<>>
    BY DEF Work, InGuest, IterationsInv, ITypes
  <2>2. n \in Nat \ {0} /\ DOMAIN stack = 1 .. n /\ Depth = n
    BY <2>1, <1>a DEF Depth
  <2>3. UNCHANGED <<stack, trap>> /\ UNCHANGED <<wide, tracing, mixed, muddled>>
    BY DEF Work, ivars
  <2>4. CTypes /\ Ordered(open) /\ owed = Len(open) /\ open \in Seq(Event) /\ Len(open) \in Nat
    BY DEF TracerInv, CTypes, CallsAccounted
  <2>5. tracing = "on" /\ ~stopped
    BY DEF Work, Active
  <2>. QED BY <2>1, <2>2, <2>3, <2>4, <2>5
<1>1. /\ k \in Nat /\ k <= Len(open) /\ \A i \in 1 .. Len(open) : i <= k <=> open[i].sp <= n
  BY <1>0, <1>b, KeptBounds
<1>2. /\ open' \in Seq(Event) /\ Len(open') = k /\ \A i \in 1 .. k : open'[i] = open[i]
      /\ owed' = k
  <2>1. open' = Remaining(n) /\ owed' = owed - Len(Evicted(n))
    BY <1>0 DEF Work
  <2>2. /\ Remaining(n) \in Seq(Event) /\ Len(Remaining(n)) = k
        /\ \A i \in 1 .. k : Remaining(n)[i] = open[i]
        /\ Len(Evicted(n)) = Len(open) - k
    BY <1>0, <1>b, RemainingIs
  <2>. QED BY <2>1, <2>2, <1>0, <1>1
<1>3. stopped' \in BOOLEAN
  BY <1>0 DEF Work, Emitting, CTypes
<1>4. /\ Ordered(open')
      /\ \A j \in Nat : NoneFrom(open, j) => NoneFrom(open', j)
      /\ \A j \in Nat : OnceFrom(open, j) => OnceFrom(open', j)
      /\ \A j \in Nat, i \in DOMAIN open' :
            Newest(open', i, j) /\ (Len(open') < Len(open) => open[Len(open') + 1].sp > j) =>
                i \in DOMAIN open /\ Newest(open, i, j) /\ open'[i] = open[i]
  BY <1>0, <1>1, <1>2, CutOff
<1>5. CTypes' /\ CallsAccounted'
  <2>1. owed' \in Int
    BY <1>1, <1>2
  <2>2. wide' \in BOOLEAN /\ mixed' \in BOOLEAN /\ muddled' \in BOOLEAN /\ tracing' \in {"before", "on", "removed"}
    BY <1>0 DEF CTypes
  <2>. QED BY <2>1, <2>2, <1>0, <1>2, <1>3 DEF CTypes, CallsAccounted
<1>6. Marked'
  BY <1>0 DEF TracerInv, Marked, Top
<1>7. ASSUME ~muddled
      PROVE  CallersMatch(stack', open') /\ (~wide => CallsDone(stack', open'))
  <2>0. CallersMatch(stack, open) /\ (~wide => CallsDone(stack, open))
    BY <1>0, <1>7 DEF TracerInv, Matched
  <2>1. CallersMatch(stack, open')
    <3> SUFFICES ASSUME NEW j \in DOMAIN stack, j < Len(stack), stack[j].traced, ~IsCallback(stack[j + 1]),
                        NEW i \in DOMAIN open', Newest(open', i, j)
                 PROVE  open'[i].sp = j /\ open'[i].call = stack[j + 1].me
      BY DEF CallersMatch
    <3>1. j \in Nat /\ j < n
      BY <1>0, <1>a
    <3>2. ASSUME Len(open') < Len(open) PROVE open[Len(open') + 1].sp > j
      <4>1. k + 1 \in 1 .. Len(open) /\ ~(k + 1 <= k)
        BY <3>2, <1>0, <1>1, <1>2
      <4>2. ~(open[k + 1].sp <= n) /\ open[k + 1].sp \in Nat
        BY <4>1, <1>0, <1>1, EventsOf
      <4>. QED BY <4>2, <3>1, <1>0, <1>2
    <3>3. i \in DOMAIN open /\ Newest(open, i, j) /\ open'[i] = open[i]
      BY <3>1, <3>2, <1>4
    <3>. QED BY <3>3, <2>0 DEF CallersMatch
  <2>2. ASSUME ~wide PROVE CallsDone(stack, open')
    <3>1. \A j \in DOMAIN stack : j \in Nat
      BY <1>0
    <3>. QED BY <2>0, <2>2, <3>1, <1>4 DEF CallsDone
  <2>. QED BY <2>1, <2>2, <1>0
<1>. QED BY <1>0, <1>4, <1>5, <1>6, <1>7, Together

LEMMA TracerTrace ==
    ASSUME TracerInv, IterationsInv, Trace
    PROVE  TracerInv'
<1>0. /\ tracing = "before" /\ tracing' = "on" /\ open = <<>> /\ UNCHANGED <<stack, trap>>
      /\ UNCHANGED <<wide, open, stopped, owed, mixed, muddled>>
  BY DEF Trace, TracerInv, ivars
<1>1. CTypes' /\ Ordered(open)' /\ CallsAccounted'
  BY <1>0 DEF TracerInv, CTypes, Ordered, CallsAccounted
<1>2. Marked'
  BY <1>0 DEF TracerInv, Marked, Top
<1>3. Matched'
  BY <1>0 DEF Matched, CallersMatch, CallsDone, NoneFrom, OnceFrom
<1>4. ~mixed'
  BY <1>0 DEF TracerInv
<1>. QED BY <1>0, <1>1, <1>2, <1>3, <1>4 DEF TracerInv

LEMMA TracerFlush ==
    ASSUME TracerInv, IterationsInv, Flush
    PROVE  TracerInv'
<1>0. /\ tracing' = "removed" /\ UNCHANGED <<stack, trap>> /\ UNCHANGED <<wide, mixed, muddled>>
      /\ stopped \/ stopped' \/ open' = <<>>
  BY DEF Flush, ivars
<1>1. PICK keep \in 0 .. Len(open) :
          /\ stopped => keep = Len(open)
          /\ open' = SubSeq(open, 1, keep)
          /\ owed' = owed - (Len(open) - keep)
          /\ IF keep = 0 THEN Emitting(Len(open)) ELSE stopped' = TRUE
  BY DEF Flush
<1>2. open \in Seq(Event) /\ Len(open) \in Nat /\ owed = Len(open) /\ Ordered(open) /\ stopped \in BOOLEAN
  BY DEF TracerInv, CTypes, CallsAccounted
<1>3. /\ open' \in Seq(Event) /\ Len(open') = keep /\ \A i \in 1 .. keep : open'[i] = open[i]
  <2>1. open' = [i \in 1 .. keep |-> open[i]]
    BY <1>1, <1>2
  <2>2. \A i \in 1 .. keep : open[i] \in Event
    BY <1>1, <1>2
  <2>3. open' \in [1 .. keep -> Event]
    BY <2>1, <2>2
  <2>. QED BY <2>1, <2>3, <1>1, <1>2
<1>4. owed' = Len(open') /\ owed' \in Int
  BY <1>1, <1>2, <1>3
<1>5. stopped' \in BOOLEAN /\ (stopped => stopped')
  BY <1>1, <1>2 DEF Emitting
<1>6. CTypes'
  <2>1. wide' \in BOOLEAN /\ mixed' \in BOOLEAN /\ muddled' \in BOOLEAN
    BY <1>0 DEF TracerInv, CTypes
  <2>. QED BY <2>1, <1>0, <1>3, <1>4, <1>5 DEF CTypes
<1>7. CallsAccounted'
  BY <1>0, <1>4, <1>5 DEF CallsAccounted
<1>8. Ordered(open)'
  <2>1. Len(open') <= Len(open)
    BY <1>1, <1>2, <1>3
  <2>2. open' \in Seq(Event) /\ \A i \in 1 .. Len(open') : open'[i] = open[i]
    BY <1>3
  <2>. QED BY <2>1, <2>2, <1>2, CutOff
<1>9. Marked'
  BY <1>0 DEF TracerInv, Marked, Top
<1>10. Matched' /\ (tracing = "before" => open = <<>>)'
  BY <1>0 DEF Matched
<1>11. ~mixed'
  BY <1>0 DEF TracerInv
<1>. QED BY <1>6, <1>7, <1>8, <1>9, <1>10, <1>11 DEF TracerInv

(* A report that raised: the list is cut off, and the account is kept.       *)
LEMMA ReportedCuts ==
    ASSUME CTypes, Ordered(open), owed = Len(open), NEW n \in 1 .. Len(open), Reported(n)
    PROVE  /\ open' \in Seq(Event) /\ Len(open') = Len(open) - n
           /\ \A i \in 1 .. Len(open') : open'[i] = open[i]
           /\ owed' = Len(open') /\ owed' \in Int /\ Ordered(open)'
<1>1. open \in Seq(Event) /\ Len(open) \in Nat
  BY DEF CTypes
<1>a. PICK keep : keep = Len(open) - n
  OBVIOUS
<1>2. keep \in 0 .. Len(open) /\ open' = SubSeq(open, 1, keep) /\ owed' = keep
  BY <1>1, <1>a DEF Reported
<1>3. /\ open' \in Seq(Event) /\ Len(open') = keep /\ \A i \in 1 .. keep : open'[i] = open[i]
  <2>1. open' = [i \in 1 .. keep |-> open[i]]
    BY <1>1, <1>2
  <2>2. \A i \in 1 .. keep : open[i] \in Event
    BY <1>1, <1>2
  <2>3. open' \in [1 .. keep -> Event]
    BY <2>1, <2>2
  <2>. QED BY <2>1, <2>3, <1>2
<1>4. Ordered(open)'
  <2>1. Len(open') <= Len(open) /\ \A i \in 1 .. Len(open') : open'[i] = open[i]
    BY <1>1, <1>2, <1>3
  <2>. QED BY <2>1, <1>1, <1>3, CutOff
<1>. QED BY <1>1, <1>a, <1>2, <1>3, <1>4

(* What it takes for a step in which a callback raised to be harmless.       *)
LEMMA RaisedTogether ==
    ASSUME TracerInv, NEW n \in 1 .. Len(open), Reported(n), tracing = "on",
           UNCHANGED <<wide, tracing>>, stopped' \in BOOLEAN, stopped => stopped',
           mixed' = mixed, muddled' \in BOOLEAN, muddled => muddled',
           Marked', ~muddled' => stack' = <<>> /\ (~wide => open' = <<>>)
    PROVE  TracerInv'
<1>1. CTypes /\ Ordered(open) /\ owed = Len(open)
  BY DEF TracerInv, CallsAccounted
<1>2. open' \in Seq(Event) /\ owed' = Len(open') /\ owed' \in Int /\ Ordered(open)'
  BY <1>1, ReportedCuts
<1>3. CTypes'
  <2>1. wide' \in BOOLEAN /\ mixed' \in BOOLEAN /\ tracing' \in {"before", "on", "removed"}
    BY <1>1 DEF CTypes
  <2>. QED BY <2>1, <1>2 DEF CTypes
<1>4. CallsAccounted'
  BY <1>2 DEF CallsAccounted
<1>5. ~muddled' => CallersMatch(stack', open') /\ (~wide => CallsDone(stack', open'))
  BY NoneRuns
<1>. QED BY <1>2, <1>3, <1>4, <1>5, Together

(* A callback raises in step().                                              *)
LEMMA TracerStepRaises ==
    ASSUME TracerInv, IterationsInv, StepRaises
    PROVE  TracerInv'
<1>0. /\ Active /\ tracing = "on" /\ ~stopped /\ UNCHANGED <<wide, tracing>>
      /\ stack' = <<>> /\ trap' = NoTrap /\ stack # <<>> /\ stack \in Seq(Func)
  BY DEF StepRaises, Active, Crash, Abort, InGuest, IterationsInv, ITypes
<1>1. CTypes /\ Ordered(open) /\ open \in Seq(Event) /\ Len(open) \in Nat /\ ~mixed
      /\ muddled \in BOOLEAN /\ stopped \in BOOLEAN
  BY DEF TracerInv, CTypes
<1>2. Marked'
  BY <1>0 DEF Marked
<1>3. Depth \in Nat \ {0}
  BY <1>0 DEF Depth
<1>4. CASE EvictionRaises
  <2>1. PICK n \in 1 .. Len(Evicted(Depth)) :
           Reported(n) /\ Emitting(n - 1) /\ AtAbort /\ UNCHANGED mixed
    BY <1>4 DEF EvictionRaises
  <2>2. Kept(Depth) \in Nat /\ Len(Evicted(Depth)) = Len(open) - Kept(Depth)
    BY <1>1, <1>3, KeptBounds, RemainingIs
  <2>3. n \in 1 .. Len(open)
    BY <2>2, <1>1
  <2>4. /\ stopped' \in BOOLEAN /\ (stopped => stopped')
    BY <2>1, <1>1 DEF Emitting
  <2>5. /\ muddled' \in BOOLEAN /\ (muddled => muddled')
        /\ ~muddled' => stack' = <<>> /\ (~wide => open' = <<>>)
    BY <2>1, <1>0, <1>1 DEF AtAbort
  <2>. QED BY <2>1, <2>3, <2>4, <2>5, <1>0, <1>2, RaisedTogether
<1>5. ASSUME NEW pops \in {FALSE} \cup {~wide}, CompletionRaises(pops)
      PROVE  TracerInv'
  <2>a. PICK sp : sp = ReturnSp(pops)
    OBVIOUS
  <2>b. PICK k : k = Kept(sp)
    OBVIOUS
  <2>0. /\ pops \in BOOLEAN /\ (pops => ~wide)
        /\ sp \in Nat /\ sp = IF pops THEN Depth ELSE Depth - 1
    <3>1. wide \in BOOLEAN
      BY <1>1 DEF CTypes
    <3>2. pops \in BOOLEAN /\ (pops => ~wide)
      BY <3>1
    <3>3. sp \in Nat /\ sp = IF pops THEN Depth ELSE Depth - 1
      BY <1>3, <2>a DEF ReturnSp
    <3>. QED BY <3>2, <3>3
  <2>1. PICK n \in 1 .. Len(Evicted(sp)) + Len(Completed(sp)) :
          /\ Reported(n) /\ Emitting(n - 1)
          /\ muddled' = (muddled \/ Blurs(pops) \/ (~wide /\ open' # <<>>))
          /\ mixed' = (mixed \/ (n = Len(Evicted(sp)) + Len(Completed(sp)) /\ ~muddled /\ ~Blurs(pops) /\
                                 \E event \in ToSet(Completed(sp)) : event.call # Top.me))
    BY <1>5, <2>a DEF CompletionRaises
  <2>2. /\ k \in Nat /\ k <= Len(open)
        /\ Remaining(sp) \in Seq(Event) /\ Len(Remaining(sp)) = k
        /\ \A i \in 1 .. k : Remaining(sp)[i] = open[i]
        /\ Len(Evicted(sp)) = Len(open) - k
    BY <1>1, <2>0, <2>b, KeptBounds, RemainingIs
  <2>3. /\ Len(Completed(sp)) = (IF k = 0 THEN 0 ELSE 1)
        /\ \A event \in ToSet(Completed(sp)) : k > 0 /\ event = open[k]
    <3>1. CASE k = 0
      <4>1. Completed(sp) = <<>>
        BY <2>2, <3>1 DEF Completed
      <4>2. Len(Completed(sp)) = 0 /\ ToSet(Completed(sp)) = {}
        BY <4>1 DEF ToSet
      <4>. QED BY <4>2, <3>1
    <3>2. CASE k # 0
      <4>1. Remaining(sp) # <<>> /\ k \in 1 .. k /\ k > 0
        BY <2>2, <3>2
      <4>2. Last(Remaining(sp)) = open[k]
        BY <4>1, <2>2 DEF Last
      <4>3. Completed(sp) = <<open[k]>>
        BY <4>1, <4>2 DEF Completed
      <4>4. Len(Completed(sp)) = 1 /\ ToSet(Completed(sp)) = {open[k]}
        BY <4>3 DEF ToSet
      <4>. QED BY <4>1, <4>4, <3>2
    <3>. QED BY <3>1, <3>2
  <2>4. n \in 1 .. Len(open)
    <3>1. n \in 1 .. Len(open) - k + (IF k = 0 THEN 0 ELSE 1)
      BY <2>1, <2>2, <2>3
    <3>. QED BY <3>1, <2>2, <1>1
  <2>5. ASSUME ~muddled, ~Blurs(pops), NEW event \in ToSet(Completed(sp))
        PROVE  event.call = Top.me
    <3>1. CallersMatch(stack, open) /\ (~wide => CallsDone(stack, open))
      BY <2>5, <1>0 DEF TracerInv, Matched
    <3>2. k = Kept(IF pops THEN Depth ELSE Depth - 1)
      BY <2>0, <2>b
    <3>3. k > 0 => open[k].call = Top.me
      BY <1>0, <1>1, <2>0, <2>2, <2>5, <3>1, <3>2, NewestIsOwn
    <3>. QED BY <3>3, <2>3
  <2>6. mixed' = mixed
    <3>1. ~(~muddled /\ ~Blurs(pops) /\ \E event \in ToSet(Completed(sp)) : event.call # Top.me)
      BY <2>5
    <3>2. mixed' = (mixed \/ (n = Len(Evicted(sp)) + Len(Completed(sp)) /\ ~muddled /\ ~Blurs(pops) /\
                              \E event \in ToSet(Completed(sp)) : event.call # Top.me))
      BY <2>1
    <3>3. ~mixed'
      BY <3>1, <3>2, <1>1
    <3>4. mixed' \in BOOLEAN
      BY <3>2
    <3>5. mixed \in BOOLEAN /\ ~mixed
      BY <1>1 DEF CTypes
    <3>. QED BY <3>3, <3>4, <3>5
  <2>7. /\ stopped' \in BOOLEAN /\ (stopped => stopped')
    BY <2>1, <1>1 DEF Emitting
  <2>8. /\ muddled' \in BOOLEAN /\ (muddled => muddled')
        /\ ~muddled' => stack' = <<>> /\ (~wide => open' = <<>>)
    BY <2>1, <1>0, <1>1
  <2>. QED BY <2>1, <2>4, <2>6, <2>7, <2>8, <1>0, <1>2, RaisedTogether
<1>. QED BY <1>4, <1>5 DEF StepRaises

(* A callback raises in flush(), in a run or outside one.                    *)
LEMMA TracerFlushRaises ==
    ASSUME TracerInv, IterationsInv, FlushRaises
    PROVE  TracerInv'
<1>0. /\ tracing = "on" /\ UNCHANGED <<wide, tracing, stopped, mixed>>
      /\ muddled' = (muddled \/ stack' # <<>> \/ (~wide /\ open' # <<>>))
  BY DEF FlushRaises
<1>1. muddled \in BOOLEAN /\ stopped \in BOOLEAN
  BY DEF TracerInv, CTypes
<1>2. Marked'
  <2>1. CASE Crash
    BY <2>1 DEF Crash, Abort, Marked
  <2>2. CASE UNCHANGED ivars
    BY <2>2 DEF ivars, TracerInv, Marked, Top
  <2>. QED BY <2>1, <2>2 DEF FlushRaises
<1>3. PICK n \in 1 .. Len(open) : Reported(n)
  BY DEF FlushRaises
<1>4. stopped' \in BOOLEAN /\ (stopped => stopped') /\ mixed' = mixed
  BY <1>0, <1>1
<1>5. /\ muddled' \in BOOLEAN /\ (muddled => muddled')
      /\ ~muddled' => stack' = <<>> /\ (~wide => open' = <<>>)
  BY <1>0, <1>1
<1>. QED BY <1>0, <1>2, <1>3, <1>4, <1>5, RaisedTogether

LEMMA InitTracer == CInit => TracerInv
<1> SUFFICES ASSUME CInit PROVE TracerInv
  OBVIOUS
<1>1. open = <<>> /\ stack = <<>> /\ trap = NoTrap /\ owed = 0 /\ tracing = "before" /\ ~mixed
  BY DEF CInit, IInit
<1>2. CTypes
  <2>1. open \in Seq(Event) /\ owed \in Int
    BY <1>1
  <2>. QED BY <2>1 DEF CInit, CTypes
<1>3. Marked /\ Ordered(open) /\ Matched
  BY <1>1 DEF Marked, Ordered, Matched
<1>4. CallsAccounted
  BY <1>1 DEF CallsAccounted
<1>. QED BY <1>1, <1>2, <1>3, <1>4 DEF TracerInv

LEMMA TracerInductive ==
    TracerInv /\ IterationsInv /\ [CNext]_cvars => TracerInv'
<1> SUFFICES ASSUME TracerInv, IterationsInv, [CNext]_cvars PROVE TracerInv'
  OBVIOUS
<1>1. CASE UNCHANGED cvars
  <2>1. UNCHANGED <<stack, trap, wide, tracing, open, stopped, owed, mixed, muddled>>
    BY <1>1 DEF cvars, ivars, tvars
  <2>2. CTypes' /\ Ordered(open)' /\ CallsAccounted'
    BY <2>1 DEF TracerInv, CTypes, Ordered, CallsAccounted
  <2>3. Marked' /\ Matched'
    BY <2>1 DEF TracerInv, Marked, Matched, Top
  <2>4. ~mixed'
    BY <2>1 DEF TracerInv
  <2>5. (tracing = "before" => open = <<>>)'
    BY <2>1 DEF TracerInv
  <2>. QED BY <2>2, <2>3, <2>4, <2>5 DEF TracerInv
<1>2. CASE CNext
  <2>1. ASSUME NEW traced \in BOOLEAN, Run(traced), UNCHANGED tvars PROVE TracerInv'
    BY <2>1, TracerRun
  <2>2. ASSUME NEW traced \in BOOLEAN, Call(traced), AtCall(<<made + 1, 0, 0>>), AtAbort PROVE TracerInv'
    BY <2>2, TracerCall
  <2>3. ASSUME NEW traced \in BOOLEAN, BeginFails(traced), AtCall(<<0, begun + 1, 0>>), AtAbort PROVE TracerInv'
    BY <2>3, TracerBeginFails
  <2>4. ASSUME NEW traced \in BOOLEAN, NEW k \in Kinds, Begin(k, traced), AtCall(<<0, begun + 1, 0>>), AtAbort
        PROVE TracerInv'
    BY <2>4, TracerBegin
  <2>5. ASSUME NEW d \in 1 .. MaxDepth, LongJump(d), AtCall(<<made + 1, 0, 0>>), AtAbort PROVE TracerInv'
    BY <2>5, TracerLongJump
  <2>. QED BY <1>2, <2>1, <2>2, <2>3, <2>4, <2>5, TracerReturn, TracerGoes, TracerWork, TracerTrace,
              TracerFlush, TracerStepRaises, TracerFlushRaises DEF CNext
<1>. QED BY <1>1, <1>2

(* The iterations keep apart, too, while they are traced.                    *)
LEMMA TracedIterations == CSpec => []IterationsInv
<1>1. CInit => IterationsInv
  BY InitIterations DEF CInit
<1>2. IterationsInv /\ [CNext]_cvars => IterationsInv'
  BY IterationsInductive, TracerStepsIterations
<1>. QED BY <1>1, <1>2, PTL DEF CSpec

THEOREM TracedIterationsApart == CSpec => []IterationsApart
<1>1. IterationsInv => IterationsApart
  BY IterationsInvApart
<1>. QED BY <1>1, TracedIterations, PTL

LEMMA TracerInvAlways == CSpec => []TracerInv
<1>1. CInit => TracerInv
  BY InitTracer
<1>2. TracerInv /\ IterationsInv /\ [CNext]_cvars => TracerInv'
  BY TracerInductive
<1>. QED BY <1>1, <1>2, TracedIterations, PTL DEF CSpec

(* Every traced call is open, or was reported once, or was pushed out by the *)
(* limit, for every limit on open calls.                                     *)
THEOREM CallsAccountedAlways == CSpec => []CallsAccounted
<1>1. TracerInv => CallsAccounted
  BY DEF TracerInv
<1>. QED BY <1>1, TracerInvAlways, PTL

(* A report never carries the return value of another call, under the same   *)
(* exceptions as the model-checked property: see Blurs.                      *)
THEOREM ValuesMatchAlways == CSpec => []ValuesMatch
<1>1. TracerInv => ValuesMatch
  BY DEF TracerInv, ValuesMatch
<1>. QED BY <1>1, TracerInvAlways, PTL
=============================================================================
