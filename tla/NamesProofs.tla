----------------------------- MODULE NamesProofs ------------------------------
(***************************************************************************)
(* The files that names stand for, and the functions that imports stand for.*)
(*                                                                         *)
(* For every finite set of paths, however they lie below one another, any  *)
(* host files and any number of descriptors: handles and names share their *)
(* buffers, deleted files stay gone, and a call changes one file.          *)
(*                                                                         *)
(* For every set of libraries, every file system and every history of      *)
(* loads, failures and starts: imports are settled when a load returns,    *)
(* and libraries are started once, complete and in order.                  *)
(***************************************************************************)
EXTENDS VfsNames, Linking, SequenceTheorems, FiniteSetTheorems, WellFoundedInduction, TLAPS

(***************************************************************************)
(* The overlay and the rootfs.                                             *)
(***************************************************************************)
Entry == [buffer : Buffer \cup {0}, writable : BOOLEAN, at : Name \cup {Nothing}]

(* Each name in the overlay has a buffer of its own.                         *)
Overlaid(o) ==
    /\ DOMAIN o \subseteq Name /\ \A n \in DOMAIN o : o[n] \in Buffer
    /\ \A m, n \in DOMAIN o : o[m] = o[n] => m = n

(* A handle has the buffer of the name it is found under, and of no other.   *)
Follows(o, h) ==
    /\ h.at # Nothing => h.at \in DOMAIN o
    /\ \A n \in DOMAIN o : o[n] = h.buffer <=> h.at = n

Held(o, handles) ==
    /\ DOMAIN handles \subseteq Fd
    /\ \A fd \in DOMAIN handles : handles[fd] \in Entry /\ Follows(o, handles[fd])

(* Whatever is gone is marked, and not in the overlay.                       *)
Marked(o, deleted, files) == files \subseteq deleted /\ files \cap DOMAIN o = {}

Tree(s) ==
    /\ s = [overlay |-> s.overlay, made |-> s.made, deleted |-> s.deleted]
    /\ Overlaid(s.overlay)

NamesInv ==
    /\ Tree(names) /\ Held(names.overlay, open)
    /\ contents \in [Buffer -> Content]
    /\ Marked(names.overlay, names.deleted, gone)

-----------------------------------------------------------------------------
LEMMA NamesInitially == Init => NamesInv
<1>. SUFFICES ASSUME Init PROVE NamesInv
  OBVIOUS
<1>1. /\ DOMAIN names.overlay = {} /\ DOMAIN open = {} /\ gone = {} /\ names.deleted = {}
      /\ names = [overlay |-> names.overlay, made |-> names.made, deleted |-> names.deleted]
  BY DEF Init
<1>2. contents \in [Buffer -> Content]
  BY DEF Init, Content
<1>3. Overlaid(names.overlay) /\ Held(names.overlay, open)
  BY <1>1 DEF Overlaid, Held
<1>. QED BY <1>1, <1>2, <1>3 DEF NamesInv, Tree, Marked

LEMMA LeastNumber ==
    ASSUME NEW S \in SUBSET Nat, S # {}
    PROVE  \E x \in S : \A y \in S : x <= y
<1>1. PICK x \in S : \A y \in S : ~(<<y, x>> \in OpToRel(<, Nat))
  BY NatLessThanWellFounded, WFMin
<1>2. \A y \in S : ~(y < x)
  BY <1>1 DEF OpToRel
<1>. QED BY <1>2

LEMMA ImageSmall ==
    ASSUME NEW S, IsFiniteSet(S), NEW f
    PROVE  IsFiniteSet({f[x] : x \in S}) /\ Cardinality({f[x] : x \in S}) <= Cardinality(S)
<1> DEFINE T == {f[x] : x \in S}
           g == [x \in S |-> f[x]]
<1>1. g \in Surjection(S, T)
  BY DEF Surjection
<1>. QED BY <1>1, FS_Surjection

(* There are more buffers than names and descriptors.                        *)
LEMMA FreshIsFree ==
    ASSUME NamesInv
    PROVE  Fresh \in Buffer /\ Fresh \notin Buffers(names, open)
<1>a. PICK o : o = names.overlay
  OBVIOUS
<1>b. PICK f : f = [fd \in DOMAIN open |-> open[fd].buffer]
  OBVIOUS
<1>c. PICK card \in Nat : card = Cardinality(Name)
  BY VfsNamesAssumption, FS_CardinalityType
<1>1. DOMAIN o \subseteq Name /\ DOMAIN open \subseteq Fd
  BY <1>a DEF NamesInv, Tree, Overlaid, Held
<1>2. /\ IsFiniteSet({o[n] : n \in DOMAIN o}) /\ Cardinality({o[n] : n \in DOMAIN o}) <= card
      /\ Cardinality({o[n] : n \in DOMAIN o}) \in Nat
  <2>1. IsFiniteSet(DOMAIN o) /\ Cardinality(DOMAIN o) <= card /\ Cardinality(DOMAIN o) \in Nat
    BY <1>1, <1>c, VfsNamesAssumption, FS_Subset, FS_CardinalityType
  <2>2. /\ IsFiniteSet({o[n] : n \in DOMAIN o})
        /\ Cardinality({o[n] : n \in DOMAIN o}) <= Cardinality(DOMAIN o)
    BY <2>1, ImageSmall
  <2>3. Cardinality({o[n] : n \in DOMAIN o}) \in Nat
    BY <2>2, FS_CardinalityType
  <2>. QED BY <2>1, <2>2, <2>3
<1>3. /\ IsFiniteSet({f[n] : n \in DOMAIN open}) /\ Cardinality({f[n] : n \in DOMAIN open}) <= MaxFd
      /\ Cardinality({f[n] : n \in DOMAIN open}) \in Nat
  <2>0. IsFiniteSet(Fd) /\ Cardinality(Fd) = MaxFd
    BY VfsNamesAssumption, FS_Interval DEF Fd
  <2>1. IsFiniteSet(DOMAIN open) /\ Cardinality(DOMAIN open) <= MaxFd /\ Cardinality(DOMAIN open) \in Nat
    BY <1>1, <2>0, FS_Subset, FS_CardinalityType
  <2>2. /\ IsFiniteSet({f[n] : n \in DOMAIN open})
        /\ Cardinality({f[n] : n \in DOMAIN open}) <= Cardinality(DOMAIN open)
    BY <2>1, ImageSmall
  <2>3. Cardinality({f[n] : n \in DOMAIN open}) \in Nat
    BY <2>2, FS_CardinalityType
  <2>. QED BY <2>1, <2>2, <2>3, VfsNamesAssumption
<1>d. PICK A : A = {o[n] : n \in DOMAIN o}
  OBVIOUS
<1>e. PICK B : B = {f[n] : n \in DOMAIN open}
  OBVIOUS
<1>4. Buffers(names, open) = A \cup B
  BY <1>a, <1>b, <1>d, <1>e DEF Buffers, Range
<1>5. IsFiniteSet(A \cup B) /\ Cardinality(A \cup B) <= card + MaxFd /\ Cardinality(A \cup B) \in Nat
  <2>1. /\ IsFiniteSet(A) /\ IsFiniteSet(B) /\ Cardinality(A) \in Nat /\ Cardinality(B) \in Nat
        /\ Cardinality(A) <= card /\ Cardinality(B) <= MaxFd
    BY <1>2, <1>3, <1>d, <1>e
  <2>2. IsFiniteSet(A \cup B) /\ Cardinality(A \cup B) = Cardinality(A) + Cardinality(B) - Cardinality(A \cap B)
    BY <2>1, FS_Union
  <2>3. Cardinality(A \cap B) \in Nat
    BY <2>1, FS_Subset, FS_CardinalityType
  <2>4. Cardinality(A \cup B) \in Nat
    BY <2>2, FS_CardinalityType
  <2>. QED BY <2>1, <2>2, <2>3, <2>4, VfsNamesAssumption
<1>6. Cardinality(Buffer) = card + MaxFd + 1
  BY <1>c, VfsNamesAssumption, FS_Interval DEF Buffer
<1>7. ~(Buffer \subseteq A \cup B)
  <2>. SUFFICES ASSUME Buffer \subseteq A \cup B PROVE FALSE
    OBVIOUS
  <2>1. Cardinality(Buffer) <= Cardinality(A \cup B)
    BY <1>5, FS_Subset
  <2>. QED BY <1>5, <1>6, <2>1, VfsNamesAssumption
<1>8. \E b \in Buffer : b \notin Buffers(names, open)
  BY <1>4, <1>7
<1>. QED BY <1>8 DEF Fresh

(* So no name and no handle has it.                                          *)
LEMMA FreshIsNew ==
    ASSUME NamesInv
    PROVE  /\ Fresh \in Buffer
           /\ \A n \in DOMAIN names.overlay : names.overlay[n] # Fresh
           /\ \A fd \in DOMAIN open : open[fd].buffer # Fresh
BY FreshIsFree DEF Buffers, Range

-----------------------------------------------------------------------------
(* The calls, by what they do to the overlay and to the handles.             *)

LEMMA InstalledHeld ==
    ASSUME NEW o, Held(o, open), CanInstall, NEW h \in Entry, Follows(o, h)
    PROVE  Held(o, Installed(h))
<1>1. \E fd \in Fd \ DOMAIN open : \A lower \in 1 .. fd - 1 : lower \in DOMAIN open
  <2>1. Fd \ DOMAIN open \in SUBSET Nat /\ Fd \ DOMAIN open # {}
    <3>1. DOMAIN open \subseteq Fd /\ Fd # DOMAIN open
      BY DEF CanInstall, Held
    <3>2. Fd \subseteq Nat
      BY VfsNamesAssumption DEF Fd
    <3>. QED BY <3>1, <3>2
  <2>2. PICK fd \in Fd \ DOMAIN open : \A x \in Fd \ DOMAIN open : fd <= x
    BY <2>1, LeastNumber
  <2>3. \A lower \in 1 .. fd - 1 : lower \in Fd /\ ~(fd <= lower)
    BY VfsNamesAssumption DEF Fd
  <2>. QED BY <2>2, <2>3
<1>2. PICK fd \in Fd : Installed(h) = With(open, fd, h)
  BY <1>1 DEF Installed
<1>3. PICK w : w = With(open, fd, h)
  OBVIOUS
<1>4. DOMAIN w = DOMAIN open \cup {fd} /\ w[fd] = h /\ \A x \in DOMAIN open : x # fd => w[x] = open[x]
  BY <1>3 DEF With
<1>5. Held(o, w)
  BY <1>4 DEF Held
<1>. QED BY <1>2, <1>3, <1>5

LEMMA AddedHeld ==
    ASSUME NamesInv, NEW n \in Name, n \notin DOMAIN names.overlay
    PROVE  /\ Overlaid(With(names.overlay, n, Fresh)) /\ Held(With(names.overlay, n, Fresh), open)
           /\ \A writable \in BOOLEAN :
                 Follows(With(names.overlay, n, Fresh), Handle(Fresh, writable, n))
<1>a. PICK o : o = names.overlay
  OBVIOUS
<1>b. PICK b : b = Fresh
  OBVIOUS
<1>c. PICK w : w = With(o, n, b)
  OBVIOUS
<1>1. /\ Overlaid(o) /\ Held(o, open) /\ n \notin DOMAIN o
      /\ b \in Buffer /\ (\A m \in DOMAIN o : o[m] # b) /\ (\A fd \in DOMAIN open : open[fd].buffer # b)
  BY <1>a, <1>b, FreshIsNew DEF NamesInv, Tree
<1>2. DOMAIN w = DOMAIN o \cup {n} /\ w[n] = b /\ \A z \in DOMAIN o : w[z] = o[z]
  <2>1. DOMAIN w = DOMAIN o \cup {n} /\ w[n] = b /\ \A z \in DOMAIN o : z # n => w[z] = o[z]
    BY <1>c DEF With
  <2>. QED BY <1>1, <2>1
<1>3. Overlaid(w)
  BY <1>1, <1>2 DEF Overlaid
<1>4. Held(w, open)
  <2>. SUFFICES ASSUME NEW fd \in DOMAIN open PROVE Follows(w, open[fd])
    BY <1>1 DEF Held
  <2>1. Follows(o, open[fd]) /\ open[fd].buffer # b
    BY <1>1 DEF Held
  <2>2. open[fd].at # n
    BY <1>1, <2>1, VfsNamesAssumption DEF Follows
  <2>. QED BY <1>2, <2>1, <2>2 DEF Follows
<1>5. \A writable \in BOOLEAN : Follows(w, Handle(b, writable, n))
  BY <1>1, <1>2 DEF Follows, Handle
<1>. QED BY <1>3, <1>4, <1>5, <1>a, <1>b, <1>c

(* The handles of a file that is moved, or loses its name.                   *)
LEMMA MovedFacts ==
    ASSUME NamesInv, NEW old \in Name, NEW new \in Name \cup {Nothing}
    PROVE  /\ DOMAIN Moved(old, new) = DOMAIN open /\ DOMAIN open \subseteq Fd
           /\ \A fd \in DOMAIN open :
                 /\ Moved(old, new)[fd] \in Entry
                 /\ Moved(old, new)[fd].buffer = open[fd].buffer
                 /\ Moved(old, new)[fd].at = IF open[fd].at = old THEN new
                                            ELSE IF open[fd].at = new THEN Nothing ELSE open[fd].at
                 /\ Follows(names.overlay, open[fd])
<1>1. DOMAIN Moved(old, new) = DOMAIN open /\ DOMAIN open \subseteq Fd
  BY DEF Moved, NamesInv, Held
<1>2. ASSUME NEW fd \in DOMAIN open
      PROVE  /\ Moved(old, new)[fd] \in Entry
             /\ Moved(old, new)[fd].buffer = open[fd].buffer
             /\ Moved(old, new)[fd].at = IF open[fd].at = old THEN new
                                        ELSE IF open[fd].at = new THEN Nothing ELSE open[fd].at
             /\ Follows(names.overlay, open[fd])
  <2>a. PICK h : h = open[fd]
    OBVIOUS
  <2>b. PICK at : at = IF h.at = old THEN new ELSE IF h.at = new THEN Nothing ELSE h.at
    OBVIOUS
  <2>1. h \in Entry /\ Follows(names.overlay, h)
    BY <2>a DEF NamesInv, Held
  <2>2. at \in Name \cup {Nothing}
    BY <2>1, <2>b DEF Entry
  <2>3. Moved(old, new)[fd] = [h EXCEPT !.at = at]
    BY <2>a, <2>b DEF Moved
  <2>. QED BY <2>1, <2>2, <2>3, <2>a, <2>b DEF Entry
<1>. QED BY <1>1, <1>2

LEMMA RemovedHeld ==
    ASSUME NamesInv, NEW n \in Name
    PROVE  /\ Overlaid(Without(names.overlay, n))
           /\ Held(Without(names.overlay, n), Moved(n, Nothing))
<1>a. PICK o : o = names.overlay
  OBVIOUS
<1>b. PICK w : w = Without(o, n)
  OBVIOUS
<1>c. PICK h : h = Moved(n, Nothing)
  OBVIOUS
<1>1. Overlaid(o)
  BY <1>a DEF NamesInv, Tree
<1>2. DOMAIN w = DOMAIN o \ {n} /\ \A z \in DOMAIN w : w[z] = o[z]
  BY <1>b DEF Without, Restrict
<1>3. Overlaid(w)
  BY <1>1, <1>2 DEF Overlaid
<1>4. Held(w, h)
  <2>1. DOMAIN h = DOMAIN open /\ DOMAIN open \subseteq Fd
    BY <1>c, MovedFacts
  <2>2. ASSUME NEW fd \in DOMAIN h
        PROVE  h[fd] \in Entry /\ Follows(w, h[fd])
    <3>1. /\ h[fd] \in Entry /\ h[fd].buffer = open[fd].buffer /\ Follows(o, open[fd])
          /\ h[fd].at = IF open[fd].at = n THEN Nothing
                       ELSE IF open[fd].at = Nothing THEN Nothing ELSE open[fd].at
      BY <1>a, <1>c, <2>1, <2>2, MovedFacts
    <3>2. Nothing \notin DOMAIN o
      BY <1>1, VfsNamesAssumption DEF Overlaid
    <3>. QED BY <1>2, <3>1, <3>2 DEF Follows
  <2>. QED BY <2>1, <2>2 DEF Held
<1>. QED BY <1>3, <1>4, <1>a, <1>b, <1>c

LEMMA ReplacedHeld ==
    ASSUME NamesInv, NEW n \in Name
    PROVE  /\ Overlaid(With(names.overlay, n, Fresh))
           /\ Held(With(names.overlay, n, Fresh), Moved(n, Nothing))
<1>a. PICK o : o = names.overlay
  OBVIOUS
<1>b. PICK b : b = Fresh
  OBVIOUS
<1>c. PICK h : h = Moved(n, Nothing)
  OBVIOUS
<1>d. PICK w : w = With(o, n, b)
  OBVIOUS
<1>1. /\ Overlaid(o) /\ b \in Buffer /\ (\A m \in DOMAIN o : o[m] # b)
      /\ (\A fd \in DOMAIN open : open[fd].buffer # b)
  BY <1>a, <1>b, FreshIsNew DEF NamesInv, Tree
<1>2. DOMAIN w = DOMAIN o \cup {n} /\ w[n] = b /\ \A z \in DOMAIN o : z # n => w[z] = o[z]
  BY <1>d DEF With
<1>3. Overlaid(w)
  BY <1>1, <1>2 DEF Overlaid
<1>4. Held(w, h)
  <2>1. DOMAIN h = DOMAIN open /\ DOMAIN open \subseteq Fd
    BY <1>c, MovedFacts
  <2>2. ASSUME NEW fd \in DOMAIN h
        PROVE  h[fd] \in Entry /\ Follows(w, h[fd])
    <3>1. /\ h[fd] \in Entry /\ h[fd].buffer = open[fd].buffer /\ Follows(o, open[fd])
          /\ h[fd].at = IF open[fd].at = n THEN Nothing
                       ELSE IF open[fd].at = Nothing THEN Nothing ELSE open[fd].at
      BY <1>a, <1>c, <2>1, <2>2, MovedFacts
    <3>2. Nothing \notin DOMAIN w /\ open[fd].buffer # b
      BY <1>1, <1>3, <2>1, VfsNamesAssumption DEF Overlaid
    <3>. QED BY <1>2, <3>1, <3>2 DEF Follows
  <2>. QED BY <2>1, <2>2 DEF Held
<1>. QED BY <1>3, <1>4, <1>a, <1>b, <1>c, <1>d

(* The new name gets the buffer of the old one, or a new copy of it.         *)
LEMMA RenamedHeld ==
    ASSUME NamesInv, NEW old \in Name, NEW new \in Name, NEW b,
           \/ old \in DOMAIN names.overlay /\ b = names.overlay[old]
           \/ old \notin DOMAIN names.overlay /\ b = Fresh
    PROVE  /\ Overlaid(With(Without(names.overlay, old), new, b))
           /\ Held(With(Without(names.overlay, old), new, b), Moved(old, new))
<1>a. PICK o : o = names.overlay
  OBVIOUS
<1>b. PICK v : v = Without(o, old)
  OBVIOUS
<1>c. PICK h : h = Moved(old, new)
  OBVIOUS
<1>d. PICK w : w = With(v, new, b)
  OBVIOUS
<1>1. /\ Overlaid(o) /\ b \in Buffer /\ (\A m \in DOMAIN o : m # old => o[m] # b)
      /\ (\A fd \in DOMAIN open : open[fd].buffer = b <=> open[fd].at = old)
  <2>1. Overlaid(o) /\ \A fd \in DOMAIN open : Follows(o, open[fd])
    BY <1>a DEF NamesInv, Tree, Held
  <2>2. CASE old \in DOMAIN o /\ b = o[old]
    BY <2>1, <2>2 DEF Overlaid, Follows
  <2>3. CASE old \notin DOMAIN o /\ b = Fresh
    <3>1. /\ b \in Buffer /\ (\A m \in DOMAIN o : o[m] # b)
          /\ (\A fd \in DOMAIN open : open[fd].buffer # b)
      BY <1>a, <2>3, FreshIsNew
    <3>2. \A fd \in DOMAIN open : open[fd].at # old
      BY <2>1, <2>3, VfsNamesAssumption DEF Follows
    <3>. QED BY <2>1, <3>1, <3>2
  <2>. QED BY <1>a, <2>2, <2>3
<1>2. DOMAIN v = DOMAIN o \ {old} /\ \A z \in DOMAIN v : v[z] = o[z]
  BY <1>b DEF Without, Restrict
<1>3. DOMAIN w = DOMAIN v \cup {new} /\ w[new] = b /\ \A z \in DOMAIN v : z # new => w[z] = v[z]
  BY <1>d DEF With
<1>4. /\ DOMAIN w = (DOMAIN o \ {old}) \cup {new} /\ w[new] = b
      /\ \A z \in DOMAIN w : z # new => z \in DOMAIN o /\ z # old /\ w[z] = o[z]
  BY <1>2, <1>3
<1>5. Overlaid(w)
  <2>1. DOMAIN w \subseteq Name /\ \A n \in DOMAIN w : w[n] \in Buffer
    BY <1>1, <1>4 DEF Overlaid
  <2>2. ASSUME NEW m \in DOMAIN w, NEW n \in DOMAIN w, w[m] = w[n]
        PROVE  m = n
    BY <1>1, <1>4, <2>2 DEF Overlaid
  <2>. QED BY <2>1, <2>2 DEF Overlaid
<1>6. Held(w, h)
  <2>1. DOMAIN h = DOMAIN open /\ DOMAIN open \subseteq Fd
    BY <1>c, MovedFacts
  <2>2. ASSUME NEW fd \in DOMAIN h
        PROVE  h[fd] \in Entry /\ Follows(w, h[fd])
    <3>1. /\ h[fd] \in Entry /\ h[fd].buffer = open[fd].buffer /\ Follows(o, open[fd])
          /\ h[fd].at = IF open[fd].at = old THEN new
                       ELSE IF open[fd].at = new THEN Nothing ELSE open[fd].at
      BY <1>a, <1>c, <2>1, <2>2, MovedFacts
    <3>2. open[fd].buffer = b <=> open[fd].at = old
      BY <1>1, <2>1, <2>2
    <3>3. h[fd].at # Nothing => h[fd].at \in DOMAIN w
      BY <1>4, <3>1, VfsNamesAssumption DEF Follows
    <3>4. ASSUME NEW n \in DOMAIN w
          PROVE  w[n] = h[fd].buffer <=> h[fd].at = n
      <4>0. n # Nothing /\ new # Nothing
        BY <1>5, VfsNamesAssumption DEF Overlaid
      <4>1. CASE n = new
        BY <1>4, <3>1, <3>2, <4>0, <4>1
      <4>2. CASE n # new
        <5>1. n \in DOMAIN o /\ n # old /\ w[n] = o[n] /\ (o[n] = open[fd].buffer <=> open[fd].at = n)
          BY <1>4, <3>1, <4>2 DEF Follows
        <5>. QED BY <3>1, <4>0, <4>2, <5>1
      <4>. QED BY <4>1, <4>2
    <3>. QED BY <3>1, <3>3, <3>4 DEF Follows
  <2>. QED BY <2>1, <2>2 DEF Held
<1>. QED BY <1>5, <1>6, <1>a, <1>b, <1>c, <1>d

-----------------------------------------------------------------------------
(* The steps.  Of every name but the one a call is about, each keeps         *)
Kept(m) ==
    /\ m \in DOMAIN names'.overlay <=> m \in DOMAIN names.overlay
    /\ m \in DOMAIN names.overlay => contents'[names'.overlay[m]] = contents[names.overlay[m]]
    /\ (m \in names'.made <=> m \in names.made) /\ (m \in names'.deleted <=> m \in names.deleted)

LEMMA Becoming ==
    ASSUME NamesInv, NEW s, NEW h, NEW b, NEW c \in Content, Become(s, h, b, c),
           Tree(s), Held(s.overlay, h), Marked(s.overlay, s.deleted, gone')
    PROVE  /\ NamesInv' /\ names' = s /\ open' = h
           /\ \A m \in DOMAIN s.overlay :
                 contents'[s.overlay[m]] = IF s.overlay[m] = b THEN c ELSE contents[s.overlay[m]]
<1>a. PICK used : used = Buffers(s, h)
  OBVIOUS
<1>1. names' = s /\ open' = h
  BY DEF Become
<1>2. contents' = [a \in Buffer |-> IF a \notin used THEN Empty ELSE IF a = b THEN c ELSE contents[a]]
  BY <1>a DEF Become
<1>3. contents' \in [Buffer -> Content]
  <2>1. contents \in [Buffer -> Content] /\ Empty \in Content
    BY DEF NamesInv, Content
  <2>. QED BY <1>2, <2>1
<1>4. \A m \in DOMAIN s.overlay : s.overlay[m] \in Buffer /\ s.overlay[m] \in used
  BY <1>a DEF Tree, Overlaid, Buffers, Range
<1>5. NamesInv'
  BY <1>1, <1>3 DEF NamesInv
<1>. QED BY <1>1, <1>2, <1>4, <1>5

LEMMA CreatedFacts ==
    ASSUME NamesInv, NEW n \in Name, NEW f
    PROVE  /\ Tree(Created(n, f)) /\ Created(n, f).overlay = names.overlay
           /\ Created(n, f).made = names.made
           /\ Created(n, f).deleted = IF f.creat THEN names.deleted \ {n} ELSE names.deleted
<1>1. CASE f.creat
  <2>a. PICK d : d = names.deleted \ {n}
    OBVIOUS
  <2>1. Created(n, f) = [overlay |-> names.overlay, made |-> names.made, deleted |-> d]
    BY <1>1, <2>a DEF Created, NamesInv, Tree
  <2>. QED BY <1>1, <2>a, <2>1 DEF Tree, NamesInv
<1>2. CASE ~f.creat
  BY <1>2 DEF Created, NamesInv
<1>. QED BY <1>1, <1>2

(* Where the overlay is what it was, and no contents change.                 *)
LEMMA SameOverlay ==
    ASSUME NamesInv, NEW s, Tree(s), s.overlay = names.overlay,
           NEW h, Held(names.overlay, h), Become(s, h, 0, Empty), Marked(s.overlay, s.deleted, gone')
    PROVE  /\ NamesInv' /\ names' = s
           /\ \A m \in DOMAIN names.overlay : contents'[names.overlay[m]] = contents[names.overlay[m]]
<1>1. Empty \in Content
  BY DEF Content
<1>2. /\ NamesInv' /\ names' = s
      /\ \A m \in DOMAIN s.overlay :
            contents'[s.overlay[m]] = IF s.overlay[m] = 0 THEN Empty ELSE contents[s.overlay[m]]
  BY <1>1, Becoming
<1>3. \A m \in DOMAIN s.overlay : s.overlay[m] # 0
  <2>1. 0 \notin Buffer
    BY DEF Buffer
  <2>. QED BY <2>1 DEF Tree, Overlaid
<1>. QED BY <1>2, <1>3

LEMMA OpenDirectoryKeeps ==
    ASSUME NamesInv, NEW n \in Name, NEW f, OpenDirectory(n, f)
    PROVE  NamesInv' /\ \A m \in Name \ {n} : Kept(m)
<1>a. PICK s : s = Created(n, f)
  OBVIOUS
<1>b. PICK h : h = IF IsDir(s, n) THEN Installed(Directory) ELSE open
  OBVIOUS
<1>1. /\ Tree(s) /\ s.overlay = names.overlay /\ s.made = names.made
      /\ s.deleted = IF f.creat THEN names.deleted \ {n} ELSE names.deleted
  BY <1>a, CreatedFacts
<1>2. Become(s, h, 0, Empty) /\ gone' = (IF f.creat THEN gone \ {n} ELSE gone) /\ CanInstall
  BY <1>a, <1>b DEF OpenDirectory, Creates
<1>3. Held(names.overlay, h)
  <2>1. Directory \in Entry /\ Follows(names.overlay, Directory)
    <3>1. Directory.buffer = 0 /\ Directory.at = Nothing /\ Directory \in Entry
      BY DEF Directory, Handle, Entry
    <3>2. \A m \in DOMAIN names.overlay : names.overlay[m] # 0 /\ m # Nothing
      BY VfsNamesAssumption DEF NamesInv, Tree, Overlaid, Buffer
    <3>. QED BY <3>1, <3>2 DEF Follows
  <2>2. Held(names.overlay, open)
    BY DEF NamesInv
  <2>. QED BY <1>2, <1>b, <2>1, <2>2, InstalledHeld
<1>4. Marked(s.overlay, s.deleted, gone')
  BY <1>1, <1>2 DEF NamesInv, Marked
<1>5. /\ NamesInv' /\ names' = s
      /\ \A m \in DOMAIN names.overlay : contents'[names.overlay[m]] = contents[names.overlay[m]]
  BY <1>1, <1>2, <1>3, <1>4, SameOverlay
<1>. QED BY <1>1, <1>5 DEF Kept

LEMMA OpenOverlayKeeps ==
    ASSUME NamesInv, NEW n \in Name, NEW f, f.writable \in BOOLEAN, OpenOverlay(n, f)
    PROVE  NamesInv' /\ \A m \in Name \ {n} : Kept(m)
<1>a. PICK s : s = Created(n, f)
  OBVIOUS
<1>b. PICK b : b = names.overlay[n]
  OBVIOUS
<1>c. PICK x : x = Handle(b, f.writable, n)
  OBVIOUS
<1>d. PICK h : h = Installed(x)
  OBVIOUS
<1>e. PICK c : c = IF f.writable /\ f.trunc THEN Empty ELSE contents[b]
  OBVIOUS
<1>1. /\ Tree(s) /\ s.overlay = names.overlay /\ s.made = names.made
      /\ s.deleted = IF f.creat THEN names.deleted \ {n} ELSE names.deleted
  BY <1>a, CreatedFacts
<1>2. /\ Become(s, h, b, c) /\ gone' = (IF f.creat THEN gone \ {n} ELSE gone)
      /\ CanInstall /\ n \in DOMAIN names.overlay
  BY <1>a, <1>b, <1>c, <1>d, <1>e DEF OpenOverlay, AsFile, Creates
<1>3. b \in Buffer /\ \A m \in DOMAIN names.overlay : names.overlay[m] = b <=> m = n
  BY <1>b, <1>2 DEF NamesInv, Tree, Overlaid
<1>4. c \in Content
  BY <1>e, <1>3 DEF NamesInv, Content
<1>5. Held(names.overlay, h)
  <2>1. x.buffer = b /\ x.at = n /\ x \in Entry
    BY <1>c, <1>3 DEF Handle, Entry
  <2>2. Follows(names.overlay, x)
    BY <1>2, <1>3, <2>1 DEF Follows
  <2>3. Held(names.overlay, open)
    BY DEF NamesInv
  <2>. QED BY <1>2, <1>d, <2>1, <2>2, <2>3, InstalledHeld
<1>6. Marked(s.overlay, s.deleted, gone')
  BY <1>1, <1>2 DEF NamesInv, Marked
<1>7. /\ NamesInv' /\ names' = s
      /\ \A m \in DOMAIN s.overlay :
            contents'[s.overlay[m]] = IF s.overlay[m] = b THEN c ELSE contents[s.overlay[m]]
  BY <1>1, <1>2, <1>4, <1>5, <1>6, Becoming
<1>. QED BY <1>1, <1>3, <1>7 DEF Kept

LEMMA PromoteFacts ==
    ASSUME NEW s, Tree(s), NEW n, NEW b, Overlaid(With(s.overlay, n, b))
    PROVE  /\ Tree(Promote(s, n, b)) /\ Promote(s, n, b).overlay = With(s.overlay, n, b)
           /\ Promote(s, n, b).made = s.made /\ Promote(s, n, b).deleted = s.deleted
<1>a. PICK w : w = With(s.overlay, n, b)
  OBVIOUS
<1>1. Promote(s, n, b) = [overlay |-> w, made |-> s.made, deleted |-> s.deleted]
  BY <1>a DEF Promote, Tree
<1>. QED BY <1>a, <1>1 DEF Tree

(* A file is put under a name; other names keep theirs.                      *)
LEMMA PutKeeps ==
    ASSUME NamesInv, NEW n \in Name, NEW s, Tree(s),
           DOMAIN s.overlay = DOMAIN names.overlay \cup {n}, s.overlay[n] = Fresh,
           \A m \in DOMAIN names.overlay : m # n => s.overlay[m] = names.overlay[m],
           s.made = names.made, \A m \in Name \ {n} : m \in s.deleted <=> m \in names.deleted,
           NEW h, Held(s.overlay, h), NEW c \in Content, Become(s, h, Fresh, c),
           Marked(s.overlay, s.deleted, gone')
    PROVE  NamesInv' /\ \A m \in Name \ {n} : Kept(m)
<1>a. PICK b : b = Fresh
  OBVIOUS
<1>1. \A m \in DOMAIN names.overlay : names.overlay[m] # b
  BY <1>a, FreshIsNew
<1>2. /\ NamesInv' /\ names' = s
      /\ \A m \in DOMAIN s.overlay :
            contents'[s.overlay[m]] = IF s.overlay[m] = b THEN c ELSE contents[s.overlay[m]]
  BY <1>a, Becoming
<1>. QED BY <1>1, <1>2 DEF Kept

LEMMA OpenPutsKeeps ==
    ASSUME NamesInv, NEW n \in Name, NEW f, NEW writable \in BOOLEAN, NEW c \in Content,
           n \notin DOMAIN names.overlay, CanInstall, Creates(n, f),
           f.creat \/ n \notin names.deleted,
           Become(Promote(Created(n, f), n, Fresh), Installed(Handle(Fresh, writable, n)), Fresh, c)
    PROVE  NamesInv' /\ \A m \in Name \ {n} : Kept(m)
<1>a. PICK t : t = Created(n, f)
  OBVIOUS
<1>b. PICK b : b = Fresh
  OBVIOUS
<1>c. PICK s : s = Promote(t, n, b)
  OBVIOUS
<1>d. PICK w : w = With(names.overlay, n, b)
  OBVIOUS
<1>e. PICK x : x = Handle(b, writable, n)
  OBVIOUS
<1>f. PICK h : h = Installed(x)
  OBVIOUS
<1>1. /\ Tree(t) /\ t.overlay = names.overlay /\ t.made = names.made
      /\ t.deleted = IF f.creat THEN names.deleted \ {n} ELSE names.deleted
  BY <1>a, CreatedFacts
<1>2. Overlaid(w) /\ Held(w, open) /\ Follows(w, x)
  BY <1>b, <1>d, <1>e, AddedHeld
<1>3. Tree(s) /\ s.overlay = w /\ s.made = t.made /\ s.deleted = t.deleted
  BY <1>1, <1>2, <1>c, <1>d, PromoteFacts
<1>4. b \in Buffer
  BY <1>b, FreshIsNew
<1>5. x \in Entry
  BY <1>4, <1>e DEF Handle, Entry
<1>6. Held(w, h)
  BY <1>2, <1>5, <1>f, InstalledHeld
<1>7. DOMAIN w = DOMAIN names.overlay \cup {n} /\ w[n] = b
      /\ \A m \in DOMAIN names.overlay : m # n => w[m] = names.overlay[m]
  BY <1>d DEF With
<1>8. gone' = (IF f.creat THEN gone \ {n} ELSE gone)
  BY DEF Creates
<1>9. Marked(s.overlay, s.deleted, gone')
  BY <1>1, <1>3, <1>7, <1>8 DEF NamesInv, Marked
<1>10. Become(s, h, b, c)
  BY <1>a, <1>b, <1>c, <1>e, <1>f
<1>11. \A m \in Name \ {n} : m \in s.deleted <=> m \in names.deleted
  BY <1>1, <1>3
<1>. QED BY <1>1, <1>3, <1>6, <1>7, <1>9, <1>10, <1>11, <1>b, PutKeeps

LEMMA OpenHostToReadKeeps ==
    ASSUME NamesInv, NEW n \in Name, NEW f, OpenHostToRead(n, f)
    PROVE  NamesInv' /\ \A m \in Name \ {n} : Kept(m)
<1>a. PICK s : s = Created(n, f)
  OBVIOUS
<1>b. PICK b : b = Fresh
  OBVIOUS
<1>c. PICK x : x = Handle(b, FALSE, Nothing)
  OBVIOUS
<1>d. PICK h : h = Installed(x)
  OBVIOUS
<1>1. /\ Tree(s) /\ s.overlay = names.overlay /\ s.made = names.made
      /\ s.deleted = IF f.creat THEN names.deleted \ {n} ELSE names.deleted
  BY <1>a, CreatedFacts
<1>2. /\ Become(s, h, b, n) /\ gone' = (IF f.creat THEN gone \ {n} ELSE gone)
      /\ CanInstall /\ n \in HostFiles
  BY <1>a, <1>b, <1>c, <1>d DEF OpenHostToRead, AsFile, Creates, HostFile
<1>3. b \in Buffer /\ \A m \in DOMAIN names.overlay : names.overlay[m] # b
  BY <1>b, FreshIsNew
<1>4. n \in Content
  BY <1>2 DEF Content
<1>5. Held(names.overlay, h)
  <2>1. x.buffer = b /\ x.at = Nothing /\ x \in Entry
    BY <1>c, <1>3 DEF Handle, Entry
  <2>2. Follows(names.overlay, x)
    BY <1>3, <2>1, VfsNamesAssumption DEF Follows, NamesInv, Tree, Overlaid
  <2>3. Held(names.overlay, open)
    BY DEF NamesInv
  <2>. QED BY <1>2, <1>d, <2>1, <2>2, <2>3, InstalledHeld
<1>6. Marked(s.overlay, s.deleted, gone')
  BY <1>1, <1>2 DEF NamesInv, Marked
<1>7. /\ NamesInv' /\ names' = s
      /\ \A m \in DOMAIN s.overlay :
            contents'[s.overlay[m]] = IF s.overlay[m] = b THEN n ELSE contents[s.overlay[m]]
  BY <1>1, <1>2, <1>4, <1>5, <1>6, Becoming
<1>. QED BY <1>1, <1>3, <1>7 DEF Kept

LEMMA UnlinkKeeps ==
    ASSUME NamesInv, NEW n \in Name, Unlink(n)
    PROVE  NamesInv' /\ \A m \in Name \ {n} : Kept(m)
<1>a. PICK w : w = Without(names.overlay, n)
  OBVIOUS
<1>b. PICK h : h = Moved(n, Nothing)
  OBVIOUS
<1>c. PICK s : s = [overlay |-> w, made |-> names.made \ {n}, deleted |-> names.deleted \cup {n}]
  OBVIOUS
<1>1. Become(s, h, 0, Empty) /\ gone' = gone \cup {n}
  BY <1>a, <1>b, <1>c DEF Unlink, Removed
<1>2. Overlaid(w) /\ Held(w, h)
  BY <1>a, <1>b, RemovedHeld
<1>3. /\ s.overlay = w /\ s.made = names.made \ {n} /\ s.deleted = names.deleted \cup {n}
      /\ Tree(s)
  BY <1>2, <1>c DEF Tree
<1>4. DOMAIN w = DOMAIN names.overlay \ {n} /\ \A m \in DOMAIN w : w[m] = names.overlay[m] /\ w[m] # 0
  <2>1. DOMAIN w = DOMAIN names.overlay \ {n} /\ \A m \in DOMAIN w : w[m] = names.overlay[m]
    BY <1>a DEF Without, Restrict
  <2>2. \A m \in DOMAIN w : w[m] # 0
    BY <1>2 DEF Overlaid, Buffer
  <2>. QED BY <2>1, <2>2
<1>5. Marked(s.overlay, s.deleted, gone')
  BY <1>1, <1>3, <1>4 DEF NamesInv, Marked
<1>6. Empty \in Content
  BY DEF Content
<1>7. /\ NamesInv' /\ names' = s
      /\ \A m \in DOMAIN s.overlay :
            contents'[s.overlay[m]] = IF s.overlay[m] = 0 THEN Empty ELSE contents[s.overlay[m]]
  BY <1>1, <1>2, <1>3, <1>5, <1>6, Becoming
<1>. QED BY <1>3, <1>4, <1>7 DEF Kept

LEMMA MkdirKeeps ==
    ASSUME NamesInv, NEW n \in Name, Mkdir(n)
    PROVE  NamesInv' /\ \A m \in Name \ {n} : Kept(m)
<1>a. PICK s : s = [overlay |-> names.overlay, made |-> names.made \cup {n}, deleted |-> names.deleted]
  OBVIOUS
<1>1. Become(s, open, 0, Empty) /\ gone' = gone
  BY <1>a DEF Mkdir, NamesInv, Tree
<1>2. /\ s.overlay = names.overlay /\ s.made = names.made \cup {n} /\ s.deleted = names.deleted
      /\ Tree(s)
  BY <1>a DEF Tree, NamesInv
<1>3. Held(names.overlay, open) /\ Marked(s.overlay, s.deleted, gone')
  BY <1>1, <1>2 DEF NamesInv
<1>4. /\ NamesInv' /\ names' = s
      /\ \A m \in DOMAIN names.overlay : contents'[names.overlay[m]] = contents[names.overlay[m]]
  BY <1>1, <1>2, <1>3, SameOverlay
<1>. QED BY <1>2, <1>4 DEF Kept

LEMMA AddFileKeeps ==
    ASSUME NamesInv, NEW n \in Name, NEW c \in Data \cup {Empty}, AddFile(n, c)
    PROVE  NamesInv' /\ \A m \in Name \ {n} : Kept(m)
<1>b. PICK b : b = Fresh
  OBVIOUS
<1>c. PICK s : s = Promote(names, n, b)
  OBVIOUS
<1>d. PICK w : w = With(names.overlay, n, b)
  OBVIOUS
<1>e. PICK h : h = Moved(n, Nothing)
  OBVIOUS
<1>1. Become(s, h, b, c) /\ gone' = gone \ {n} /\ c \in Content
  BY <1>b, <1>c, <1>e DEF AddFile, Content
<1>2. Overlaid(w) /\ Held(w, h)
  BY <1>b, <1>d, <1>e, ReplacedHeld
<1>3. Tree(s) /\ s.overlay = w /\ s.made = names.made /\ s.deleted = names.deleted
  <2>1. Tree(names)
    BY DEF NamesInv
  <2>. QED BY <1>2, <1>c, <1>d, <2>1, PromoteFacts
<1>4. DOMAIN w = DOMAIN names.overlay \cup {n} /\ w[n] = b
      /\ \A m \in DOMAIN names.overlay : m # n => w[m] = names.overlay[m]
  BY <1>d DEF With
<1>5. Marked(s.overlay, s.deleted, gone')
  BY <1>1, <1>3, <1>4 DEF NamesInv, Marked
<1>6. Held(s.overlay, h) /\ \A m \in Name \ {n} : m \in s.deleted <=> m \in names.deleted
  BY <1>2, <1>3
<1>7. /\ DOMAIN s.overlay = DOMAIN names.overlay \cup {n} /\ s.overlay[n] = Fresh
      /\ \A m \in DOMAIN names.overlay : m # n => s.overlay[m] = names.overlay[m]
  BY <1>3, <1>4, <1>b
<1>8. Become(s, h, Fresh, c) /\ c \in Content /\ s.made = names.made /\ Tree(s)
  BY <1>1, <1>3, <1>b
<1>. QED BY ONLY NamesInv, n \in Name, <1>5, <1>6, <1>7, <1>8, PutKeeps

LEMMA TruncateKeeps ==
    ASSUME NamesInv, NEW n \in Name, NEW c \in Data \cup {Empty}, Truncate(n, c)
    PROVE  NamesInv' /\ \A m \in Name \ {n} : Kept(m)
<1>0. c \in Content /\ gone' = gone /\ Tree(names) /\ Held(names.overlay, open)
      /\ Marked(names.overlay, names.deleted, gone')
  BY DEF Truncate, Content, NamesInv
<1>1. CASE n \in DOMAIN names.overlay /\ Become(names, open, names.overlay[n], c)
  <2>a. PICK b : b = names.overlay[n]
    OBVIOUS
  <2>1. Become(names, open, b, c)
    BY <1>1, <2>a
  <2>2. /\ NamesInv' /\ names' = names
        /\ \A m \in DOMAIN names.overlay :
              contents'[names.overlay[m]] = IF names.overlay[m] = b THEN c ELSE contents[names.overlay[m]]
    BY <1>0, <2>1, Becoming
  <2>3. \A m \in DOMAIN names.overlay : m # n => names.overlay[m] # b
    BY <1>1, <2>a DEF NamesInv, Tree, Overlaid
  <2>. QED BY <2>2, <2>3 DEF Kept
<1>2. CASE n \notin DOMAIN names.overlay /\ HostFile(names, n) /\ Become(Promote(names, n, Fresh), open, Fresh, c)
  <2>b. PICK b : b = Fresh
    OBVIOUS
  <2>c. PICK s : s = Promote(names, n, b)
    OBVIOUS
  <2>d. PICK w : w = With(names.overlay, n, b)
    OBVIOUS
  <2>1. Become(s, open, b, c)
    BY <1>2, <2>b, <2>c
  <2>2. Overlaid(w) /\ Held(w, open)
    BY <1>2, <2>b, <2>d, AddedHeld
  <2>3. Tree(s) /\ s.overlay = w /\ s.made = names.made /\ s.deleted = names.deleted
    BY <1>0, <2>2, <2>c, <2>d, PromoteFacts
  <2>4. DOMAIN w = DOMAIN names.overlay \cup {n} /\ w[n] = b
        /\ \A m \in DOMAIN names.overlay : m # n => w[m] = names.overlay[m]
    BY <2>d DEF With
  <2>5. n \notin gone
    BY <1>2 DEF HostFile, NamesInv, Marked
  <2>6. Marked(s.overlay, s.deleted, gone')
    BY <1>0, <2>3, <2>4, <2>5 DEF Marked
  <2>. QED BY <1>0, <2>1, <2>2, <2>3, <2>4, <2>6, <2>b, PutKeeps
<1>. QED BY <1>1, <1>2 DEF Truncate

LEMMA CloseKeeps ==
    ASSUME NamesInv, NEW fd \in Fd, Close(fd)
    PROVE  NamesInv' /\ \A m \in Name : Kept(m)
<1>a. PICK h : h = Without(open, fd)
  OBVIOUS
<1>0. /\ gone' = gone /\ Tree(names) /\ Held(names.overlay, open)
      /\ Marked(names.overlay, names.deleted, gone') /\ Become(names, h, 0, Empty)
  BY <1>a DEF Close, NamesInv
<1>1. DOMAIN h = DOMAIN open \ {fd} /\ \A x \in DOMAIN h : h[x] = open[x]
  BY <1>a DEF Without, Restrict
<1>2. Held(names.overlay, h)
  BY <1>0, <1>1 DEF Held
<1>3. /\ NamesInv' /\ names' = names
      /\ \A m \in DOMAIN names.overlay : contents'[names.overlay[m]] = contents[names.overlay[m]]
  BY <1>0, <1>2, SameOverlay
<1>. QED BY <1>3 DEF Kept

(* A handle writes to the name it is found under, if there is one.           *)
LEMMA WriteKeeps ==
    ASSUME NamesInv, NEW fd \in Fd, NEW c \in Data \cup {Empty}, Write(fd, c)
    PROVE  NamesInv' /\ \E n \in Name \cup {Nothing} : \A m \in Name \ {n} : Kept(m)
<1>a. PICK b : b = open[fd].buffer
  OBVIOUS
<1>b. PICK n : n = open[fd].at
  OBVIOUS
<1>0. /\ gone' = gone /\ Tree(names) /\ Held(names.overlay, open) /\ c \in Content
      /\ Marked(names.overlay, names.deleted, gone') /\ Become(names, open, b, c)
      /\ open[fd] \in Entry /\ Follows(names.overlay, open[fd])
  BY <1>a DEF Write, NamesInv, Content, Held
<1>1. n \in Name \cup {Nothing} /\ \A m \in DOMAIN names.overlay : names.overlay[m] = b <=> n = m
  BY <1>0, <1>a, <1>b DEF Follows, Entry
<1>2. /\ NamesInv' /\ names' = names
      /\ \A m \in DOMAIN names.overlay :
            contents'[names.overlay[m]] = IF names.overlay[m] = b THEN c ELSE contents[names.overlay[m]]
  BY <1>0, Becoming
<1>3. \A m \in Name \ {n} : Kept(m)
  BY <1>1, <1>2 DEF Kept
<1>. QED BY <1>1, <1>2, <1>3

LEMMA RenameKeeps ==
    ASSUME NamesInv, NEW old \in Name, NEW new \in Name, Rename(old, new)
    PROVE  /\ NamesInv' /\ \A m \in Name \ {old, new} : Kept(m)
           /\ new \in DOMAIN names'.overlay
           /\ IF old \in DOMAIN names.overlay
              THEN contents'[names'.overlay[new]] = contents[names.overlay[old]]
              ELSE HostFile(names, old) /\ contents'[names'.overlay[new]] = old
           /\ old # new => old \notin DOMAIN names'.overlay /\ old \in names'.deleted
<1>a. PICK b : b = IF old \in DOMAIN names.overlay THEN names.overlay[old] ELSE Fresh
  OBVIOUS
<1>b. PICK c : c = IF old \in DOMAIN names.overlay THEN contents[names.overlay[old]] ELSE old
  OBVIOUS
<1>c. PICK v : v = Without(names.overlay, old)
  OBVIOUS
<1>d. PICK w : w = With(v, new, b)
  OBVIOUS
<1>e. PICK d : d = (names.deleted \cup {old}) \ {new}
  OBVIOUS
<1>f. PICK h : h = Moved(old, new)
  OBVIOUS
<1>g. PICK s : s = [overlay |-> w, made |-> names.made, deleted |-> d]
  OBVIOUS
<1>0. names = [overlay |-> names.overlay, made |-> names.made, deleted |-> names.deleted]
      /\ Overlaid(names.overlay)
  BY DEF NamesInv, Tree
<1>1. Renamed(names, old, new, b) = s
  <2>1. Renamed(names, old, new, b) = [names EXCEPT !.overlay = w, !.deleted = d]
    BY <1>c, <1>d, <1>e DEF Renamed
  <2>. QED BY ONLY <2>1, <1>0, <1>g
<1>2. Become(s, h, b, c) /\ gone' = (gone \cup {old}) \ {new}
  BY <1>1, <1>a, <1>b, <1>f DEF Rename
<1>3. old \notin DOMAIN names.overlay => HostFile(names, old)
  BY DEF Rename
<1>4. Overlaid(w) /\ Held(w, h)
  BY <1>a, <1>c, <1>d, <1>f, RenamedHeld
<1>5. s.overlay = w /\ s.made = names.made /\ s.deleted = d /\ Tree(s)
  BY <1>4, <1>g DEF Tree
<1>6. /\ DOMAIN w = (DOMAIN names.overlay \ {old}) \cup {new} /\ w[new] = b
      /\ \A m \in DOMAIN names.overlay : m # old /\ m # new => w[m] = names.overlay[m]
  <2>1. DOMAIN v = DOMAIN names.overlay \ {old} /\ \A m \in DOMAIN v : v[m] = names.overlay[m]
    BY <1>c DEF Without, Restrict
  <2>2. DOMAIN w = DOMAIN v \cup {new} /\ w[new] = b /\ \A m \in DOMAIN v : m # new => w[m] = v[m]
    BY <1>d DEF With
  <2>. QED BY <2>1, <2>2
<1>7. \A m \in DOMAIN names.overlay : m # old => names.overlay[m] # b
  <2>1. CASE old \in DOMAIN names.overlay
    BY <1>0, <1>a, <2>1 DEF Overlaid
  <2>2. CASE old \notin DOMAIN names.overlay
    BY <1>a, <2>2, FreshIsNew
  <2>. QED BY <2>1, <2>2
<1>8. c \in Content
  <2>1. CASE old \in DOMAIN names.overlay
    BY <1>0, <1>b, <2>1 DEF NamesInv, Overlaid
  <2>2. CASE old \notin DOMAIN names.overlay
    BY <1>3, <1>b, <2>2 DEF HostFile, Content
  <2>. QED BY <2>1, <2>2
<1>9. Marked(s.overlay, s.deleted, gone')
  BY <1>2, <1>5, <1>6, <1>e DEF NamesInv, Marked
<1>10. /\ NamesInv' /\ names' = s
       /\ \A m \in DOMAIN s.overlay :
             contents'[s.overlay[m]] = IF s.overlay[m] = b THEN c ELSE contents[s.overlay[m]]
  BY <1>2, <1>4, <1>5, <1>8, <1>9, Becoming
<1>11. ASSUME NEW m \in Name \ {old, new} PROVE Kept(m)
  BY <1>5, <1>6, <1>7, <1>10, <1>e DEF Kept
<1>12. new \in DOMAIN names'.overlay /\ contents'[names'.overlay[new]] = c
  BY <1>5, <1>6, <1>10
<1>13. old # new => old \notin DOMAIN names'.overlay /\ old \in names'.deleted
  BY <1>5, <1>6, <1>10, <1>e
<1>14. IF old \in DOMAIN names.overlay
       THEN contents'[names'.overlay[new]] = contents[names.overlay[old]]
       ELSE HostFile(names, old) /\ contents'[names'.overlay[new]] = old
  BY <1>3, <1>12, <1>b
<1>. QED BY <1>10, <1>11, <1>12, <1>13, <1>14

(* Every call but rename is about one name at most.                          *)
LEMMA OpenKeeps ==
    ASSUME NamesInv, NEW n \in Name, NEW f \in Flags,
           \/ OpenDirectory(n, f) \/ OpenOverlay(n, f) \/ OpenHostToWrite(n, f)
           \/ OpenHostToRead(n, f) \/ OpenNew(n, f)
    PROVE  NamesInv' /\ \A m \in Name \ {n} : Kept(m)
<1>0. f.writable \in BOOLEAN
  BY DEF Flags
<1>1. CASE OpenHostToWrite(n, f)
  <2>a. PICK c : c = IF f.trunc THEN Empty ELSE n
    OBVIOUS
  <2>1. /\ n \notin DOMAIN names.overlay /\ CanInstall /\ Creates(n, f) /\ HostFile(Created(n, f), n)
        /\ Become(Promote(Created(n, f), n, Fresh), Installed(Handle(Fresh, TRUE, n)), Fresh, c)
    BY <1>1, <2>a DEF OpenHostToWrite, AsFile
  <2>2. f.creat \/ n \notin names.deleted
    BY <2>1, CreatedFacts DEF HostFile
  <2>3. c \in Content
    BY <2>1, <2>a DEF HostFile, Content
  <2>. QED BY <2>1, <2>2, <2>3, OpenPutsKeeps
<1>2. CASE OpenNew(n, f)
  <2>1. /\ n \notin DOMAIN names.overlay /\ CanInstall /\ Creates(n, f) /\ f.creat
        /\ Become(Promote(Created(n, f), n, Fresh), Installed(Handle(Fresh, f.writable, n)), Fresh, Empty)
    BY <1>2 DEF OpenNew, AsFile
  <2>2. Empty \in Content
    BY DEF Content
  <2>. QED BY <1>0, <2>1, <2>2, OpenPutsKeeps
<1>. QED BY <1>0, <1>1, <1>2, OpenDirectoryKeeps, OpenOverlayKeeps, OpenHostToReadKeeps

LEMMA NextKeeps ==
    ASSUME NamesInv, Next
    PROVE  /\ NamesInv'
           /\ \/ \E n \in Name \cup {Nothing} : \A m \in Name \ {n} : Kept(m)
              \/ \E old \in Name, new \in Name : Rename(old, new)
<1>1. ASSUME NEW n \in Name, NEW f \in Flags,
             \/ OpenDirectory(n, f) \/ OpenOverlay(n, f) \/ OpenHostToWrite(n, f)
             \/ OpenHostToRead(n, f) \/ OpenNew(n, f)
      PROVE  NamesInv' /\ \A m \in Name \ {n} : Kept(m)
  BY <1>1, OpenKeeps
<1>2. ASSUME NEW n \in Name, Unlink(n) \/ Mkdir(n)
      PROVE  NamesInv' /\ \A m \in Name \ {n} : Kept(m)
  BY <1>2, UnlinkKeeps, MkdirKeeps
<1>3. ASSUME NEW n \in Name, NEW c \in Data \cup {Empty}, AddFile(n, c) \/ Truncate(n, c)
      PROVE  NamesInv' /\ \A m \in Name \ {n} : Kept(m)
  BY <1>3, AddFileKeeps, TruncateKeeps
<1>4. ASSUME NEW fd \in Fd, Close(fd)
      PROVE  NamesInv' /\ \A m \in Name \ {Nothing} : Kept(m)
  BY <1>4, CloseKeeps
<1>5. ASSUME NEW fd \in Fd, NEW c \in Data \cup {Empty}, Write(fd, c)
      PROVE  NamesInv' /\ \E n \in Name \cup {Nothing} : \A m \in Name \ {n} : Kept(m)
  BY <1>5, WriteKeeps
<1>6. ASSUME NEW old \in Name, NEW new \in Name, Rename(old, new)
      PROVE  NamesInv'
  BY <1>6, RenameKeeps
<1>. QED BY <1>1, <1>2, <1>3, <1>4, <1>5, <1>6 DEF Next

LEMMA NamesInductive == NamesInv /\ [Next]_vars => NamesInv'
<1>. SUFFICES ASSUME NamesInv, [Next]_vars PROVE NamesInv'
  OBVIOUS
<1>1. CASE UNCHANGED vars
  BY <1>1 DEF vars, NamesInv
<1>. QED BY <1>1, NextKeeps

LEMMA NamesAlways == Spec => []NamesInv
BY NamesInitially, NamesInductive, PTL DEF Spec

(* A write through a handle reaches the file under the name the handle has,  *)
(* and no file that was made under another name, or under that name later.   *)
THEOREM HandlesAlwaysFollowNames == Spec => []HandlesFollowNames
<1>1. NamesInv => HandlesFollowNames
  BY DEF NamesInv, Held, Follows, HandlesFollowNames
<1>. QED BY <1>1, NamesAlways, PTL

(* A file that was unlinked or renamed away is not found, in the overlay or  *)
(* in the rootfs, until it is made again.                                    *)
THEOREM GoneAlwaysStaysGone == Spec => []GoneStaysGone
<1>1. NamesInv => GoneStaysGone
  BY DEF NamesInv, Marked, GoneStaysGone, Shown, HostFile
<1>. QED BY <1>1, NamesAlways, PTL

-----------------------------------------------------------------------------
(* What names show.  A path below a regular host file makes it a directory,  *)
(* once a file is made there, though its parent is none: one call would then *)
(* change what two names show.  The rootfs has no such path; this is that no *)
(* call names one.                                                           *)
NothingBelowFiles == \A n \in HostFiles : Below[n] = {}

LEMMA KeptShows ==
    ASSUME NothingBelowFiles, NEW m \in Name, Kept(m)
    PROVE  Shown(m)' = Shown(m)
<1>1. CASE m \in DOMAIN names.overlay
  BY <1>1 DEF Kept, Shown
<1>2. CASE m \notin DOMAIN names.overlay
  <2>1. HostFile(names', m) <=> HostFile(names, m)
    BY DEF Kept, HostFile
  <2>2. HostFile(names, m) => (IsDir(names', m) <=> IsDir(names, m))
    BY DEF Kept, HostFile, IsDir, NothingBelowFiles
  <2>. QED BY <1>2, <2>1, <2>2 DEF Kept, Shown
<1>. QED BY <1>1, <1>2

LEMMA ShownTyped == NamesInv => \A m \in Name : Shown(m) \in Content \cup {Nothing}
BY DEF NamesInv, Tree, Overlaid, Shown, HostFile, Content

LEMMA NextRefines ==
    ASSUME NothingBelowFiles, NamesInv, NamesInv', Next
    PROVE  Abstract!Next \/ Visible' = Visible
<1>a. PICK before : before = Visible
  OBVIOUS
<1>b. PICK after : after = Visible'
  OBVIOUS
<1>0. /\ before = [m \in Name |-> Shown(m)] /\ after = [m \in Name |-> Shown(m)']
  BY <1>a, <1>b DEF Visible
<1>1. after \in [Name -> Content \cup {Nothing}]
  <2>1. (NamesInv => \A m \in Name : Shown(m) \in Content \cup {Nothing})'
    BY ShownTyped, PTL
  <2>. QED BY <1>0, <2>1
<1>2. ASSUME NEW n \in Name, \A m \in Name \ {n} : Kept(m)
      PROVE  Abstract!Next
  <2>1. \A m \in Name \ {n} : after[m] = before[m]
    BY <1>2, <1>0, KeptShows
  <2>2. Abstract!Change(n)
    BY <1>1, <2>1, <1>a, <1>b DEF Abstract!Change
  <2>. QED BY <2>2 DEF Abstract!Next
<1>3. ASSUME \A m \in Name : Kept(m)
      PROVE  Visible' = Visible
  BY <1>3, KeptShows DEF Visible
<1>4. ASSUME NEW old \in Name, NEW new \in Name, Rename(old, new)
      PROVE  Abstract!Next
  <2>1. \A m \in Name \ {old, new} : after[m] = before[m]
    BY <1>4, <1>0, RenameKeeps, KeptShows
  <2>2. old # new => after[old] = Nothing
    BY <1>4, <1>0, RenameKeeps DEF Shown, HostFile
  <2>3. CASE old = new
    BY <1>2, <1>4, <2>3, RenameKeeps
  <2>4. CASE old # new /\ before[old] = after[new]
    <3>1. after = [before EXCEPT ![old] = Nothing, ![new] = before[old]]
      BY <2>1, <2>2, <2>4, <1>0
    <3>2. Abstract!Move(old, new)
      BY <3>1, <1>a, <1>b DEF Abstract!Move
    <3>. QED BY <2>4, <3>2 DEF Abstract!Next
  <2>5. CASE old # new /\ before[old] # after[new]
    <3>1. before[old] = Nothing
      BY <1>4, <2>5, <1>0, RenameKeeps DEF Shown
    <3>2. \A m \in Name \ {new} : after[m] = before[m]
      BY <2>1, <2>2, <2>5, <3>1
    <3>3. Abstract!Change(new)
      BY <1>1, <3>2, <1>a, <1>b DEF Abstract!Change
    <3>. QED BY <3>3 DEF Abstract!Next
  <2>. QED BY <2>3, <2>4, <2>5
<1>5. (\E n \in Name \cup {Nothing} : \A m \in Name \ {n} : Kept(m))
      \/ \E old \in Name, new \in Name : Rename(old, new)
  BY NextKeeps
<1>6. Nothing \notin Name
  BY VfsNamesAssumption
<1>. QED BY <1>2, <1>3, <1>4, <1>5, <1>6

(* Where no path is named below a regular host file, every call changes what *)
(* one name shows, or moves it.                                              *)
THEOREM NamesAreImplemented == NothingBelowFiles => (Spec => ImplementsNames)
<1>. SUFFICES ASSUME NothingBelowFiles PROVE Spec => ImplementsNames
  OBVIOUS
<1>1. Init => Abstract!Init
  BY NamesInitially, ShownTyped DEF Abstract!Init, Visible
<1>2. NamesInv /\ NamesInv' /\ [Next]_vars => [Abstract!Next]_Visible
  <2>. SUFFICES ASSUME NamesInv, NamesInv', [Next]_vars
                PROVE  Abstract!Next \/ Visible' = Visible
    OBVIOUS
  <2>1. CASE UNCHANGED vars
    BY <2>1 DEF vars, Visible, Shown, HostFile, IsDir
  <2>. QED BY <2>1, NextRefines
<1>. QED BY <1>1, <1>2, NamesInitially, NamesInductive, PTL DEF Spec, ImplementsNames, Abstract!Spec

(***************************************************************************)
(* The libraries, and their import slots.                                  *)
(***************************************************************************)
Frame == [lib : Libs, todo : Seq(Libs), dependency : BOOLEAN, scan : BOOLEAN]

Loading(ld)        == {ld[i].lib : i \in DOMAIN ld}
Complete(mods, ld) == mods \ Loading(ld)

(* The loads in progress are nested like the needs that caused them, so each *)
(* needs those inside it; what a complete library needs is registered, and   *)
(* what must precede a complete library is complete.                         *)
Ordered(mods, ld) ==
    /\ \A i \in DOMAIN ld : ld[i].lib \in mods
    /\ \A i, j \in DOMAIN ld : i # j => ld[i].lib # ld[j].lib
    /\ \A i, j \in DOMAIN ld : i < j => Needs(ld[i].lib, ld[j].lib)
    /\ \A i \in DOMAIN ld :
          /\ ToSet(ld[i].todo) \subseteq ToSet(disk.needs[ld[i].lib])
          /\ Found(ld[i].lib) \subseteq mods \cup ToSet(ld[i].todo)
    /\ \A x \in Complete(mods, ld) : Found(x) \subseteq mods
    /\ \A x \in Complete(mods, ld), d \in Libs : Precedes(d, x) => d \in Complete(mods, ld)

(* Only a complete library has import slots, and those that wait are poisoned. *)
Bindings(mods, ld, g, d) ==
    /\ \A x \in DOMAIN g : x \in Complete(mods, ld) \X Syms
    /\ d \subseteq DOMAIN g
    /\ \A x \in DOMAIN g : g[x] = Poison <=> x \in d

(* Only complete libraries are started or queued, each once, in order.       *)
Started(mods, ld, g, q) ==
    /\ \A i \in DOMAIN q :
          /\ q[i] \in Complete(mods, ld) /\ q[i] \notin disk.rejected
          /\ \A y \in disk.imports[q[i]] : <<q[i], y>> \in DOMAIN g
    /\ \A i, j \in DOMAIN q : q[i] = q[j] => i = j
    /\ \A i, j \in DOMAIN q : Precedes(q[j], q[i]) => j < i

Unsettled(g) == \E x \in DOMAIN g : g[x] = Poison /\ Resolve(x[2]) # Nobody

LTypes ==
    /\ disk \in Disk
    /\ modules \in SUBSET Libs
    /\ provider \in [Syms -> Libs \cup {Nobody}]
    /\ loads \in Seq(Frame)
    /\ irelative \in Seq(Libs) /\ pendingInit \in Seq(Libs) /\ ran \in Seq(Libs)
    /\ running \in Libs \cup {Nobody}
    /\ phase \in {"idle", "ifuncs", "constructors"}
    /\ clean \in BOOLEAN /\ nested \in BOOLEAN

(* A load that has returned leaves everything settled until the next supply  *)
(* or load.                                                                  *)
CleanIsSettled ==
    clean => loads = <<>> /\ listed = modules /\ ~Unsettled(got)

(* Unless constructors load libraries, ifuncs queue up only while nothing is *)
(* being started, and none waits once constructors run.                      *)
IfuncsDone ==
    /\ running # Nobody => phase = "constructors"
    /\ ~nested /\ loads # <<>> => phase = "idle"
    /\ ~nested /\ phase = "constructors" => irelative = <<>>
    /\ ~nested => \A i \in DOMAIN ran : ran[i] \notin ToSet(irelative)

LinkingInv ==
    /\ LTypes
    /\ Ordered(modules, loads)
    /\ Bindings(modules, loads, got, deferred)
    /\ Started(modules, loads, got, Starts)
    /\ CleanIsSettled
    /\ IfuncsDone

-----------------------------------------------------------------------------
(* Needing is transitive.                                                    *)
LEMMA NeedsDirectly ==
    ASSUME NEW l \in Libs, NEW d \in Found(l)
    PROVE  Needs(l, d)
BY DEF Needs

LEMMA NeedsThrough ==
    ASSUME NEW l \in Libs, NEW e \in Libs, NEW d \in Found(e), Needs(l, e)
    PROVE  Needs(l, d)
BY DEF Needs

LEMMA NeedsFrom ==
    ASSUME NEW l \in Libs, NEW e \in Found(l), NEW d \in Libs, Needs(e, d)
    PROVE  Needs(l, d)
BY DEF Needs

LEMMA FoundTyped ==
    ASSUME LTypes, NEW l \in Libs
    PROVE  Found(l) \subseteq Libs /\ disk.needs[l] \in Seq(Libs)
BY DEF LTypes, Disk, Found

(* Nothing precedes itself.                                                  *)
LEMMA PrecedesIrreflexive ==
    ASSUME LTypes, NEW l \in Libs
    PROVE  ~Precedes(l, l)
BY NeedsDirectly, FoundTyped DEF Precedes

LEMMA FrontOf ==
    ASSUME NEW S, NEW s \in Seq(S), s # <<>>
    PROVE  /\ Front(s) \in Seq(S) /\ Len(Front(s)) = Len(s) - 1
           /\ \A i \in 1 .. Len(s) - 1 : Front(s)[i] = s[i]
           /\ Last(s) = s[Len(s)] /\ Len(s) \in Nat \ {0}
<1>1. Len(s) \in Nat \ {0} /\ Len(s) - 1 \in Nat /\ \A i \in 1 .. Len(s) : s[i] \in S
  OBVIOUS
<1>2. Front(s) = [i \in 1 .. Len(s) - 1 |-> s[i]]
  BY <1>1 DEF Front
<1>3. Front(s) \in [1 .. Len(s) - 1 -> S]
  BY <1>1, <1>2
<1>. QED BY <1>1, <1>2, <1>3 DEF Last

LEMMA AppendSet ==
    ASSUME NEW S, NEW s \in Seq(S), NEW e \in S
    PROVE  /\ ToSet(Append(s, e)) = ToSet(s) \cup {e}
           /\ Append(s, e) \in Seq(S) /\ Len(Append(s, e)) = Len(s) + 1
           /\ Append(s, e)[Len(s) + 1] = e
           /\ \A i \in 1 .. Len(s) : Append(s, e)[i] = s[i]
<1>1. /\ Append(s, e) \in Seq(S) /\ Len(Append(s, e)) = Len(s) + 1
      /\ Append(s, e)[Len(s) + 1] = e
      /\ \A i \in 1 .. Len(s) : Append(s, e)[i] = s[i]
  OBVIOUS
<1>2. DOMAIN Append(s, e) = 1 .. Len(s) + 1 /\ DOMAIN s = 1 .. Len(s) /\ Len(s) \in Nat
  BY <1>1
<1>. QED BY <1>1, <1>2 DEF ToSet

LEMMA TailSet ==
    ASSUME NEW S, NEW s \in Seq(S), s # <<>>
    PROVE  /\ Tail(s) \in Seq(S) /\ Head(s) \in S
           /\ ToSet(s) = ToSet(Tail(s)) \cup {Head(s)}
<1>1. /\ Len(s) \in Nat \ {0} /\ Tail(s) \in Seq(S) /\ Head(s) \in S /\ Head(s) = s[1]
      /\ Len(Tail(s)) = Len(s) - 1 /\ \A i \in 1 .. Len(s) - 1 : Tail(s)[i] = s[i + 1]
  OBVIOUS
<1>2. DOMAIN s = 1 .. Len(s) /\ DOMAIN Tail(s) = 1 .. Len(s) - 1
  BY <1>1
<1>3. ASSUME NEW x \in ToSet(s) PROVE x \in ToSet(Tail(s)) \cup {Head(s)}
  <2>1. PICK i \in 1 .. Len(s) : x = s[i]
    BY <1>2 DEF ToSet
  <2>2. CASE i = 1
    BY <1>1, <2>1, <2>2
  <2>3. CASE i # 1
    <3>1. i - 1 \in 1 .. Len(s) - 1 /\ Tail(s)[i - 1] = s[i]
      BY <1>1, <2>3
    <3>. QED BY <1>2, <2>1, <3>1 DEF ToSet
  <2>. QED BY <2>2, <2>3
<1>4. ASSUME NEW x \in ToSet(Tail(s)) PROVE x \in ToSet(s)
  <2>1. PICK i \in 1 .. Len(s) - 1 : x = Tail(s)[i]
    BY <1>2 DEF ToSet
  <2>2. i + 1 \in 1 .. Len(s) /\ x = s[i + 1]
    BY <1>1, <2>1
  <2>. QED BY <1>2, <2>2 DEF ToSet
<1>5. Head(s) \in ToSet(s)
  BY <1>1, <1>2 DEF ToSet
<1>. QED BY <1>1, <1>3, <1>4, <1>5

-----------------------------------------------------------------------------
(* A library that is not registered is entered: at the bottom, or inside a   *)
(* load that needs it.  `outer` is `ld` after it has looked at the need.     *)
LEMMA EnterOrdered ==
    ASSUME LTypes, NEW mods \in SUBSET Libs, NEW ld \in Seq(Frame), Ordered(mods, ld),
           NEW outer \in Seq(Frame), Len(outer) = Len(ld),
           NEW f \in Frame, f.lib \notin mods, f.todo = disk.needs[f.lib],
           \A i \in 1 .. Len(ld) :
              /\ outer[i].lib = ld[i].lib
              /\ ToSet(outer[i].todo) \subseteq ToSet(ld[i].todo)
              /\ ToSet(ld[i].todo) \cap disk.files
                     \subseteq mods \cup {f.lib} \cup ToSet(outer[i].todo),
           ld # <<>> => f.lib \in Found(ld[Len(ld)].lib)
    PROVE  /\ Ordered(mods \cup {f.lib}, Append(outer, f))
           /\ Complete(mods \cup {f.lib}, Append(outer, f)) = Complete(mods, ld)
           /\ Append(outer, f) \in Seq(Frame)
<1> DEFINE n == Len(ld)
           l == f.lib
           new == Append(outer, f)
<1>1. n \in Nat /\ DOMAIN ld = 1 .. n /\ l \in Libs
  BY DEF Frame
<1>2. /\ new \in Seq(Frame) /\ Len(new) = n + 1 /\ new[n + 1] = f
      /\ \A i \in 1 .. n : new[i] = outer[i]
  OBVIOUS
<1>3. DOMAIN new = 1 .. n + 1
  BY <1>1, <1>2
<1>4. /\ \A i \in 1 .. n : /\ new[i].lib = ld[i].lib /\ new[i].lib \in mods /\ new[i].lib # l
                           /\ ld[i].lib \in Libs
      /\ \A i \in 1 .. n + 1 : i \in 1 .. n \/ i = n + 1
  BY <1>1, <1>2 DEF Ordered
<1>. HIDE DEF new
<1>5. Loading(new) = Loading(ld) \cup {l} /\ Loading(ld) \subseteq mods
  <2>1. \A x \in Loading(new) : x \in Loading(ld) \cup {l}
    BY <1>1, <1>2, <1>3, <1>4 DEF Loading
  <2>2. \A x \in Loading(ld) : x \in Loading(new) /\ x \in mods
    BY <1>1, <1>2, <1>3, <1>4 DEF Loading
  <2>3. l \in Loading(new)
    BY <1>1, <1>2, <1>3 DEF Loading
  <2>. QED BY <2>1, <2>2, <2>3
<1>6. Complete(mods \cup {l}, new) = Complete(mods, ld)
  BY <1>5 DEF Complete
<1>7. \A i, j \in 1 .. n + 1 : i # j => new[i].lib # new[j].lib
  <2>1. \A i, j \in 1 .. n : i # j => ld[i].lib # ld[j].lib
    BY <1>1 DEF Ordered
  <2>. QED BY <1>2, <1>4, <2>1
<1>8. ASSUME NEW i \in 1 .. n + 1, NEW j \in 1 .. n + 1, i < j
      PROVE  Needs(new[i].lib, new[j].lib)
  <2>1. i \in 1 .. n
    BY <1>1, <1>8
  <2>2. CASE j \in 1 .. n
    BY <1>1, <1>4, <1>8, <2>1, <2>2 DEF Ordered
  <2>3. CASE j = n + 1
    <3>1. ld # <<>> /\ n \in 1 .. n /\ ld[n].lib \in Libs
      BY <1>1, <1>4, <2>1
    <3>2. l \in Found(ld[n].lib)
      BY <3>1
    <3>3. CASE i = n
      BY <1>2, <1>4, <2>1, <2>3, <3>1, <3>2, <3>3, NeedsDirectly
    <3>4. CASE i # n
      <4>1. Needs(ld[i].lib, ld[n].lib)
        BY <1>1, <2>1, <3>1, <3>4 DEF Ordered
      <4>2. Needs(ld[i].lib, l)
        BY <1>4, <2>1, <3>1, <3>2, <4>1, NeedsThrough
      <4>. QED BY <1>2, <1>4, <2>1, <2>3, <4>2
    <3>. QED BY <3>3, <3>4
  <2>. QED BY <1>4, <2>2, <2>3
<1>9. ASSUME NEW i \in 1 .. n + 1
      PROVE  /\ ToSet(new[i].todo) \subseteq ToSet(disk.needs[new[i].lib])
             /\ Found(new[i].lib) \subseteq (mods \cup {l}) \cup ToSet(new[i].todo)
  <2>1. CASE i \in 1 .. n
    <3>1. /\ ToSet(ld[i].todo) \subseteq ToSet(disk.needs[ld[i].lib])
          /\ Found(ld[i].lib) \subseteq mods \cup ToSet(ld[i].todo)
          /\ Found(ld[i].lib) \subseteq disk.files
      BY <1>1, <2>1 DEF Ordered, Found
    <3>2. new[i] = outer[i] /\ outer[i].lib = ld[i].lib
      BY <1>2, <2>1
    <3>. QED BY <2>1, <3>1, <3>2
  <2>2. CASE i = n + 1
    BY <1>2, <2>2 DEF Found
  <2>. QED BY <1>4, <2>1, <2>2
<1>10. /\ \A x \in Complete(mods, ld) : Found(x) \subseteq mods
       /\ \A x \in Complete(mods, ld), d \in Libs : Precedes(d, x) => d \in Complete(mods, ld)
  BY DEF Ordered
<1>11. \A i \in 1 .. n + 1 : new[i].lib \in mods \cup {l}
  BY <1>2, <1>4
<1>12. Ordered(mods \cup {l}, new)
  BY <1>3, <1>6, <1>7, <1>8, <1>9, <1>10, <1>11 DEF Ordered
<1>. QED BY <1>2, <1>6, <1>12 DEF new

(* The need is registered already, or has no file.                           *)
LEMMA SkipOrdered ==
    ASSUME LTypes, NEW mods \in SUBSET Libs, NEW ld \in Seq(Frame), Ordered(mods, ld),
           NEW outer \in Seq(Frame), Len(outer) = Len(ld),
           \A i \in 1 .. Len(ld) :
              /\ outer[i].lib = ld[i].lib
              /\ ToSet(outer[i].todo) \subseteq ToSet(ld[i].todo)
              /\ ToSet(ld[i].todo) \cap disk.files \subseteq mods \cup ToSet(outer[i].todo)
    PROVE  Ordered(mods, outer) /\ Complete(mods, outer) = Complete(mods, ld)
<1> DEFINE n == Len(ld)
<1>1. DOMAIN ld = 1 .. n /\ DOMAIN outer = 1 .. n
  OBVIOUS
<1>2. Loading(outer) = Loading(ld)
  BY <1>1 DEF Loading
<1>3. Complete(mods, outer) = Complete(mods, ld)
  BY <1>2 DEF Complete
<1>4. ASSUME NEW i \in 1 .. n
      PROVE  /\ ToSet(outer[i].todo) \subseteq ToSet(disk.needs[outer[i].lib])
             /\ Found(outer[i].lib) \subseteq mods \cup ToSet(outer[i].todo)
  <2>1. /\ ToSet(ld[i].todo) \subseteq ToSet(disk.needs[ld[i].lib])
        /\ Found(ld[i].lib) \subseteq mods \cup ToSet(ld[i].todo)
        /\ Found(ld[i].lib) \subseteq disk.files
    BY <1>1, <1>4 DEF Ordered, Found
  <2>. QED BY <1>4, <2>1
<1>5. /\ \A i \in 1 .. n : outer[i].lib \in mods
      /\ \A i, j \in 1 .. n : i # j => outer[i].lib # outer[j].lib
      /\ \A i, j \in 1 .. n : i < j => Needs(outer[i].lib, outer[j].lib)
  BY <1>1 DEF Ordered
<1>6. /\ \A x \in Complete(mods, ld) : Found(x) \subseteq mods
      /\ \A x \in Complete(mods, ld), d \in Libs : Precedes(d, x) => d \in Complete(mods, ld)
  BY DEF Ordered
<1>7. Ordered(mods, outer)
  BY <1>1, <1>3, <1>4, <1>5, <1>6 DEF Ordered
<1>. QED BY <1>3, <1>7

(* The innermost load ends.  What it needs is registered; what of that is    *)
(* still being loaded needs it in turn, so what must precede it is complete. *)
LEMMA LeaveOrdered ==
    ASSUME LTypes, NEW mods \in SUBSET Libs, NEW ld \in Seq(Frame), Ordered(mods, ld),
           ld # <<>>, Last(ld).todo = <<>>
    PROVE  /\ Ordered(mods, Front(ld)) /\ Front(ld) \in Seq(Frame)
           /\ Complete(mods, Front(ld)) = Complete(mods, ld) \cup {Last(ld).lib}
           /\ Last(ld).lib \in mods \ Complete(mods, ld)
<1> DEFINE n == Len(ld)
           l == Last(ld).lib
           out == Front(ld)
           complete == Complete(mods, ld)
<1>1. /\ n \in Nat \ {0} /\ n - 1 \in Nat /\ DOMAIN ld = 1 .. n
      /\ out \in Seq(Frame) /\ Len(out) = n - 1 /\ DOMAIN out = 1 .. n - 1
      /\ \A i \in 1 .. n - 1 : out[i] = ld[i] /\ i \in 1 .. n
      /\ l = ld[n].lib /\ n \in 1 .. n /\ ld[n].todo = <<>> /\ l \in Libs
      /\ \A i \in 1 .. n : i = n \/ i \in 1 .. n - 1
  <2>1. /\ out \in Seq(Frame) /\ Len(out) = n - 1 /\ Last(ld) = ld[n] /\ n \in Nat \ {0}
        /\ \A i \in 1 .. n - 1 : out[i] = ld[i]
    BY FrontOf
  <2>. HIDE DEF out
  <2>2. DOMAIN ld = 1 .. n /\ DOMAIN out = 1 .. n - 1 /\ ld[n] \in Frame
    BY <2>1
  <2>3. l = ld[n].lib /\ ld[n].todo = <<>> /\ l \in Libs
    BY <2>1, <2>2 DEF Frame
  <2>. QED BY <2>1, <2>2, <2>3
<1>2. \A i \in 1 .. n : i = n \/ i \in 1 .. n - 1
  BY <1>1
<1>. HIDE DEF n, out, l, complete
<1>a. n \in Nat \ {0}
  BY <1>1
<1>3. /\ \A i \in 1 .. n : ld[i].lib \in mods
      /\ \A i, j \in 1 .. n : i # j => ld[i].lib # ld[j].lib
      /\ \A i, j \in 1 .. n : i < j => Needs(ld[i].lib, ld[j].lib)
      /\ \A i \in 1 .. n :
            /\ ToSet(ld[i].todo) \subseteq ToSet(disk.needs[ld[i].lib])
            /\ Found(ld[i].lib) \subseteq mods \cup ToSet(ld[i].todo)
      /\ \A x \in complete : Found(x) \subseteq mods
      /\ \A x \in complete, d \in Libs : Precedes(d, x) => d \in complete
  BY <1>1 DEF Ordered, complete
<1>4. Loading(ld) = Loading(out) \cup {l} /\ l \notin Loading(out) /\ l \in mods
  <2>1. \A x \in Loading(ld) : x \in Loading(out) \cup {l}
    BY <1>1, <1>2 DEF Loading
  <2>2. Loading(out) \cup {l} \subseteq Loading(ld)
    BY <1>1 DEF Loading
  <2>3. ASSUME l \in Loading(out) PROVE FALSE
    <3>1. PICK i \in 1 .. n - 1 : l = out[i].lib
      BY <1>1, <2>3 DEF Loading
    <3>2. i \in 1 .. n /\ out[i] = ld[i]
      BY <1>1
    <3>3. i # n
      BY <1>a
    <3>4. ld[i].lib = ld[n].lib /\ n \in 1 .. n
      BY <1>1, <3>1, <3>2
    <3>. QED BY <1>3, <3>2, <3>3, <3>4
  <2>. QED BY <1>1, <1>3, <2>1, <2>2, <2>3
<1>5. Complete(mods, out) = complete \cup {l} /\ l \notin complete
  BY <1>4 DEF Complete, complete
<1>6. Found(l) \subseteq mods
  <2>1. ToSet(<<>>) = {}
    BY DEF ToSet
  <2>2. Found(l) \subseteq mods \cup ToSet(ld[n].todo)
    BY <1>1, <1>3
  <2>. QED BY <1>1, <2>1, <2>2
<1>7. \A x \in mods : ~Needs(x, l) /\ x # l => x \in complete
  <2> SUFFICES ASSUME NEW x \in mods, ~Needs(x, l), x # l, x \notin complete PROVE FALSE
    OBVIOUS
  <2>1. PICK i \in 1 .. n : x = ld[i].lib
    BY <1>1 DEF complete, Complete, Loading
  <2>2. i # n
    BY <1>1, <2>1
  <2>3. i < n /\ n \in 1 .. n
    BY <1>a, <2>2
  <2>4. Needs(ld[i].lib, ld[n].lib)
    BY <1>1, <1>3, <2>3
  <2>. QED BY <1>1, <2>1, <2>4
<1>8. ASSUME NEW e \in Libs, NEW z \in Found(e), ~Needs(e, l)
      PROVE  z \in Libs /\ z # l /\ ~Needs(z, l)
  <2>1. z \in Libs
    BY FoundTyped
  <2>2. z # l
    BY <1>8, NeedsDirectly
  <2>3. ~Needs(z, l)
    BY <1>1, <1>8, NeedsFrom
  <2>. QED BY <2>1, <2>2, <2>3
<1>9. ASSUME NEW d \in Libs, Precedes(d, l) PROVE d \in complete
  <2>1. PICK e \in Found(l) : ~Needs(e, l) /\ (d = e \/ Needs(e, d))
    BY <1>9 DEF Precedes
  <2>2. e \in Libs /\ e \in mods
    BY <1>1, <1>6, FoundTyped
  <2>3. e # l
    BY <1>1, <2>1, NeedsDirectly
  <2>4. e \in complete
    BY <1>7, <2>1, <2>2, <2>3
  <2> DEFINE S == {y \in complete : ~Needs(y, l)}
  <2>5. ASSUME NEW y \in S PROVE Found(y) \subseteq S
    <3> SUFFICES ASSUME NEW z \in Found(y) PROVE z \in S
      OBVIOUS
    <3>1. y \in Libs /\ y \in complete /\ ~Needs(y, l)
      BY DEF complete, Complete
    <3>2. z # l /\ ~Needs(z, l) /\ z \in mods
      BY <1>3, <1>8, <3>1
    <3>. QED BY <1>7, <3>2
  <2>6. e \in S
    BY <2>1, <2>4
  <2>7. S \in SUBSET Libs
    BY DEF complete, Complete
  <2>8. Needs(e, d) => d \in S
    BY <2>5, <2>6, <2>7 DEF Needs
  <2>. QED BY <2>1, <2>4, <2>8
<1>10. /\ \A x \in complete \cup {l} : Found(x) \subseteq mods
       /\ \A x \in complete \cup {l}, d \in Libs : Precedes(d, x) => d \in complete \cup {l}
  BY <1>3, <1>6, <1>9
<1>11. /\ \A i \in 1 .. n - 1 : out[i].lib \in mods
       /\ \A i, j \in 1 .. n - 1 : i # j => out[i].lib # out[j].lib
       /\ \A i, j \in 1 .. n - 1 : i < j => Needs(out[i].lib, out[j].lib)
       /\ \A i \in 1 .. n - 1 :
             /\ ToSet(out[i].todo) \subseteq ToSet(disk.needs[out[i].lib])
             /\ Found(out[i].lib) \subseteq mods \cup ToSet(out[i].todo)
  BY <1>1, <1>3
<1>12. Ordered(mods, out)
  BY <1>1, <1>5, <1>10, <1>11 DEF Ordered
<1>. QED BY <1>1, <1>4, <1>5, <1>12 DEF out, l, complete

-----------------------------------------------------------------------------
(* A slot is poisoned exactly when its symbol has no provider.               *)
LEMMA FilledPoison ==
    ASSUME LTypes, NEW y \in Syms
    PROVE  Filled(y) = Poison <=> Resolve(y) = Nobody
<1>1. provider[y] \in Libs \cup {Nobody}
  BY DEF LTypes
<1>2. Resolve(y) \in Libs \cup {Nobody, Host}
  BY <1>1 DEF Resolve
<1>3. Resolve(y) # Poison
  BY <1>2, LinkingAssumption
<1>. QED BY <1>3 DEF Filled

(* The slots of the library that ends are filled in or deferred.             *)
LEMMA BoundBindings ==
    ASSUME LTypes, NEW mods, NEW ld, NEW out, Bindings(mods, ld, got, deferred),
           NEW l, NEW some \in SUBSET Syms, l \notin Complete(mods, ld),
           Complete(mods, out) = Complete(mods, ld) \cup {l}
    PROVE  /\ Bindings(mods, out, Bound(l, some), Deferred(l, some))
           /\ DOMAIN Bound(l, some) = DOMAIN got \cup ({l} \X some)
<1> DEFINE g == Bound(l, some)
           d == Deferred(l, some)
<1>1. DOMAIN g = DOMAIN got \cup ({l} \X some)
  BY DEF Bound
<1>2. \A x \in {l} \X some : x \notin DOMAIN got /\ x[1] = l /\ x[2] \in Syms
  BY DEF Bindings
<1>3. \A x \in DOMAIN g : g[x] = IF x \in {l} \X some THEN Filled(x[2]) ELSE got[x]
  BY DEF Bound
<1>4. d = deferred \cup {x \in {l} \X some : Resolve(x[2]) = Nobody}
  BY DEF Deferred
<1>. HIDE DEF g, d
<1>5. \A x \in DOMAIN g : x \in Complete(mods, out) \X Syms
  BY <1>1 DEF Bindings
<1>6. d \subseteq DOMAIN g
  BY <1>1, <1>4 DEF Bindings
<1>7. ASSUME NEW x \in DOMAIN g PROVE g[x] = Poison <=> x \in d
  <2>1. CASE x \in {l} \X some
    <3>1. g[x] = Poison <=> Resolve(x[2]) = Nobody
      BY <1>2, <1>3, <2>1, FilledPoison
    <3>2. x \notin deferred
      BY <1>2, <2>1 DEF Bindings
    <3>. QED BY <1>4, <2>1, <3>1, <3>2
  <2>2. CASE x \notin {l} \X some
    BY <1>1, <1>3, <1>4, <2>2 DEF Bindings
  <2>. QED BY <2>1, <2>2
<1>8. Bindings(mods, out, g, d)
  BY <1>5, <1>6, <1>7 DEF Bindings
<1>. QED BY <1>1, <1>8 DEF g, d

(* The retry when the outermost load ends leaves nothing unsettled.          *)
LEMMA SettledBindings ==
    ASSUME LTypes, NEW mods, NEW ld, NEW g, NEW d, Bindings(mods, ld, g, d)
    PROVE  /\ Bindings(mods, ld, Settled(g, d), Waiting(d))
           /\ DOMAIN Settled(g, d) = DOMAIN g
           /\ ~Unsettled(Settled(g, d))
<1> DEFINE h == Settled(g, d)
           w == Waiting(d)
<1>1. DOMAIN h = DOMAIN g /\ \A x \in DOMAIN g : h[x] = IF x \in d THEN Filled(x[2]) ELSE g[x]
  BY DEF Settled
<1>2. w = {x \in d : Resolve(x[2]) = Nobody}
  BY DEF Waiting
<1>. HIDE DEF h, w
<1>3. \A x \in DOMAIN g : x[2] \in Syms
  BY DEF Bindings
<1>4. ASSUME NEW x \in DOMAIN g
      PROVE  (h[x] = Poison <=> x \in w) /\ (h[x] = Poison => Resolve(x[2]) = Nobody)
  BY <1>1, <1>2, <1>3, FilledPoison DEF Bindings
<1>5. Bindings(mods, ld, h, w)
  BY <1>1, <1>2, <1>4 DEF Bindings
<1>6. ~Unsettled(h)
  BY <1>1, <1>4 DEF Unsettled
<1>. QED BY <1>1, <1>5, <1>6 DEF h, w

-----------------------------------------------------------------------------
(* A library that ends is started after all that must precede it: they are   *)
(* complete, and if a complete one had to wait for it, it would be complete. *)
LEMMA QueueStarted ==
    ASSUME LTypes, NEW mods \in SUBSET Libs, NEW ld, NEW out, NEW q \in Seq(Libs),
           Ordered(mods, ld), NEW g, NEW h, Started(mods, ld, g, q),
           NEW l \in Libs, l \notin Complete(mods, ld), l \notin disk.rejected,
           Complete(mods, out) = Complete(mods, ld) \cup {l},
           DOMAIN g \subseteq DOMAIN h, \A y \in disk.imports[l] : <<l, y>> \in DOMAIN h
    PROVE  Started(mods, out, h, Append(q, l))
<1> DEFINE n == Len(q)
           r == Append(q, l)
<1>1. /\ n \in Nat /\ DOMAIN q = 1 .. n /\ DOMAIN r = 1 .. n + 1
      /\ r[n + 1] = l /\ \A i \in 1 .. n : r[i] = q[i] /\ q[i] \in Libs
      /\ \A i \in 1 .. n + 1 : i \in 1 .. n \/ i = n + 1
  OBVIOUS
<1>. HIDE DEF r
<1>2. \A i \in 1 .. n : /\ q[i] \in Complete(mods, ld) /\ q[i] \notin disk.rejected
                        /\ \A y \in disk.imports[q[i]] : <<q[i], y>> \in DOMAIN g
  BY <1>1 DEF Started
<1>3. \A i \in 1 .. n + 1 : /\ r[i] \in Complete(mods, out) /\ r[i] \notin disk.rejected
                            /\ \A y \in disk.imports[r[i]] : <<r[i], y>> \in DOMAIN h
  BY <1>1, <1>2
<1>4. ASSUME NEW i \in 1 .. n + 1, NEW j \in 1 .. n + 1, r[i] = r[j] PROVE i = j
  <2>1. CASE i \in 1 .. n /\ j \in 1 .. n
    BY <1>1, <1>4, <2>1 DEF Started
  <2>2. CASE i = n + 1 \/ j = n + 1
    BY <1>1, <1>2, <1>4, <2>2
  <2>. QED BY <1>1, <2>1, <2>2
<1>5. ASSUME NEW i \in 1 .. n + 1, NEW j \in 1 .. n + 1, Precedes(r[j], r[i]) PROVE j < i
  <2>1. CASE i \in 1 .. n /\ j \in 1 .. n
    BY <1>1, <1>5, <2>1 DEF Started
  <2>2. CASE i = n + 1 /\ j \in 1 .. n
    BY <1>1, <2>2
  <2>3. CASE j = n + 1 /\ i \in 1 .. n
    <3>1. q[i] \in Complete(mods, ld) /\ Precedes(l, q[i])
      BY <1>1, <1>2, <1>5, <2>3
    <3>2. l \in Complete(mods, ld)
      BY <3>1 DEF Ordered
    <3>. QED BY <3>2
  <2>4. CASE i = n + 1 /\ j = n + 1
    BY <1>1, <1>5, <2>4, PrecedesIrreflexive
  <2>. QED BY <1>1, <2>1, <2>2, <2>3, <2>4
<1>6. Started(mods, out, h, r)
  BY <1>1, <1>3, <1>4, <1>5 DEF Started
<1>. QED BY <1>6 DEF r

LEMMA KeepStarted ==
    ASSUME NEW mods, NEW ld, NEW out, NEW m, NEW q, NEW g, NEW h, Started(mods, ld, g, q),
           Complete(mods, ld) \subseteq Complete(m, out), DOMAIN g \subseteq DOMAIN h
    PROVE  Started(m, out, h, q)
BY DEF Started

-----------------------------------------------------------------------------
(* Nothing of the invariant but the tables depends on the state: the disk is *)
(* what it was.                                                              *)
LEMMA SameDisk ==
    ASSUME disk' = disk, LTypes', Ordered(modules', loads'),
           Bindings(modules', loads', got', deferred'),
           Started(modules', loads', got', Starts'), CleanIsSettled', IfuncsDone'
    PROVE  LinkingInv'
<1>1. \A l : Found(l)' = Found(l)
  BY DEF Found
<1>2. \A l, d : Needs(l, d)' <=> Needs(l, d)
  BY <1>1 DEF Needs
<1>3. \A d, l : Precedes(d, l)' <=> Precedes(d, l)
  BY <1>1, <1>2 DEF Precedes
<1>4. Complete(modules, loads)' = Complete(modules', loads')
  BY DEF Complete, Loading
<1>5. Ordered(modules, loads)'
  BY <1>1, <1>2, <1>3, <1>4 DEF Ordered
<1>6. Bindings(modules, loads, got, deferred)'
  BY <1>4 DEF Bindings
<1>7. Started(modules, loads, got, Starts)'
  BY <1>3, <1>4 DEF Started
<1>. QED BY <1>5, <1>6, <1>7 DEF LinkingInv

(* What the steps that leave the loader alone keep.                          *)
LEMMA TablesKept ==
    ASSUME LinkingInv, UNCHANGED <<disk, modules, got, deferred, loads>>
    PROVE  /\ Ordered(modules', loads') /\ Bindings(modules', loads', got', deferred')
           /\ Starts' = Starts => Started(modules', loads', got', Starts')
BY DEF LinkingInv

LEMMA StartsTyped ==
    ASSUME LTypes
    PROVE  Starts \in Seq(Libs)
BY DEF LTypes, Starts

LEMMA LoadKeeps ==
    ASSUME LinkingInv, NEW l \in Libs, NEW scan \in BOOLEAN, Load(l, scan)
    PROVE  LinkingInv'
<1> DEFINE f == [lib |-> l, todo |-> disk.needs[l], dependency |-> FALSE, scan |-> scan]
<1>1. /\ loads = <<>> /\ (phase = "idle" \/ running # Nobody) /\ l \notin modules
      /\ modules' = modules \cup {l} /\ RegisterExports(l, scan) /\ loads' = Append(<<>>, f)
      /\ clean' = FALSE /\ nested' = (nested \/ running # Nobody)
      /\ UNCHANGED <<disk, supplied, got, deferred, listed, starts>>
  BY DEF Load, Enter, MayLoad
<1>2. UNCHANGED <<irelative, pendingInit, phase, running, applied, ran>>
  BY <1>1 DEF starts
<1>3. LTypes /\ Ordered(modules, loads)
  BY DEF LinkingInv
<1>4. f \in Frame /\ f.lib = l /\ f.todo = disk.needs[l]
  BY <1>3, FoundTyped DEF Frame
<1>. HIDE DEF f
<1>5. <<>> \in Seq(Frame) /\ Len(<<>>) = 0 /\ loads \in Seq(Frame) /\ modules \in SUBSET Libs
  BY <1>3 DEF LTypes
<1>6. /\ Ordered(modules', loads') /\ Complete(modules', loads') = Complete(modules, loads)
      /\ loads' \in Seq(Frame)
  <2>a. PICK ld : ld = loads
    OBVIOUS
  <2>1. /\ LTypes /\ modules \in SUBSET Libs /\ ld \in Seq(Frame) /\ Ordered(modules, ld)
        /\ f \in Frame /\ f.lib \notin modules /\ f.todo = disk.needs[f.lib]
    BY <1>1, <1>3, <1>4, <1>5, <2>a
  <2>b. ld = <<>>
    BY <1>1, <2>a
  <2>2. /\ Ordered(modules \cup {f.lib}, Append(ld, f))
        /\ Complete(modules \cup {f.lib}, Append(ld, f)) = Complete(modules, ld)
        /\ Append(ld, f) \in Seq(Frame)
    <3>1. \A i \in 1 .. Len(ld) :
             /\ ld[i].lib = ld[i].lib
             /\ ToSet(ld[i].todo) \subseteq ToSet(ld[i].todo)
             /\ ToSet(ld[i].todo) \cap disk.files
                    \subseteq modules \cup {f.lib} \cup ToSet(ld[i].todo)
      OBVIOUS
    <3>2. ld # <<>> => f.lib \in Found(ld[Len(ld)].lib)
      BY <2>b
    <3>. QED BY ONLY <2>1, <3>1, <3>2, EnterOrdered
  <2>3. modules' = modules \cup {f.lib} /\ loads' = Append(ld, f)
    BY <1>1, <1>4, <2>b
  <2>. QED BY <2>2, <2>3, <2>a
<1>7. provider' \in [Syms -> Libs \cup {Nobody}]
  BY <1>1, <1>3 DEF RegisterExports, LTypes
<1>8. LTypes'
  BY <1>1, <1>2, <1>3, <1>6, <1>7 DEF LTypes
<1>9. Bindings(modules', loads', got', deferred')
  BY <1>1, <1>6 DEF LinkingInv, Bindings
<1>10. Started(modules', loads', got', Starts')
  BY <1>1, <1>2, <1>6, KeepStarted DEF LinkingInv, Starts
<1>11. CleanIsSettled'
  BY <1>1 DEF CleanIsSettled
<1>12. IfuncsDone'
  BY <1>1, <1>2, <1>3 DEF LinkingInv, IfuncsDone, LTypes
<1>. QED BY <1>1, <1>6, <1>8, <1>9, <1>10, <1>11, <1>12, SameDisk

LEMMA LoadNeededKeeps ==
    ASSUME LinkingInv, LoadNeeded
    PROVE  LinkingInv'
<1> DEFINE d     == Head(Inner.todo)
           outer == [loads EXCEPT ![Len(loads)].todo = Tail(@)]
           f     == [lib |-> d, todo |-> disk.needs[d], dependency |-> TRUE, scan |-> FALSE]
<1>a. PICK n : n = Len(loads)
  OBVIOUS
<1>1. /\ loads # <<>> /\ Inner.todo # <<>>
      /\ UNCHANGED <<disk, supplied, got, deferred, listed, starts, clean, nested>>
      /\ \/ /\ d \in disk.files /\ d \notin modules
            /\ modules' = modules \cup {d} /\ RegisterExports(d, FALSE)
            /\ loads' = Append(outer, f)
         \/ /\ d \notin disk.files \/ d \in modules
            /\ loads' = outer /\ UNCHANGED <<modules, provider, isWeak>>
  BY DEF LoadNeeded, Enter
<1>2. UNCHANGED <<irelative, pendingInit, phase, running, applied, ran>>
  BY <1>1 DEF starts
<1>3. LTypes /\ Ordered(modules, loads) /\ modules \in SUBSET Libs
  BY DEF LinkingInv, LTypes
<1>4. /\ loads \in Seq(Frame) /\ n \in Nat \ {0} /\ n \in 1 .. n /\ DOMAIN loads = 1 .. n
      /\ loads[n] \in Frame /\ Inner = loads[n]
  BY <1>1, <1>3, <1>a DEF LTypes, Inner, Last
<1>5. /\ loads[n].lib \in Libs /\ loads[n].todo \in Seq(Libs) /\ loads[n].todo # <<>>
      /\ d = Head(loads[n].todo)
  BY <1>1, <1>4 DEF Frame
<1>6. /\ Tail(loads[n].todo) \in Seq(Libs) /\ d \in Libs
      /\ ToSet(loads[n].todo) = ToSet(Tail(loads[n].todo)) \cup {d}
  BY <1>5, TailSet
<1>7. [loads[n] EXCEPT !.todo = Tail(loads[n].todo)] \in Frame
  BY <1>4, <1>6 DEF Frame
<1>8. /\ outer \in Seq(Frame) /\ Len(outer) = n /\ DOMAIN outer = 1 .. n
      /\ outer[n] = [loads[n] EXCEPT !.todo = Tail(loads[n].todo)]
      /\ \A i \in 1 .. n : i # n => outer[i] = loads[i]
  <2>1. outer = [loads EXCEPT ![n] = [loads[n] EXCEPT !.todo = Tail(loads[n].todo)]]
    BY <1>4, <1>a
  <2>. QED BY <1>4, <1>7, <1>a, <2>1, ExceptSeq
<1>9. outer[n].lib = loads[n].lib /\ outer[n].todo = Tail(loads[n].todo)
  BY <1>4, <1>8 DEF Frame
<1>10. f \in Frame /\ f.lib = d /\ f.todo = disk.needs[d]
  BY <1>3, <1>6, FoundTyped DEF Frame
<1>. HIDE DEF outer, d, f
<1>11. \A i \in 1 .. n :
          /\ outer[i].lib = loads[i].lib
          /\ ToSet(outer[i].todo) \subseteq ToSet(loads[i].todo)
          /\ ToSet(loads[i].todo) \subseteq ToSet(outer[i].todo) \cup {d}
  BY <1>6, <1>8, <1>9
<1>12. /\ Ordered(modules', loads') /\ Complete(modules', loads') = Complete(modules, loads)
       /\ loads' \in Seq(Frame) /\ modules' \in SUBSET Libs
       /\ provider' \in [Syms -> Libs \cup {Nobody}]
  <2>1. CASE loads' = outer
    <3>1. (d \notin disk.files \/ d \in modules) /\ modules' = modules /\ provider' = provider
      <4>1. ASSUME NEW e \in Frame PROVE Append(outer, e) # outer
        <5>1. Len(Append(outer, e)) = Len(outer) + 1 /\ Len(outer) \in Nat
          BY <1>8
        <5>. QED BY <5>1
      <4>. QED BY <1>1, <1>10, <2>1, <4>1
    <3>2. \A i \in 1 .. n :
             /\ outer[i].lib = loads[i].lib
             /\ ToSet(outer[i].todo) \subseteq ToSet(loads[i].todo)
             /\ ToSet(loads[i].todo) \cap disk.files \subseteq modules \cup ToSet(outer[i].todo)
      BY <1>11, <3>1
    <3>2a. n = Len(loads) /\ Len(outer) = Len(loads)
      BY <1>8, <1>a
    <3>3. Ordered(modules, outer) /\ Complete(modules, outer) = Complete(modules, loads)
      BY ONLY SMTT(60), <1>3, <1>4, <1>8, <3>2a, <3>2, SkipOrdered
    <3>. QED BY <1>3, <1>8, <2>1, <3>1, <3>3 DEF LTypes
  <2>2. CASE loads' # outer
    <3>1. /\ d \in disk.files /\ d \notin modules
          /\ modules' = modules \cup {d} /\ RegisterExports(d, FALSE) /\ loads' = Append(outer, f)
      BY <1>1, <2>2
    <3>2. \A i \in 1 .. n :
             /\ outer[i].lib = loads[i].lib
             /\ ToSet(outer[i].todo) \subseteq ToSet(loads[i].todo)
             /\ ToSet(loads[i].todo) \cap disk.files
                    \subseteq modules \cup {f.lib} \cup ToSet(outer[i].todo)
      BY <1>10, <1>11
    <3>3. d \in Found(loads[n].lib)
      <4>1. ToSet(loads[n].todo) \subseteq ToSet(disk.needs[loads[n].lib])
        BY <1>3, <1>4 DEF Ordered
      <4>. QED BY <1>6, <3>1, <4>1 DEF Found
    <3>3a. n = Len(loads) /\ Len(outer) = Len(loads) /\ f.lib \notin modules
      BY <1>8, <1>10, <1>a, <3>1
    <3>3b. loads # <<>> => f.lib \in Found(loads[Len(loads)].lib)
      BY <1>10, <1>a, <3>3
    <3>4. /\ Ordered(modules \cup {f.lib}, Append(outer, f))
          /\ Complete(modules \cup {f.lib}, Append(outer, f)) = Complete(modules, loads)
          /\ Append(outer, f) \in Seq(Frame)
      BY ONLY <1>3, <1>4, <1>8, <1>10, <3>2, <3>3a, <3>3b, EnterOrdered
    <3>5. provider' \in [Syms -> Libs \cup {Nobody}]
      BY <1>3, <1>6, <3>1 DEF RegisterExports, LTypes
    <3>. QED BY <1>3, <1>6, <1>10, <3>1, <3>4, <3>5
  <2>. QED BY <2>1, <2>2
<1>13. LTypes'
  BY <1>1, <1>2, <1>3, <1>12 DEF LTypes
<1>14. Bindings(modules', loads', got', deferred')
  BY <1>1, <1>12 DEF LinkingInv, Bindings
<1>15. Started(modules', loads', got', Starts')
  BY <1>1, <1>2, <1>12, KeepStarted DEF LinkingInv, Starts
<1>16. clean' = FALSE
  BY <1>1, <1>3 DEF LinkingInv, CleanIsSettled, LTypes
<1>17. CleanIsSettled'
  BY <1>16 DEF CleanIsSettled
<1>18. IfuncsDone'
  BY <1>1, <1>2 DEF LinkingInv, IfuncsDone
<1>. QED BY <1>1, <1>12, <1>13, <1>14, <1>15, <1>17, <1>18, SameDisk

(* The innermost load leaves the stack, by its end or by a rejection.        *)
LEMMA LeaveFacts ==
    ASSUME LinkingInv, loads # <<>>, Inner.todo = <<>>
    PROVE  /\ Inner.lib \in Libs /\ Inner.lib \in modules \ Complete(modules, loads)
           /\ Ordered(modules, Front(loads)) /\ Front(loads) \in Seq(Frame)
           /\ Complete(modules, Front(loads)) = Complete(modules, loads) \cup {Inner.lib}
           /\ Len(Front(loads)) = Len(loads) - 1
           /\ Len(loads) = 1 => Front(loads) = <<>>
           /\ disk.imports[Inner.lib] \in SUBSET Syms
           /\ clean = FALSE
<1>1. LTypes /\ Ordered(modules, loads) /\ loads \in Seq(Frame) /\ modules \in SUBSET Libs
  BY DEF LinkingInv, LTypes
<1>2. /\ Ordered(modules, Front(loads)) /\ Front(loads) \in Seq(Frame)
      /\ Complete(modules, Front(loads)) = Complete(modules, loads) \cup {Inner.lib}
      /\ Inner.lib \in modules \ Complete(modules, loads)
  BY <1>1, LeaveOrdered DEF Inner
<1>3. Inner.lib \in Libs
  BY <1>1, <1>2
<1>4. disk.imports[Inner.lib] \in SUBSET Syms
  BY <1>1, <1>3 DEF LTypes, Disk
<1>5. Len(Front(loads)) = Len(loads) - 1
  BY <1>1, FrontOf
<1>6. Len(loads) = 1 => Front(loads) = <<>>
  BY <1>2, <1>5
<1>7. clean = FALSE
  BY <1>1 DEF LinkingInv, CleanIsSettled, LTypes
<1>. QED BY <1>2, <1>3, <1>4, <1>5, <1>6, <1>7

LEMMA IfuncQueued ==
    ASSUME LinkingInv, NEW l \in Libs, l \notin Complete(modules, loads), loads # <<>>,
           irelative' = irelative \/ irelative' = Append(irelative, l),
           UNCHANGED <<phase, running, ran, nested>>, LTypes'
    PROVE  IfuncsDone' /\ irelative' \in Seq(Libs)
<1>1. irelative \in Seq(Libs) /\ ran \in Seq(Libs)
  BY DEF LinkingInv, LTypes
<1>2. ToSet(irelative') \subseteq ToSet(irelative) \cup {l} /\ irelative' \in Seq(Libs)
  <2>1. ToSet(Append(irelative, l)) = ToSet(irelative) \cup {l} /\ Append(irelative, l) \in Seq(Libs)
    BY <1>1, AppendSet
  <2>. QED BY <1>1, <2>1
<1>3. \A i \in DOMAIN ran : ran[i] # l
  <2>1. Starts \in Seq(Libs) /\ \A i \in 1 .. Len(ran) : i \in DOMAIN Starts /\ Starts[i] = ran[i]
    <3>1. pendingInit \in Seq(Libs)
      BY DEF LinkingInv, LTypes
    <3>. QED BY <1>1, <3>1 DEF Starts
  <2>2. \A i \in DOMAIN Starts : Starts[i] \in Complete(modules, loads)
    BY DEF LinkingInv, Started
  <2>. QED BY <1>1, <2>1, <2>2
<1>4. IfuncsDone /\ nested \in BOOLEAN
  BY DEF LinkingInv, LTypes
<1>5. running' # Nobody => phase' = "constructors"
  BY <1>4 DEF IfuncsDone
<1>6. ~nested => phase = "idle"
  BY <1>4 DEF IfuncsDone
<1>7. ~nested' => phase' = "idle"
  BY <1>6
<1>8. ~nested' => \A i \in DOMAIN ran' : ran'[i] \notin ToSet(irelative')
  BY <1>2, <1>3, <1>4 DEF IfuncsDone
<1>9. ToSet(irelative)' = ToSet(irelative')
  BY DEF ToSet
<1>. QED BY <1>2, <1>5, <1>7, <1>8, <1>9 DEF IfuncsDone

LEMMA FinishKeeps ==
    ASSUME LinkingInv, Finish
    PROVE  LinkingInv'
<1>a. PICK l : l = Inner.lib
  OBVIOUS
<1>b. PICK g : g = Bound(l, disk.imports[l])
  OBVIOUS
<1>c. PICK d : d = Deferred(l, disk.imports[l])
  OBVIOUS
<1>d. PICK out : out = Front(loads)
  OBVIOUS
<1>1. /\ loads # <<>> /\ Inner.todo = <<>> /\ l \notin disk.rejected
      /\ got' = IF Len(loads) = 1 THEN Settled(g, d) ELSE g
      /\ deferred' = IF Len(loads) = 1 THEN Waiting(d) ELSE d
      /\ listed' = IF Len(loads) = 1 THEN modules ELSE listed
      /\ clean' = (Len(loads) = 1)
      /\ irelative' = irelative \/ irelative' = Append(irelative, l)
      /\ pendingInit' = pendingInit \/ pendingInit' = Append(pendingInit, l)
      /\ loads' = out
      /\ UNCHANGED <<disk, modules, provider, isWeak, supplied, phase, running, applied, ran, nested>>
  BY <1>a, <1>b, <1>c, <1>d DEF Finish, Rebuilt
<1>2. /\ l \in Libs /\ l \notin Complete(modules, loads)
      /\ Ordered(modules, out) /\ out \in Seq(Frame)
      /\ Complete(modules, out) = Complete(modules, loads) \cup {l}
      /\ Len(loads) = 1 => out = <<>>
      /\ disk.imports[l] \in SUBSET Syms
  BY <1>1, <1>a, <1>d, LeaveFacts
<1>3. LTypes /\ Ordered(modules, loads) /\ modules \in SUBSET Libs
  BY DEF LinkingInv, LTypes
<1>4. /\ Bindings(modules, out, g, d)
      /\ DOMAIN g = DOMAIN got \cup ({l} \X disk.imports[l])
  <2>1. Bindings(modules, loads, got, deferred)
    BY DEF LinkingInv
  <2>2. PICK some \in SUBSET Syms : some = disk.imports[l]
    BY <1>2
  <2>3. /\ Bindings(modules, out, Bound(l, some), Deferred(l, some))
        /\ DOMAIN Bound(l, some) = DOMAIN got \cup ({l} \X some)
    <3>1. LTypes /\ Bindings(modules, loads, got, deferred) /\ some \in SUBSET Syms
      BY <1>2, <1>3, <2>1
    <3>2. l \notin Complete(modules, loads)
      BY <1>2, <1>3, <2>1
    <3>3. Complete(modules, out) = Complete(modules, loads) \cup {l}
      BY <1>2, <1>3, <2>1
    <3>4. Bindings(modules, out, Bound(l, some), Deferred(l, some))
      BY ONLY <3>1, <3>2, <3>3, BoundBindings
    <3>5. DOMAIN Bound(l, some) = DOMAIN got \cup ({l} \X some)
      BY DEF Bound
    <3>. QED BY <3>4, <3>5
  <2>. QED BY <1>b, <1>c, <2>2, <2>3
<1>5. /\ Bindings(modules, out, Settled(g, d), Waiting(d))
      /\ DOMAIN Settled(g, d) = DOMAIN g /\ ~Unsettled(Settled(g, d))
  BY <1>3, <1>4, SettledBindings
<1>6. Bindings(modules, out, got', deferred') /\ DOMAIN got' = DOMAIN g
  BY <1>1, <1>4, <1>5
<1>7. irelative' \in Seq(Libs) /\ pendingInit' \in Seq(Libs)
  <2>1. irelative \in Seq(Libs) /\ pendingInit \in Seq(Libs)
    BY <1>3 DEF LTypes
  <2>2. Append(irelative, l) \in Seq(Libs) /\ Append(pendingInit, l) \in Seq(Libs)
    BY <1>2, <2>1
  <2>. QED BY <1>1, <2>1, <2>2
<1>8. LTypes'
  BY <1>1, <1>2, <1>3, <1>7 DEF LTypes
<1>9. Started(modules, out, got', Starts')
  <2>1. CASE pendingInit' = pendingInit
    <3>1. Starts' = Starts
      BY <1>1, <2>1 DEF Starts
    <3>. QED BY <1>2, <1>4, <1>6, <3>1, KeepStarted DEF LinkingInv
  <2>2. CASE pendingInit' = Append(pendingInit, l)
    <3>1. ran \in Seq(Libs) /\ pendingInit \in Seq(Libs) /\ ran' = ran
      BY <1>1, <1>3 DEF LTypes
    <3>2. Starts' = Append(Starts, l)
      BY <1>2, <2>2, <3>1 DEF Starts
    <3>3. Starts \in Seq(Libs)
      BY <1>3, StartsTyped
    <3>4. DOMAIN got \subseteq DOMAIN got' /\ \A y \in disk.imports[l] : <<l, y>> \in DOMAIN got'
      BY <1>4, <1>6
    <3>5. Started(modules, loads, got, Starts)
      BY DEF LinkingInv
    <3>. QED BY <1>1, <1>2, <1>3, <3>2, <3>3, <3>4, <3>5, QueueStarted
  <2>. QED BY <1>1, <2>1, <2>2
<1>10. CleanIsSettled'
  <2>1. ASSUME Len(loads) = 1 PROVE loads' = <<>> /\ listed' = modules' /\ ~Unsettled(got)'
    <3>1. got' = Settled(g, d)
      BY <1>1, <2>1
    <3>2. \A y : Resolve(y)' = Resolve(y)
      BY <1>1 DEF Resolve
    <3>3. ~Unsettled(got)'
      BY <1>5, <3>1, <3>2 DEF Unsettled
    <3>. QED BY <1>1, <1>2, <2>1, <3>3
  <2>2. clean' => Len(loads) = 1
    BY <1>1
  <2>. QED BY <2>1, <2>2 DEF CleanIsSettled
<1>11. IfuncsDone'
  BY <1>1, <1>2, <1>8, IfuncQueued
<1>. QED BY <1>1, <1>2, <1>6, <1>8, <1>9, <1>10, <1>11, SameDisk

LEMMA RejectKeeps ==
    ASSUME LinkingInv, Reject
    PROVE  LinkingInv'
<1>a. PICK l : l = Inner.lib
  OBVIOUS
<1>d. PICK out : out = Front(loads)
  OBVIOUS
<1>1. PICK some \in SUBSET disk.imports[l] :
         got' = Bound(l, some) /\ deferred' = Deferred(l, some)
  BY <1>a DEF Reject
<1>2. /\ loads # <<>> /\ Inner.todo = <<>>
      /\ irelative' = irelative \/ irelative' = Append(irelative, l)
      /\ loads' = out
      /\ UNCHANGED <<disk, modules, provider, isWeak, supplied, listed, pendingInit, phase,
                     running, applied, ran, clean, nested>>
  BY <1>a, <1>d DEF Reject
<1>3. /\ l \in Libs /\ l \notin Complete(modules, loads)
      /\ Ordered(modules, out) /\ out \in Seq(Frame)
      /\ Complete(modules, out) = Complete(modules, loads) \cup {l}
      /\ disk.imports[l] \in SUBSET Syms /\ clean = FALSE
  BY <1>2, <1>a, <1>d, LeaveFacts
<1>4. LTypes /\ modules \in SUBSET Libs
  BY DEF LinkingInv, LTypes
<1>5. /\ Bindings(modules, out, got', deferred')
      /\ DOMAIN got' = DOMAIN got \cup ({l} \X some)
  <2>1. Bindings(modules, loads, got, deferred) /\ some \in SUBSET Syms
    BY <1>3 DEF LinkingInv
  <2>2. /\ Bindings(modules, out, Bound(l, some), Deferred(l, some))
        /\ DOMAIN Bound(l, some) = DOMAIN got \cup ({l} \X some)
    <3>1. LTypes /\ Bindings(modules, loads, got, deferred) /\ some \in SUBSET Syms
      BY <1>3, <1>4, <2>1
    <3>2. l \notin Complete(modules, loads)
      BY <1>3, <1>4, <2>1
    <3>3. Complete(modules, out) = Complete(modules, loads) \cup {l}
      BY <1>3, <1>4, <2>1
    <3>4. Bindings(modules, out, Bound(l, some), Deferred(l, some))
      BY ONLY <3>1, <3>2, <3>3, BoundBindings
    <3>5. DOMAIN Bound(l, some) = DOMAIN got \cup ({l} \X some)
      BY DEF Bound
    <3>. QED BY <3>4, <3>5
  <2>. QED BY <1>1, <2>2
<1>6. irelative' \in Seq(Libs)
  <2>1. irelative \in Seq(Libs)
    BY <1>4 DEF LTypes
  <2>2. Append(irelative, l) \in Seq(Libs)
    BY <1>3, <2>1
  <2>. QED BY <1>2, <2>1, <2>2
<1>7. LTypes'
  BY <1>2, <1>3, <1>4, <1>6 DEF LTypes
<1>8. Started(modules, out, got', Starts')
  BY <1>2, <1>3, <1>5, KeepStarted DEF LinkingInv, Starts
<1>9. CleanIsSettled'
  BY <1>2, <1>3 DEF CleanIsSettled
<1>10. IfuncsDone'
  BY <1>2, <1>3, <1>7, IfuncQueued
<1>. QED BY <1>2, <1>3, <1>5, <1>7, <1>8, <1>9, <1>10, SameDisk

LEMMA SupplyKeeps ==
    ASSUME LinkingInv, NEW y \in Syms, Supply(y)
    PROVE  LinkingInv'
<1>1. /\ clean' = FALSE
      /\ UNCHANGED <<disk, modules, provider, isWeak, got, deferred, loads, listed, nested,
                     irelative, pendingInit, phase, running, applied, ran>>
  BY DEF Supply, starts
<1>2. LTypes'
  BY <1>1 DEF LinkingInv, LTypes
<1>3. Starts' = Starts
  BY <1>1 DEF Starts
<1>4. CleanIsSettled' /\ IfuncsDone'
  BY <1>1 DEF LinkingInv, CleanIsSettled, IfuncsDone
<1>. QED BY <1>1, <1>2, <1>3, <1>4, TablesKept, SameDisk

(* The steps of run_pending_init.                                            *)
LEMMA StartKeeps ==
    ASSUME LinkingInv, UNCHANGED <<disk, tables, clean, nested>>,
           LTypes', Starts' = Starts, IfuncsDone'
    PROVE  LinkingInv'
<1>1. UNCHANGED <<modules, provider, isWeak, supplied, got, deferred, loads, listed>>
  BY DEF tables
<1>2. CleanIsSettled'
  BY <1>1 DEF LinkingInv, CleanIsSettled, Unsettled, Resolve
<1>. QED BY <1>1, <1>2, TablesKept, SameDisk

LEMMA StartingKeeps ==
    ASSUME LinkingInv,
           RunPendingInit \/ ResolveIfunc \/ BeginConstructors \/ Construct
              \/ Constructed \/ AllConstructed
    PROVE  LinkingInv'
<1>0. LTypes /\ IfuncsDone
  BY DEF LinkingInv
<1>1. CASE RunPendingInit
  <2>1. /\ UNCHANGED <<disk, tables, clean, nested, irelative, pendingInit, running, ran>>
        /\ phase' = "ifuncs" /\ loads = <<>> /\ loads' = loads /\ running = Nobody
    BY <1>1 DEF RunPendingInit, Between, tables
  <2>2. LTypes' /\ Starts' = Starts /\ IfuncsDone'
    BY <1>0, <2>1 DEF LTypes, Starts, IfuncsDone, tables
  <2>. QED BY <2>1, <2>2, StartKeeps
<1>2. CASE ResolveIfunc
  <2>1. /\ UNCHANGED <<disk, tables, clean, nested, pendingInit, running, ran>>
        /\ phase' \in {"ifuncs", "idle"} /\ loads' = <<>> /\ irelative # <<>>
        /\ irelative' = Tail(irelative) /\ running = Nobody
    BY <1>2 DEF ResolveIfunc, Between, tables
  <2>2. irelative \in Seq(Libs)
    BY <1>0 DEF LTypes
  <2>3. irelative' \in Seq(Libs) /\ ToSet(irelative') \subseteq ToSet(irelative)
    BY <2>1, <2>2, TailSet
  <2>4. LTypes' /\ Starts' = Starts
    BY <1>0, <2>1, <2>3 DEF LTypes, Starts, tables
  <2>5. ~nested' => \A i \in DOMAIN ran' : ran'[i] \notin ToSet(irelative')
    BY <1>0, <2>1, <2>3 DEF IfuncsDone
  <2>6. ToSet(irelative)' = ToSet(irelative')
    BY DEF ToSet
  <2>7. IfuncsDone'
    BY <2>1, <2>5, <2>6 DEF IfuncsDone
  <2>. QED BY <2>1, <2>4, <2>7, StartKeeps
<1>3. CASE BeginConstructors
  <2>1. /\ UNCHANGED <<disk, tables, clean, nested, irelative, pendingInit, running, ran>>
        /\ phase' = "constructors" /\ loads = <<>> /\ loads' = loads
        /\ irelative = <<>>
    BY <1>3 DEF BeginConstructors, Between, tables
  <2>2. LTypes' /\ Starts' = Starts /\ IfuncsDone'
    BY <1>0, <2>1 DEF LTypes, Starts, IfuncsDone, tables
  <2>. QED BY <2>1, <2>2, StartKeeps
<1>4. CASE Construct
  <2>a. PICK l : l = Head(pendingInit)
    OBVIOUS
  <2>1. /\ UNCHANGED <<disk, tables, clean, nested, irelative, phase>>
        /\ phase = "constructors" /\ loads = <<>> /\ loads' = loads /\ pendingInit # <<>>
        /\ running' = l /\ pendingInit' = Tail(pendingInit) /\ ran' = Append(ran, l)
    BY <1>4, <2>a DEF Construct, Between, tables
  <2>2. pendingInit \in Seq(Libs) /\ ran \in Seq(Libs)
    BY <1>0 DEF LTypes
  <2>3. l \in Libs /\ pendingInit' \in Seq(Libs) /\ ran' \in Seq(Libs)
    BY <2>1, <2>2, <2>a
  <2>4. Starts' = Starts
    <3>1. Append(ran, l) \o Tail(pendingInit) = ran \o pendingInit
      BY <2>1, <2>2, <2>3, <2>a
    <3>. QED BY <2>1, <3>1 DEF Starts
  <2>5. LTypes'
    BY <1>0, <2>1, <2>3 DEF LTypes, tables
  <2>6. ~nested' => irelative' = <<>>
    BY <1>0, <2>1 DEF IfuncsDone
  <2>7. ToSet(irelative)' = ToSet(irelative') /\ ToSet(<<>>) = {}
    BY DEF ToSet
  <2>8. IfuncsDone'
    BY <2>1, <2>6, <2>7 DEF IfuncsDone
  <2>. QED BY <2>1, <2>4, <2>5, <2>8, StartKeeps
<1>5. CASE Constructed
  <2>1. /\ UNCHANGED <<disk, tables, clean, nested, irelative, pendingInit, ran>>
        /\ phase' \in {phase, "idle"} /\ loads = <<>> /\ loads' = loads /\ running' = Nobody
    BY <1>5 DEF Constructed, tables
  <2>2. LTypes' /\ Starts' = Starts /\ IfuncsDone'
    BY <1>0, <2>1 DEF LTypes, Starts, IfuncsDone, tables
  <2>. QED BY <2>1, <2>2, StartKeeps
<1>6. CASE AllConstructed
  <2>1. /\ UNCHANGED <<disk, tables, clean, nested, irelative, pendingInit, running, ran>>
        /\ phase' = "idle" /\ loads = <<>> /\ loads' = loads /\ running = Nobody
    BY <1>6 DEF AllConstructed, Between, tables
  <2>2. LTypes' /\ Starts' = Starts /\ IfuncsDone'
    BY <1>0, <2>1 DEF LTypes, Starts, IfuncsDone, tables
  <2>. QED BY <2>1, <2>2, StartKeeps
<1>. QED BY <1>1, <1>2, <1>3, <1>4, <1>5, <1>6

-----------------------------------------------------------------------------
LEMMA LinkingInductive == LinkingInv /\ [LNext]_lvars => LinkingInv'
<1>. SUFFICES ASSUME LinkingInv, [LNext]_lvars PROVE LinkingInv'
  OBVIOUS
<1>1. CASE UNCHANGED lvars
  <2>1. UNCHANGED <<disk, tables, starts, clean, nested>>
    BY <1>1 DEF lvars
  <2>2. UNCHANGED <<irelative, pendingInit, phase, running, applied, ran>>
    BY <2>1 DEF starts
  <2>3. LTypes' /\ Starts' = Starts /\ IfuncsDone'
    BY <2>1, <2>2 DEF LinkingInv, LTypes, Starts, IfuncsDone, tables
  <2>. QED BY <2>1, <2>3, StartKeeps
<1>. QED BY <1>1, LoadKeeps, LoadNeededKeeps, FinishKeeps, RejectKeeps, SupplyKeeps,
            StartingKeeps DEF LNext

LEMMA LinkingBegins == LInit => LinkingInv
<1>. SUFFICES ASSUME LInit PROVE LinkingInv
  OBVIOUS
<1>1. <<>> \in Seq(Frame) /\ <<>> \in Seq(Libs) /\ DOMAIN <<>> = {} /\ <<>> \o <<>> = <<>>
  OBVIOUS
<1>2. LTypes
  BY <1>1, LinkingAssumption DEF LInit, LTypes
<1>3. Complete(modules, loads) = {}
  BY DEF LInit, Complete
<1>4. Ordered(modules, loads) /\ Bindings(modules, loads, got, deferred)
  BY <1>1, <1>3 DEF LInit, Ordered, Bindings
<1>5. Started(modules, loads, got, Starts)
  BY <1>1 DEF LInit, Started, Starts
<1>6. CleanIsSettled /\ IfuncsDone
  BY <1>1 DEF LInit, CleanIsSettled, IfuncsDone, Unsettled
<1>. QED BY <1>2, <1>4, <1>5, <1>6 DEF LinkingInv

(* For every set of libraries, whatever they need, export and import, and    *)
(* whatever is loaded, rejected, supplied and started in whatever order:     *)
(* when the last outermost load returned, so was not rejected, and nothing   *)
(* was supplied since, no import is left poisoned that somebody provides,    *)
(* and the link_map lists what is registered.                                *)
THEOREM LoadsAlwaysSettle == LSpec => []LoadsSettle
<1>1. LinkingInv => LoadsSettle
  BY DEF LinkingInv, Bindings, CleanIsSettled, Unsettled, LoadsSettle
<1>. QED BY <1>1, LinkingBegins, LinkingInductive, PTL DEF LSpec

(* ... and libraries are started once, complete; after what they need, but   *)
(* for what needs them in turn; and after their ifuncs, as long as no        *)
(* constructor has loaded a library.                                         *)
THEOREM StartsAlwaysInOrder == LSpec => []StartsInOrder
<1>1. LinkingInv => StartsInOrder
  <2> SUFFICES ASSUME LinkingInv PROVE StartedOnce /\ NeededFirst /\ IfuncsFirst
    BY DEF StartsInOrder
  <2>. QED BY DEF LinkingInv, Started, IfuncsDone, StartedOnce, NeededFirst, IfuncsFirst
<1>. QED BY <1>1, LinkingBegins, LinkingInductive, PTL DEF LSpec
===============================================================================
