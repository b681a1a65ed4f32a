------------------------------ MODULE FilesProofs ------------------------------
(***************************************************************************)
(* For every number of descriptors, handles and entries, and every history *)
(* of calls: the two sides of a pipe or pair know of each other exactly    *)
(* what the descriptors say, and epoll reports what the guest can observe. *)
(***************************************************************************)
EXTENDS FdTable, FiniteSetTheorems, SequenceTheorems, WellFoundedInduction, TLAPS

Kinds == {"stdio", "reader", "writer", "socket", "eventfd", "epoll"}

Watching == UNION {[D -> [file : Nat, in : BOOLEAN]] : D \in SUBSET Fd}

FileSet ==
    [kind : Kinds, link : Nat, pair : Nat, closed : BOOLEAN, hungUp : BOOLEAN,
     handler : BOOLEAN, data : Int, watch : Watching]

PipeSet == [buffer : 0 .. MaxData, readers : Nat, writers : Nat]

(* A pipe has one reader and one writer, and counts the one that is open.    *)
Unique(fs, i) ==
    \A j \in DOMAIN fs : fs[j].kind = fs[i].kind /\ fs[j].link = fs[i].link => j = i

Counts(fs, kind, p, n) ==
    \E i \in DOMAIN fs :
        fs[i].kind = kind /\ fs[i].link = p /\ n = IF fs[i].closed THEN 0 ELSE 1

EndsGood(fs, ps) ==
    /\ \A i \in DOMAIN fs :
          fs[i].kind \in {"reader", "writer"} => fs[i].link \in DOMAIN ps /\ Unique(fs, i)
    /\ \A p \in DOMAIN ps :
          Counts(fs, "reader", p, ps[p].readers) /\ Counts(fs, "writer", p, ps[p].writers)

(* The sockets of a pair belong to each other for good; they are linked while *)
(* both are open, and the one that stays open longer has been told.          *)
Paired(fs, i) ==
    /\ fs[i].pair \in DOMAIN fs /\ fs[i].pair # i
    /\ fs[fs[i].pair].kind = "socket" /\ fs[fs[i].pair].pair = i
    /\ fs[i].link = IF fs[i].closed \/ fs[fs[i].pair].closed THEN NoLink ELSE fs[i].pair
    /\ ~fs[i].closed => (fs[i].hungUp <=> fs[fs[i].pair].closed)

Lonely(fs, i) == fs[i].pair = NoLink /\ fs[i].link = NoLink /\ ~fs[i].hungUp

SocketsGood(fs) ==
    \A i \in DOMAIN fs : fs[i].kind = "socket" => Lonely(fs, i) \/ Paired(fs, i)

Closes(fs, i) == fs[i].kind \in {"reader", "writer", "socket"}

ClosedGood(f, fs) == \A i \in DOMAIN fs : Closes(fs, i) => (fs[i].closed <=> ~Refers(f, i))

Typed(f, fs, ps) ==
    /\ fs \in Seq(FileSet) /\ ps \in Seq(PipeSet)
    /\ DOMAIN f \subseteq Fd /\ \A fd \in DOMAIN f : f[fd] \in DOMAIN fs

Good(f, fs, ps) ==
    Typed(f, fs, ps) /\ EndsGood(fs, ps) /\ SocketsGood(fs) /\ ClosedGood(f, fs)

FilesInv == Good(fds, files, pipes)

-----------------------------------------------------------------------------
LEMMA ExceptFile ==
    ASSUME NEW S, NEW s \in Seq(S), NEW i \in DOMAIN s, NEW v \in S
    PROVE  /\ [s EXCEPT ![i] = v] \in Seq(S)
           /\ DOMAIN [s EXCEPT ![i] = v] = DOMAIN s
           /\ [s EXCEPT ![i] = v][i] = v
           /\ \A j \in DOMAIN s : j # i => [s EXCEPT ![i] = v][j] = s[j]
<1>1. s \in [1 .. Len(s) -> S] /\ Len(s) \in Nat
  OBVIOUS
<1> DEFINE n == Len(s)
<1>2. [s EXCEPT ![i] = v] \in [1 .. n -> S]
  BY <1>1
<1>3. [s EXCEPT ![i] = v] \in Seq(S)
  BY <1>1, <1>2
<1>. QED BY <1>1, <1>3

LEMMA AppendFile ==
    ASSUME NEW S, NEW s \in Seq(S), NEW v \in S
    PROVE  /\ Append(s, v) \in Seq(S) /\ Len(s) \in Nat
           /\ DOMAIN s = 1 .. Len(s)
           /\ DOMAIN Append(s, v) = 1 .. Len(s) + 1
           /\ Append(s, v)[Len(s) + 1] = v
           /\ \A j \in DOMAIN s : Append(s, v)[j] = s[j]
OBVIOUS

(* What reading, writing, connecting and waiting do to handles and pipes:    *)
(* only data changes.                                                        *)
SameEnds(ps, qs) ==
    /\ DOMAIN qs = DOMAIN ps
    /\ \A p \in DOMAIN ps : qs[p].readers = ps[p].readers /\ qs[p].writers = ps[p].writers

Alike(a, b) ==
    a.kind = b.kind /\ a.link = b.link /\ a.pair = b.pair /\ a.closed = b.closed /\ a.hungUp = b.hungUp

SameFiles(fs, gs) ==
    DOMAIN gs = DOMAIN fs /\ \A i \in DOMAIN fs : Alike(gs[i], fs[i])

LEMMA QuietGood ==
    ASSUME NEW f, NEW fs, NEW ps, Good(f, fs, ps),
           NEW gs \in Seq(FileSet), NEW qs \in Seq(PipeSet), SameFiles(fs, gs), SameEnds(ps, qs)
    PROVE  Good(f, gs, qs)
<1>1. Typed(f, gs, qs)
  BY DEF Good, Typed, SameFiles
<1>2. EndsGood(gs, qs)
  <2>1. EndsGood(fs, ps)
    BY DEF Good
  <2>2. ASSUME NEW i \in DOMAIN gs, gs[i].kind \in {"reader", "writer"}
        PROVE  gs[i].link \in DOMAIN qs /\ Unique(gs, i)
    BY <2>1, <2>2 DEF EndsGood, Unique, SameFiles, SameEnds, Alike
  <2>3. ASSUME NEW kind, NEW p, NEW n, Counts(fs, kind, p, n)
        PROVE  Counts(gs, kind, p, n)
    <3>1. PICK i \in DOMAIN fs :
            fs[i].kind = kind /\ fs[i].link = p /\ n = IF fs[i].closed THEN 0 ELSE 1
      BY <2>3 DEF Counts
    <3>2. i \in DOMAIN gs /\ gs[i].kind = kind /\ gs[i].link = p /\ gs[i].closed = fs[i].closed
      BY <3>1 DEF SameFiles, Alike
    <3>. QED BY <3>1, <3>2 DEF Counts
  <2>4. ASSUME NEW p \in DOMAIN qs
        PROVE  Counts(gs, "reader", p, qs[p].readers) /\ Counts(gs, "writer", p, qs[p].writers)
    <3>1. Counts(fs, "reader", p, qs[p].readers) /\ Counts(fs, "writer", p, qs[p].writers)
      BY <2>1 DEF EndsGood, SameEnds
    <3>. QED BY <3>1, <2>3
  <2>. QED BY <2>2, <2>4 DEF EndsGood
<1>3. SocketsGood(gs)
  BY DEF Good, SocketsGood, Lonely, Paired, SameFiles, Alike
<1>4. ClosedGood(f, gs)
  BY DEF Good, ClosedGood, Closes, SameFiles, Alike
<1>. QED BY <1>1, <1>2, <1>3, <1>4 DEF Good
-----------------------------------------------------------------------------
(* Descriptors.                                                              *)
LEMMA WithRefers ==
    ASSUME NEW f, NEW fd, NEW i, fd \notin DOMAIN f
    PROVE  /\ DOMAIN With(f, fd, i) = DOMAIN f \cup {fd}
           /\ With(f, fd, i)[fd] = i
           /\ \A x \in DOMAIN f : With(f, fd, i)[x] = f[x]
           /\ \A j : Refers(With(f, fd, i), j) <=> (j = i \/ Refers(f, j))
<1>1. /\ DOMAIN With(f, fd, i) = DOMAIN f \cup {fd}
      /\ With(f, fd, i)[fd] = i
      /\ \A x \in DOMAIN f : With(f, fd, i)[x] = f[x]
  BY DEF With
<1>2. \A j : Refers(With(f, fd, i), j) <=> (j = i \/ Refers(f, j))
  BY <1>1 DEF Refers
<1>. QED BY <1>1, <1>2

LEMMA DupGood ==
    ASSUME NEW f, NEW fs, NEW ps, Good(f, fs, ps), NEW fd \in Fd, fd \notin DOMAIN f,
           NEW x \in DOMAIN f
    PROVE  Good(With(f, fd, f[x]), fs, ps)
<1>a. PICK i : i = f[x]
  OBVIOUS
<1>0. Refers(f, i)
  BY <1>a DEF Refers
<1>1. \A j : Refers(With(f, fd, i), j) <=> Refers(f, j)
  BY <1>0, WithRefers
<1>2. Typed(With(f, fd, i), fs, ps)
  <2>1. /\ DOMAIN With(f, fd, i) = DOMAIN f \cup {fd}
        /\ With(f, fd, i)[fd] = i
        /\ \A y \in DOMAIN f : With(f, fd, i)[y] = f[y]
    BY DEF With
  <2>. QED BY <1>a, <2>1 DEF Good, Typed
<1>3. ClosedGood(With(f, fd, i), fs)
  BY <1>1 DEF Good, ClosedGood
<1>. QED BY <1>a, <1>2, <1>3 DEF Good

(* The lowest free descriptor is one, if any is free.                        *)
LEMMA LeastMember ==
    ASSUME NEW S \in SUBSET Nat, S # {}
    PROVE  \E x \in S : \A y \in S : x <= y
<1>1. PICK x \in S : \A y \in S : ~(<<y, x>> \in OpToRel(<, Nat))
  BY NatLessThanWellFounded, WFMin
<1>2. \A y \in S : ~(y < x)
  BY <1>1 DEF OpToRel
<1>. QED BY <1>2

LEMMA LowestIsFree ==
    ASSUME NEW f, NEW from, FreeFds(f, from) # {}
    PROVE  Min(FreeFds(f, from)) \in Fd /\ Min(FreeFds(f, from)) \notin DOMAIN f
<1>1. FreeFds(f, from) \in SUBSET Nat /\ FreeFds(f, from) \subseteq Fd \ DOMAIN f
  BY FdTableAssumption DEF FreeFds, Fd
<1>2. \E x \in FreeFds(f, from) : \A y \in FreeFds(f, from) : x <= y
  BY <1>1, LeastMember
<1>3. Min(FreeFds(f, from)) \in FreeFds(f, from)
  BY <1>2 DEF Min
<1>. QED BY <1>1, <1>3

(* New handles.                                                              *)
LEMMA FileIsFile ==
    ASSUME NEW kind \in Kinds, NEW link \in Nat
    PROVE  File(kind, link) \in FileSet
<1>1. <<>> \in [{} -> [file : Nat, in : BOOLEAN]]
  OBVIOUS
<1>2. <<>> \in Watching
  BY <1>1 DEF Watching
<1>. QED BY <1>2 DEF File, FileSet

(* What is there stays, and everything new is open.                          *)
Extends(f, fs, g, gs) ==
    /\ DOMAIN f \subseteq DOMAIN g /\ DOMAIN fs \subseteq DOMAIN gs
    /\ \A fd \in DOMAIN f : g[fd] = f[fd]
    /\ \A i \in DOMAIN fs : gs[i] = fs[i]
    /\ \A fd \in DOMAIN g \ DOMAIN f : g[fd] \in DOMAIN gs \ DOMAIN fs
    /\ \A i \in DOMAIN gs \ DOMAIN fs : ~gs[i].closed /\ Refers(g, i)

LEMMA ExtendedGood ==
    ASSUME NEW f, NEW fs, NEW ps, Good(f, fs, ps), NEW g, NEW gs, Extends(f, fs, g, gs),
           DOMAIN g \subseteq Fd
    PROVE  /\ \A fd \in DOMAIN g : g[fd] \in DOMAIN gs
           /\ ClosedGood(g, gs)
           /\ \A i \in DOMAIN fs : gs[i].kind = "socket" => Lonely(gs, i) \/ Paired(gs, i)
           /\ \A kind, p, n : Counts(fs, kind, p, n) => Counts(gs, kind, p, n)
<1>1. \A fd \in DOMAIN g : g[fd] \in DOMAIN gs
  BY DEF Good, Typed, Extends
<1>2. ClosedGood(g, gs)
  <2>1. ASSUME NEW i \in DOMAIN gs, Closes(gs, i)
        PROVE  gs[i].closed <=> ~Refers(g, i)
    <3>1. CASE i \notin DOMAIN fs
      <4>1. ~gs[i].closed /\ Refers(g, i)
        BY <3>1 DEF Extends
      <4>. QED BY <4>1, Zenon
    <3>2. CASE i \in DOMAIN fs
      <4>1. gs[i] = fs[i]
        BY <3>2 DEF Extends
      <4>2. Refers(g, i) <=> Refers(f, i)
        BY <3>2 DEF Extends, Refers
      <4>3. fs[i].closed <=> ~Refers(f, i)
        BY <2>1, <3>2, <4>1 DEF Good, ClosedGood, Closes
      <4>. QED BY <4>1, <4>2, <4>3, Zenon
    <3>. QED BY <3>1, <3>2
  <2>. QED BY <2>1 DEF ClosedGood
<1>3. ASSUME NEW i \in DOMAIN fs, gs[i].kind = "socket"
      PROVE  Lonely(gs, i) \/ Paired(gs, i)
  <2>1. gs[i] = fs[i] /\ i \in DOMAIN gs
    BY DEF Extends
  <2>2. Lonely(fs, i) \/ Paired(fs, i)
    BY <1>3, <2>1 DEF Good, SocketsGood
  <2>3. CASE Paired(fs, i)
    <3>1. fs[i].pair \in DOMAIN fs
      BY <2>3 DEF Paired
    <3>2. gs[fs[i].pair] = fs[fs[i].pair] /\ fs[i].pair \in DOMAIN gs
      BY <3>1 DEF Extends
    <3>. QED BY <2>1, <2>3, <3>2 DEF Paired
  <2>. QED BY <2>1, <2>2, <2>3 DEF Lonely
<1>4. ASSUME NEW kind, NEW p, NEW n, Counts(fs, kind, p, n)
      PROVE  Counts(gs, kind, p, n)
  <2>1. PICK i \in DOMAIN fs :
          fs[i].kind = kind /\ fs[i].link = p /\ n = IF fs[i].closed THEN 0 ELSE 1
    BY <1>4 DEF Counts
  <2>2. i \in DOMAIN gs /\ gs[i] = fs[i]
    BY DEF Extends
  <2>. QED BY <2>1, <2>2 DEF Counts
<1>. QED BY <1>1, <1>2, <1>3, <1>4

LEMMA MakeGood ==
    ASSUME FilesInv, NEW kind \in {"socket", "eventfd", "epoll"}, Make(File(kind, NoLink)),
           UNCHANGED pipes
    PROVE  FilesInv'
<1>a. PICK n : n = Len(files)
  OBVIOUS
<1>b. PICK fd : fd = Min(FreeFds(fds, FIRST))
  OBVIOUS
<1>c. PICK new : new = File(kind, NoLink)
  OBVIOUS
<1>1. fds' = With(fds, fd, n + 1) /\ files' = Append(files, new)
  BY <1>a, <1>b, <1>c DEF Make, Installed
<1>2. fd \in Fd /\ fd \notin DOMAIN fds
  BY <1>b, LowestIsFree DEF Make, CanInstall
<1>3. new \in FileSet
  BY <1>c, FileIsFile DEF Kinds, NoLink
<1>4. new.kind = kind /\ new.link = NoLink /\ new.pair = NoLink /\ ~new.closed /\ ~new.hungUp
  BY <1>c DEF File
<1>5. Good(fds, files, pipes) /\ files \in Seq(FileSet)
  BY DEF FilesInv, Good, Typed
<1>6. /\ files' \in Seq(FileSet) /\ n \in Nat
      /\ DOMAIN files = 1 .. n /\ DOMAIN files' = 1 .. n + 1
      /\ files'[n + 1] = new
      /\ \A j \in DOMAIN files : files'[j] = files[j]
  BY <1>a, <1>1, <1>3, <1>5, AppendFile
<1>7. /\ DOMAIN fds' = DOMAIN fds \cup {fd} /\ fds'[fd] = n + 1
      /\ \A x \in DOMAIN fds : fds'[x] = fds[x]
  BY <1>1, <1>2 DEF With
<1>8. Extends(fds, files, fds', files')
  <2>1. ~files'[n + 1].closed /\ Refers(fds', n + 1)
    BY <1>4, <1>6, <1>7 DEF Refers
  <2>2. \A i \in DOMAIN files' \ DOMAIN files : i = n + 1
    BY <1>6
  <2>. QED BY <1>6, <1>7, <2>1, <2>2 DEF Extends
<1>9. DOMAIN fds' \subseteq Fd
  BY <1>2, <1>5, <1>7 DEF Good, Typed
<1>10. /\ \A x \in DOMAIN fds' : fds'[x] \in DOMAIN files'
       /\ ClosedGood(fds', files')
       /\ \A i \in DOMAIN files : files'[i].kind = "socket" => Lonely(files', i) \/ Paired(files', i)
       /\ \A k, p, m : Counts(files, k, p, m) => Counts(files', k, p, m)
  BY <1>5, <1>8, <1>9, ExtendedGood
<1>11. Typed(fds', files', pipes')
  BY <1>5, <1>6, <1>9, <1>10 DEF Good, Typed
<1>12. EndsGood(files', pipes')
  <2>1. ASSUME NEW i \in DOMAIN files', files'[i].kind \in {"reader", "writer"}
        PROVE  files'[i].link \in DOMAIN pipes' /\ Unique(files', i)
    <3>1. i \in DOMAIN files
      BY <1>4, <1>6, <2>1
    <3>2. files[i].link \in DOMAIN pipes /\ Unique(files, i)
      BY <1>5, <1>6, <2>1, <3>1 DEF Good, EndsGood
    <3>3. \A j \in DOMAIN files' : j \in DOMAIN files \/ files'[j].kind # files'[i].kind
      BY <1>4, <1>6, <2>1
    <3>. QED BY <1>6, <3>1, <3>2, <3>3 DEF Unique
  <2>2. \A p \in DOMAIN pipes : Counts(files, "reader", p, pipes[p].readers) /\ Counts(files, "writer", p, pipes[p].writers)
    BY <1>5 DEF Good, EndsGood
  <2>3. \A p \in DOMAIN pipes : Counts(files', "reader", p, pipes[p].readers) /\ Counts(files', "writer", p, pipes[p].writers)
    BY <1>10, <2>2
  <2>. QED BY <2>1, <2>3 DEF EndsGood
<1>13. SocketsGood(files')
  <2>1. Lonely(files', n + 1)
    BY <1>4, <1>6 DEF Lonely
  <2>. QED BY <1>6, <1>10, <2>1 DEF SocketsGood
<1>. QED BY <1>10, <1>11, <1>12, <1>13 DEF FilesInv, Good

LEMMA TwoMade ==
    ASSUME FilesInv, NEW new \in FileSet, NEW other \in FileSet, MakeTwo(new, other),
           ~new.closed, ~other.closed
    PROVE  /\ files' \in Seq(FileSet) /\ Len(files) \in Nat
           /\ DOMAIN files = 1 .. Len(files) /\ DOMAIN files' = 1 .. Len(files) + 2
           /\ files'[Len(files) + 1] = new /\ files'[Len(files) + 2] = other
           /\ \A i \in DOMAIN files : files'[i] = files[i]
           /\ Extends(fds, files, fds', files')
           /\ DOMAIN fds' \subseteq Fd
<1>a. PICK n : n = Len(files)
  OBVIOUS
<1>b. PICK fd : fd = Min(FreeFds(fds, FIRST))
  OBVIOUS
<1>c. PICK one : one = With(fds, fd, n + 1)
  OBVIOUS
<1>d. PICK next : next = Min(FreeFds(one, FIRST))
  OBVIOUS
<1>e. PICK grown : grown = Append(files, new)
  OBVIOUS
<1>1. fds' = With(one, next, n + 2) /\ files' = Append(grown, other)
  BY <1>a, <1>b, <1>c, <1>d, <1>e DEF MakeTwo, Installed
<1>2. fd \in Fd /\ fd \notin DOMAIN fds
  BY <1>b, LowestIsFree DEF MakeTwo, CanInstall
<1>3. FreeFds(one, FIRST) # {}
  BY <1>a, <1>b, <1>c DEF MakeTwo, CanInstall, Installed
<1>4. next \in Fd /\ next \notin DOMAIN one
  BY <1>3, <1>d, LowestIsFree
<1>5. Good(fds, files, pipes) /\ files \in Seq(FileSet)
  BY DEF FilesInv, Good, Typed
<1>6. /\ grown \in Seq(FileSet) /\ n \in Nat
      /\ DOMAIN files = 1 .. n /\ DOMAIN grown = 1 .. n + 1 /\ Len(grown) = n + 1
      /\ grown[n + 1] = new
      /\ \A j \in DOMAIN files : grown[j] = files[j]
  BY <1>a, <1>e, <1>5, AppendFile
<1>7. /\ files' \in Seq(FileSet)
      /\ DOMAIN files' = 1 .. n + 2
      /\ files'[n + 2] = other
      /\ \A j \in DOMAIN grown : files'[j] = grown[j]
  <2>1. /\ files' \in Seq(FileSet)
        /\ DOMAIN files' = 1 .. (n + 1) + 1
        /\ files'[(n + 1) + 1] = other
        /\ \A j \in DOMAIN grown : files'[j] = grown[j]
    BY <1>1, <1>6, AppendFile
  <2>2. (n + 1) + 1 = n + 2
    BY <1>6
  <2>. QED BY <2>1, <2>2
<1>8. /\ files'[n + 1] = new
      /\ \A i \in DOMAIN files : files'[i] = files[i]
  BY <1>6, <1>7
<1>9. /\ DOMAIN one = DOMAIN fds \cup {fd} /\ one[fd] = n + 1
      /\ \A x \in DOMAIN fds : one[x] = fds[x]
  BY <1>c, <1>2 DEF With
<1>10. /\ DOMAIN fds' = DOMAIN one \cup {next} /\ fds'[next] = n + 2
       /\ \A x \in DOMAIN one : fds'[x] = one[x]
  BY <1>1, <1>4 DEF With
<1>11. /\ DOMAIN fds' = DOMAIN fds \cup {fd, next}
       /\ fds'[fd] = n + 1 /\ fds'[next] = n + 2
       /\ \A x \in DOMAIN fds : fds'[x] = fds[x]
  BY <1>9, <1>10
<1>12. Extends(fds, files, fds', files')
  <2>1. ~files'[n + 1].closed /\ Refers(fds', n + 1)
    BY <1>8, <1>11 DEF Refers
  <2>2. ~files'[n + 2].closed /\ Refers(fds', n + 2)
    BY <1>7, <1>11 DEF Refers
  <2>3. \A i \in DOMAIN files' \ DOMAIN files : i = n + 1 \/ i = n + 2
    BY <1>6, <1>7
  <2>4. {n + 1, n + 2} \subseteq DOMAIN files' \ DOMAIN files
    BY <1>6, <1>7
  <2>. QED BY <1>6, <1>7, <1>8, <1>11, <2>1, <2>2, <2>3, <2>4 DEF Extends
<1>13. DOMAIN fds' \subseteq Fd
  BY <1>2, <1>4, <1>5, <1>11 DEF Good, Typed
<1>. QED BY <1>a, <1>6, <1>7, <1>8, <1>12, <1>13

LEMMA SocketPairGood ==
    ASSUME FilesInv, SocketPair
    PROVE  FilesInv'
<1>a. PICK n : n = Len(files)
  OBVIOUS
<1>b. PICK new : new = File("socket", n + 2)
  OBVIOUS
<1>c. PICK other : other = File("socket", n + 1)
  OBVIOUS
<1>0. n \in Nat
  BY <1>a DEF FilesInv, Good, Typed
<1>1. new \in FileSet /\ other \in FileSet
  BY <1>0, <1>b, <1>c, FileIsFile DEF Kinds
<1>2. /\ new.kind = "socket" /\ new.link = n + 2 /\ new.pair = n + 2 /\ ~new.closed /\ ~new.hungUp
      /\ other.kind = "socket" /\ other.link = n + 1 /\ other.pair = n + 1 /\ ~other.closed /\ ~other.hungUp
  BY <1>b, <1>c DEF File
<1>3. MakeTwo(new, other) /\ pipes' = pipes
  BY <1>a, <1>b, <1>c DEF SocketPair
<1>4. /\ files' \in Seq(FileSet)
      /\ DOMAIN files = 1 .. n /\ DOMAIN files' = 1 .. n + 2
      /\ files'[n + 1] = new /\ files'[n + 2] = other
      /\ \A i \in DOMAIN files : files'[i] = files[i]
      /\ Extends(fds, files, fds', files')
      /\ DOMAIN fds' \subseteq Fd
  BY <1>a, <1>1, <1>2, <1>3, TwoMade
<1>5. Good(fds, files, pipes)
  BY DEF FilesInv
<1>10. /\ \A x \in DOMAIN fds' : fds'[x] \in DOMAIN files'
       /\ ClosedGood(fds', files')
       /\ \A i \in DOMAIN files : files'[i].kind = "socket" => Lonely(files', i) \/ Paired(files', i)
       /\ \A k, p, m : Counts(files, k, p, m) => Counts(files', k, p, m)
  BY <1>4, <1>5, ExtendedGood
<1>11. Typed(fds', files', pipes')
  BY <1>3, <1>4, <1>5, <1>10 DEF Good, Typed
<1>6. \A i \in DOMAIN files' : i \in DOMAIN files \/ i = n + 1 \/ i = n + 2
  BY <1>0, <1>4
<1>12. EndsGood(files', pipes')
  <2>1. ASSUME NEW i \in DOMAIN files', files'[i].kind \in {"reader", "writer"}
        PROVE  files'[i].link \in DOMAIN pipes' /\ Unique(files', i)
    <3>1. i \in DOMAIN files
      BY <1>2, <1>4, <1>6, <2>1
    <3>2. files[i].link \in DOMAIN pipes /\ Unique(files, i)
      BY <1>4, <1>5, <2>1, <3>1 DEF Good, EndsGood
    <3>3. \A j \in DOMAIN files' : j \in DOMAIN files \/ files'[j].kind # files'[i].kind
      BY <1>2, <1>4, <1>6, <2>1
    <3>. QED BY <1>3, <1>4, <3>1, <3>2, <3>3 DEF Unique
  <2>2. \A p \in DOMAIN pipes : Counts(files, "reader", p, pipes[p].readers) /\ Counts(files, "writer", p, pipes[p].writers)
    BY <1>5 DEF Good, EndsGood
  <2>3. \A p \in DOMAIN pipes : Counts(files', "reader", p, pipes[p].readers) /\ Counts(files', "writer", p, pipes[p].writers)
    BY <1>10, <2>2
  <2>. QED BY <1>3, <2>1, <2>3 DEF EndsGood
<1>13. SocketsGood(files')
  <2>1. Paired(files', n + 1)
    BY <1>0, <1>2, <1>4 DEF Paired
  <2>2. Paired(files', n + 2)
    BY <1>0, <1>2, <1>4 DEF Paired
  <2>. QED BY <1>6, <1>10, <2>1, <2>2 DEF SocketsGood
<1>. QED BY <1>10, <1>11, <1>12, <1>13 DEF FilesInv, Good

LEMMA PipeGood ==
    ASSUME FilesInv, Pipe
    PROVE  FilesInv'
<1>a. PICK n : n = Len(files)
  OBVIOUS
<1>p. PICK q : q = Len(pipes) + 1
  OBVIOUS
<1>b. PICK new : new = File("reader", q)
  OBVIOUS
<1>c. PICK other : other = File("writer", q)
  OBVIOUS
<1>d. PICK both : both = [buffer |-> 0, readers |-> 1, writers |-> 1]
  OBVIOUS
<1>5. Good(fds, files, pipes)
  BY DEF FilesInv
<1>0. n \in Nat /\ q \in Nat /\ q > 0 /\ DOMAIN pipes = 1 .. q - 1
  BY <1>a, <1>p, <1>5 DEF Good, Typed
<1>1. new \in FileSet /\ other \in FileSet
  BY <1>0, <1>b, <1>c, FileIsFile DEF Kinds
<1>2. /\ new.kind = "reader" /\ new.link = q /\ ~new.closed
      /\ other.kind = "writer" /\ other.link = q /\ ~other.closed
  BY <1>b, <1>c DEF File
<1>3. MakeTwo(new, other) /\ pipes' = Append(pipes, both)
  BY <1>p, <1>b, <1>c, <1>d DEF Pipe
<1>4. /\ files' \in Seq(FileSet)
      /\ DOMAIN files = 1 .. n /\ DOMAIN files' = 1 .. n + 2
      /\ files'[n + 1] = new /\ files'[n + 2] = other
      /\ \A i \in DOMAIN files : files'[i] = files[i]
      /\ Extends(fds, files, fds', files')
      /\ DOMAIN fds' \subseteq Fd
  BY <1>a, <1>1, <1>2, <1>3, TwoMade
<1>6. \A i \in DOMAIN files' : i \in DOMAIN files \/ i = n + 1 \/ i = n + 2
  BY <1>0, <1>4
<1>7. pipes \in Seq(PipeSet) /\ both \in PipeSet
  BY <1>d, <1>5, FdTableAssumption DEF Good, Typed, PipeSet
<1>8. /\ pipes' \in Seq(PipeSet) /\ DOMAIN pipes' = 1 .. q
      /\ pipes'[q] = both
      /\ \A p \in DOMAIN pipes : pipes'[p] = pipes[p]
  BY <1>p, <1>3, <1>7, AppendFile
<1>10. /\ \A x \in DOMAIN fds' : fds'[x] \in DOMAIN files'
       /\ ClosedGood(fds', files')
       /\ \A i \in DOMAIN files : files'[i].kind = "socket" => Lonely(files', i) \/ Paired(files', i)
       /\ \A k, p, m : Counts(files, k, p, m) => Counts(files', k, p, m)
  BY <1>4, <1>5, ExtendedGood
<1>11. Typed(fds', files', pipes')
  BY <1>4, <1>8, <1>10 DEF Typed
<1>9. \A i \in DOMAIN files : files[i].kind \in {"reader", "writer"} => files[i].link \in DOMAIN pipes /\ Unique(files, i)
  BY <1>5 DEF Good, EndsGood
<1>12. EndsGood(files', pipes')
  <2>1. ASSUME NEW i \in DOMAIN files', files'[i].kind \in {"reader", "writer"}
        PROVE  files'[i].link \in DOMAIN pipes' /\ Unique(files', i)
    <3>1. CASE i \in DOMAIN files
      <4>1. files'[i] = files[i] /\ files[i].link \in DOMAIN pipes /\ Unique(files, i)
        BY <1>4, <1>9, <2>1, <3>1
      <4>2. files'[i].link # q /\ files'[i].link \in DOMAIN pipes'
        BY <1>0, <1>8, <4>1
      <4>. QED BY <1>2, <1>4, <1>6, <4>1, <4>2 DEF Unique
    <3>2. CASE i = n + 1 \/ i = n + 2
      <4>1. files'[i].link = q /\ q \in DOMAIN pipes'
        BY <1>0, <1>2, <1>4, <1>8, <3>2
      <4>2. ASSUME NEW j \in DOMAIN files', files'[j].kind = files'[i].kind, files'[j].link = files'[i].link
            PROVE  j = i
        <5>1. j \notin DOMAIN files
          <6>1. ASSUME j \in DOMAIN files PROVE FALSE
            <7>1. files[j].link \in DOMAIN pipes /\ files[j].link = q
              BY <1>4, <1>9, <2>1, <4>1, <4>2, <6>1
            <7>. QED BY <1>0, <7>1
          <6>. QED BY <6>1
        <5>2. j = n + 1 \/ j = n + 2
          BY <1>6, <5>1
        <5>. QED BY <1>2, <1>4, <3>2, <4>2, <5>2
      <4>. QED BY <4>1, <4>2 DEF Unique
    <3>. QED BY <1>6, <3>1, <3>2
  <2>2. \A p \in DOMAIN pipes : Counts(files, "reader", p, pipes[p].readers) /\ Counts(files, "writer", p, pipes[p].writers)
    BY <1>5 DEF Good, EndsGood
  <2>3. \A p \in DOMAIN pipes : Counts(files', "reader", p, pipes'[p].readers) /\ Counts(files', "writer", p, pipes'[p].writers)
    BY <1>8, <1>10, <2>2
  <2>4. n + 1 \in DOMAIN files' /\ n + 2 \in DOMAIN files'
    BY <1>0, <1>4
  <2>5. Counts(files', "reader", q, pipes'[q].readers)
    BY <1>2, <1>4, <1>8, <1>d, <2>4 DEF Counts
  <2>6. Counts(files', "writer", q, pipes'[q].writers)
    BY <1>2, <1>4, <1>8, <1>d, <2>4 DEF Counts
  <2>7. \A p \in DOMAIN pipes' : p \in DOMAIN pipes \/ p = q
    BY <1>0, <1>8
  <2>. QED BY <2>1, <2>3, <2>5, <2>6, <2>7 DEF EndsGood
<1>13. SocketsGood(files')
  BY <1>2, <1>4, <1>6, <1>10 DEF SocketsGood
<1>. QED BY <1>10, <1>11, <1>12, <1>13 DEF FilesInv, Good

-----------------------------------------------------------------------------
(* Closing.  A table is taken apart into its three fields.                   *)
Tab(f, fs, ps) == [fds |-> f, files |-> fs, pipes |-> ps]

Sound(t) == t = Tab(t.fds, t.files, t.pipes) /\ Good(t.fds, t.files, t.pipes)

LEMMA ShutIsFile ==
    ASSUME NEW x \in FileSet
    PROVE  /\ Shut(x) \in FileSet /\ Shut(x).kind = x.kind /\ Shut(x).link = x.link
           /\ Shut(x).pair = x.pair /\ Shut(x).closed /\ Shut(x).hungUp = x.hungUp
<1>1. Shut(x) \in FileSet
  BY DEF Shut, FileSet
<1>2. Shut(x).kind = x.kind /\ Shut(x).link = x.link /\ Shut(x).pair = x.pair
  BY DEF Shut, FileSet
<1>3. Shut(x).closed /\ Shut(x).hungUp = x.hungUp
  BY DEF Shut, FileSet
<1>. QED BY <1>1, <1>2, <1>3

LEMMA AloneIsFile ==
    ASSUME NEW x \in FileSet
    PROVE  /\ Alone(x) \in FileSet /\ Alone(x).kind = x.kind /\ Alone(x).link = NoLink
           /\ Alone(x).pair = x.pair /\ Alone(x).closed = x.closed /\ Alone(x).hungUp = x.hungUp
BY DEF Alone, FileSet, NoLink

LEMMA ToldIsFile ==
    ASSUME NEW x \in FileSet
    PROVE  /\ Told(x) \in FileSet /\ Told(x).kind = x.kind /\ Told(x).link = NoLink
           /\ Told(x).pair = x.pair /\ Told(x).closed = x.closed /\ Told(x).hungUp
<1>1. Told(x) \in FileSet /\ Told(x).kind = x.kind /\ Told(x).link = NoLink
  BY DEF Told, FileSet, NoLink
<1>2. Told(x).pair = x.pair /\ Told(x).closed = x.closed /\ Told(x).hungUp
  BY DEF Told, FileSet, NoLink
<1>. QED BY <1>1, <1>2

LEMMA WithoutIsPipe ==
    ASSUME NEW x \in PipeSet, NEW kind \in {"reader", "writer"},
           IF kind = "reader" THEN x.readers > 0 ELSE x.writers > 0
    PROVE  /\ Without(x, kind) \in PipeSet
           /\ Without(x, kind).readers = IF kind = "reader" THEN x.readers - 1 ELSE x.readers
           /\ Without(x, kind).writers = IF kind = "writer" THEN x.writers - 1 ELSE x.writers
<1>1. CASE kind = "reader"
  <2>1. x.readers - 1 \in Nat
    BY <1>1 DEF PipeSet
  <2>. QED BY <1>1, <2>1 DEF Without, PipeSet
<1>2. CASE kind = "writer"
  <2>1. x.writers - 1 \in Nat
    BY <1>2 DEF PipeSet
  <2>. QED BY <1>2, <2>1 DEF Without, PipeSet
<1>. QED BY <1>1, <1>2

LEMMA TabFields ==
    ASSUME NEW f, NEW fs, NEW ps
    PROVE  Tab(f, fs, ps).fds = f /\ Tab(f, fs, ps).files = fs /\ Tab(f, fs, ps).pipes = ps
BY DEF Tab

Put(s, i, v) == [s EXCEPT ![i] = v]

LEMMA CloseEndIs ==
    ASSUME NEW f, NEW fs, NEW ps, NEW i, NEW p, p = fs[i].link,
           NEW gs, gs = Put(fs, i, Shut(fs[i])),
           NEW qs, qs = Put(ps, p, Without(ps[p], fs[i].kind))
    PROVE  CloseEnd(Tab(f, fs, ps), i) = Tab(f, gs, qs)
<1>1. [Tab(f, fs, ps) EXCEPT !.pipes[p] = Without(@, fs[i].kind)] = Tab(f, fs, qs)
  BY DEF Tab, Put
<1>2. [Tab(f, fs, qs) EXCEPT !.files[i] = Shut(@)] = Tab(f, gs, qs)
  BY DEF Tab, Put
<1>3. Tab(f, fs, ps).files[i] = fs[i]
  BY DEF Tab
<1>. QED BY <1>1, <1>2, <1>3 DEF CloseEnd

LEMMA CloseSocketIs ==
    ASSUME NEW f, NEW fs, NEW ps, NEW i, NEW gs, gs = Put(fs, i, Alone(Shut(fs[i]))),
           NEW p, p = fs[i].link, NEW hs, hs = Put(gs, p, Told(gs[p]))
    PROVE  CloseSocket(Tab(f, fs, ps), i) = IF p = NoLink THEN Tab(f, gs, ps) ELSE Tab(f, hs, ps)
<1>1. Tab(f, fs, ps).files[i] = fs[i]
  BY DEF Tab
<1>2. [Tab(f, fs, ps) EXCEPT !.files[i] = Alone(Shut(@))] = Tab(f, gs, ps)
  BY DEF Tab, Put
<1>3. [Tab(f, gs, ps) EXCEPT !.files[p] = Told(@)] = Tab(f, hs, ps)
  BY DEF Tab, Put
<1>4. CASE p = NoLink
  BY <1>1, <1>2, <1>4 DEF CloseSocket
<1>5. CASE p # NoLink
  BY <1>1, <1>2, <1>3, <1>5 DEF CloseSocket
<1>. QED BY <1>4, <1>5

(* A handle that nothing refers to any more, and that is the only one whose   *)
(* state does not say so.                                                    *)
Lost(f, fs, ps, i) ==
    /\ Typed(f, fs, ps) /\ EndsGood(fs, ps) /\ SocketsGood(fs)
    /\ i \in DOMAIN fs /\ ~Refers(f, i)
    /\ \A j \in DOMAIN fs : j # i /\ Closes(fs, j) => (fs[j].closed <=> ~Refers(f, j))

LEMMA CloseEndGood ==
    ASSUME NEW f, NEW fs, NEW ps, NEW i, Lost(f, fs, ps, i),
           fs[i].kind \in {"reader", "writer"}, ~fs[i].closed
    PROVE  Sound(CloseEnd(Tab(f, fs, ps), i)) /\ CloseEnd(Tab(f, fs, ps), i).fds = f
<1>a. PICK p : p = fs[i].link
  OBVIOUS
<1>b. PICK r : r = Shut(fs[i])
  OBVIOUS
<1>c. PICK u : u = Without(ps[p], fs[i].kind)
  OBVIOUS
<1>d. PICK gs : gs = [fs EXCEPT ![i] = r]
  OBVIOUS
<1>e. PICK qs : qs = [ps EXCEPT ![p] = u]
  OBVIOUS
<1>f. PICK kind : kind = fs[i].kind
  OBVIOUS
<1>0. CloseEnd(Tab(f, fs, ps), i) = Tab(f, gs, qs)
  <2>1. gs = Put(fs, i, Shut(fs[i]))
    BY <1>b, <1>d DEF Put
  <2>2. qs = Put(ps, p, Without(ps[p], fs[i].kind))
    BY <1>c, <1>e DEF Put
  <2>. QED BY ONLY <1>a, <2>1, <2>2, CloseEndIs
<1>1. /\ fs \in Seq(FileSet) /\ ps \in Seq(PipeSet) /\ i \in DOMAIN fs /\ fs[i] \in FileSet
      /\ p \in DOMAIN ps /\ ps[p] \in PipeSet /\ Unique(fs, i)
  BY <1>a DEF Lost, Typed, EndsGood
<1>2. \A x \in DOMAIN ps : Counts(fs, "reader", x, ps[x].readers) /\ Counts(fs, "writer", x, ps[x].writers)
  BY DEF Lost, EndsGood
<1>3. IF kind = "reader" THEN ps[p].readers = 1 ELSE ps[p].writers = 1
  <2>1. CASE kind = "reader"
    <3>1. PICK j \in DOMAIN fs :
            fs[j].kind = "reader" /\ fs[j].link = p /\ ps[p].readers = IF fs[j].closed THEN 0 ELSE 1
      BY <1>1, <1>2 DEF Counts
    <3>2. j = i
      BY <1>1, <1>a, <1>f, <2>1, <3>1 DEF Unique
    <3>. QED BY <2>1, <3>1, <3>2
  <2>2. CASE kind = "writer"
    <3>1. PICK j \in DOMAIN fs :
            fs[j].kind = "writer" /\ fs[j].link = p /\ ps[p].writers = IF fs[j].closed THEN 0 ELSE 1
      BY <1>1, <1>2 DEF Counts
    <3>2. j = i
      BY <1>1, <1>a, <1>f, <2>2, <3>1 DEF Unique
    <3>. QED BY <2>2, <3>1, <3>2
  <2>. QED BY <1>f, <2>1, <2>2
<1>4. /\ r \in FileSet /\ r.kind = kind /\ r.link = p /\ r.pair = fs[i].pair /\ r.closed
  BY <1>1, <1>a, <1>b, <1>f, ShutIsFile
<1>5. IF kind = "reader" THEN ps[p].readers > 0 ELSE ps[p].writers > 0
  BY <1>3
<1>6. /\ u \in PipeSet
      /\ u.readers = IF kind = "reader" THEN ps[p].readers - 1 ELSE ps[p].readers
      /\ u.writers = IF kind = "writer" THEN ps[p].writers - 1 ELSE ps[p].writers
  BY <1>1, <1>c, <1>f, <1>5, WithoutIsPipe
<1>7. /\ u.readers = IF kind = "reader" THEN 0 ELSE ps[p].readers
      /\ u.writers = IF kind = "writer" THEN 0 ELSE ps[p].writers
  BY <1>3, <1>6, <1>f
<1>8. /\ gs \in Seq(FileSet) /\ DOMAIN gs = DOMAIN fs /\ gs[i] = r
      /\ \A j \in DOMAIN fs : j # i => gs[j] = fs[j]
  BY <1>1, <1>4, <1>d, ExceptFile
<1>9. /\ qs \in Seq(PipeSet) /\ DOMAIN qs = DOMAIN ps /\ qs[p] = u
      /\ \A x \in DOMAIN ps : x # p => qs[x] = ps[x]
  BY <1>1, <1>6, <1>e, ExceptFile
<1>10. \A j \in DOMAIN fs : gs[j].kind = fs[j].kind /\ gs[j].link = fs[j].link /\ gs[j].pair = fs[j].pair
  BY <1>4, <1>8, <1>a, <1>f
<1>11. Typed(f, gs, qs)
  BY <1>8, <1>9 DEF Lost, Typed
<1>12. EndsGood(gs, qs)
  <2>1. ASSUME NEW j \in DOMAIN gs, gs[j].kind \in {"reader", "writer"}
        PROVE  gs[j].link \in DOMAIN qs /\ Unique(gs, j)
    <3>1. fs[j].link \in DOMAIN ps /\ Unique(fs, j)
      BY <1>8, <1>10, <2>1 DEF Lost, EndsGood
    <3>. QED BY <1>8, <1>9, <1>10, <3>1 DEF Unique
  <2>2. ASSUME NEW k, NEW x \in DOMAIN ps, NEW n, Counts(fs, k, x, n), k # kind \/ x # p
        PROVE  Counts(gs, k, x, n)
    <3>1. PICK j \in DOMAIN fs : fs[j].kind = k /\ fs[j].link = x /\ n = IF fs[j].closed THEN 0 ELSE 1
      BY <2>2 DEF Counts
    <3>2. j # i
      BY <1>a, <1>f, <2>2, <3>1
    <3>. QED BY <1>8, <3>1, <3>2 DEF Counts
  <2>3. Counts(gs, kind, p, 0)
    BY <1>1, <1>4, <1>8 DEF Counts
  <2>4. ASSUME NEW x \in DOMAIN qs
        PROVE  Counts(gs, "reader", x, qs[x].readers) /\ Counts(gs, "writer", x, qs[x].writers)
    <3>1. Counts(fs, "reader", x, ps[x].readers) /\ Counts(fs, "writer", x, ps[x].writers) /\ x \in DOMAIN ps
      BY <1>2, <1>9
    <3>2. CASE x # p
      <4>1. Counts(gs, "reader", x, ps[x].readers) /\ Counts(gs, "writer", x, ps[x].writers)
        BY <2>2, <3>1, <3>2
      <4>. QED BY <1>9, <3>1, <3>2, <4>1
    <3>3. CASE x = p /\ kind = "reader"
      <4>1. Counts(gs, "writer", x, ps[x].writers)
        BY <2>2, <3>1, <3>3
      <4>. QED BY <1>7, <1>9, <2>3, <3>3, <4>1
    <3>4. CASE x = p /\ kind = "writer"
      <4>1. Counts(gs, "reader", x, ps[x].readers)
        BY <2>2, <3>1, <3>4
      <4>. QED BY <1>7, <1>9, <2>3, <3>4, <4>1
    <3>. QED BY <1>f, <3>2, <3>3, <3>4
  <2>. QED BY <2>1, <2>4 DEF EndsGood
<1>13. SocketsGood(gs)
  <2>1. ASSUME NEW j \in DOMAIN gs, gs[j].kind = "socket"
        PROVE  Lonely(gs, j) \/ Paired(gs, j)
    <3>1. j # i /\ gs[j] = fs[j] /\ j \in DOMAIN fs
      BY <1>4, <1>8, <1>f, <2>1
    <3>2. Lonely(fs, j) \/ Paired(fs, j)
      BY <2>1, <3>1 DEF Lost, SocketsGood
    <3>3. CASE Paired(fs, j)
      <4>1. fs[j].pair \in DOMAIN fs /\ fs[fs[j].pair].kind = "socket"
        BY <3>3 DEF Paired
      <4>2. gs[fs[j].pair] = fs[fs[j].pair]
        BY <1>8, <4>1
      <4>. QED BY <1>8, <3>1, <3>3, <4>1, <4>2 DEF Paired
    <3>. QED BY <3>1, <3>2, <3>3 DEF Lonely
  <2>. QED BY <2>1 DEF SocketsGood
<1>14. ClosedGood(f, gs)
  <2>1. ASSUME NEW j \in DOMAIN gs, Closes(gs, j)
        PROVE  gs[j].closed <=> ~Refers(f, j)
    <3>1. CASE j = i
      <4>1. gs[i].closed /\ ~Refers(f, i)
        BY <1>4, <1>8 DEF Lost
      <4>. QED BY <3>1, <4>1, Zenon
    <3>2. CASE j # i
      <4>1. gs[j] = fs[j] /\ j \in DOMAIN fs /\ Closes(fs, j)
        BY <1>8, <2>1, <3>2 DEF Closes
      <4>2. fs[j].closed <=> ~Refers(f, j)
        BY <3>2, <4>1 DEF Lost
      <4>. QED BY <4>1, <4>2, Zenon
    <3>. QED BY <3>1, <3>2
  <2>. QED BY <2>1 DEF ClosedGood
<1>15. Good(f, gs, qs)
  BY <1>11, <1>12, <1>13, <1>14 DEF Good
<1>. QED BY <1>0, <1>15, TabFields DEF Sound

LEMMA CloseSocketGood ==
    ASSUME NEW f, NEW fs, NEW ps, NEW i, Lost(f, fs, ps, i), fs[i].kind = "socket", ~fs[i].closed
    PROVE  Sound(CloseSocket(Tab(f, fs, ps), i)) /\ CloseSocket(Tab(f, fs, ps), i).fds = f
<1>a. PICK p : p = fs[i].link
  OBVIOUS
<1>b. PICK r : r = Alone(Shut(fs[i]))
  OBVIOUS
<1>c. PICK gs : gs = Put(fs, i, r)
  OBVIOUS
<1>d. PICK v : v = Told(gs[p])
  OBVIOUS
<1>e. PICK hs : hs = Put(gs, p, v)
  OBVIOUS
<1>0. CloseSocket(Tab(f, fs, ps), i) = IF p = NoLink THEN Tab(f, gs, ps) ELSE Tab(f, hs, ps)
  <2>1. gs = Put(fs, i, Alone(Shut(fs[i]))) /\ hs = Put(gs, p, Told(gs[p]))
    BY <1>b, <1>c, <1>d, <1>e
  <2>. QED BY ONLY <1>a, <2>1, CloseSocketIs
<1>1. /\ fs \in Seq(FileSet) /\ ps \in Seq(PipeSet) /\ i \in DOMAIN fs /\ fs[i] \in FileSet
      /\ Lonely(fs, i) \/ Paired(fs, i)
  BY DEF Lost, Typed, SocketsGood
<1>2. /\ r \in FileSet /\ r.kind = "socket" /\ r.link = NoLink /\ r.pair = fs[i].pair
      /\ r.closed /\ r.hungUp = fs[i].hungUp
  <2>a. PICK s : s = Shut(fs[i])
    OBVIOUS
  <2>1. s \in FileSet /\ s.kind = "socket" /\ s.pair = fs[i].pair /\ s.closed /\ s.hungUp = fs[i].hungUp
    BY <2>a, <1>1, ShutIsFile
  <2>2. r = Alone(s)
    BY <1>b, <2>a
  <2>. QED BY <2>1, <2>2, AloneIsFile
<1>3. /\ gs \in Seq(FileSet) /\ DOMAIN gs = DOMAIN fs /\ gs[i] = r
      /\ \A j \in DOMAIN fs : j # i => gs[j] = fs[j]
  BY <1>1, <1>2, <1>c, ExceptFile DEF Put
<1>4. PICK ks \in Seq(FileSet) :
         /\ CloseSocket(Tab(f, fs, ps), i) = Tab(f, ks, ps)
         /\ DOMAIN ks = DOMAIN fs
         /\ \A j \in DOMAIN fs : ks[j].kind = fs[j].kind /\ ks[j].pair = fs[j].pair
         /\ ks[i].closed /\ ks[i].link = NoLink /\ ks[i].hungUp = fs[i].hungUp
         /\ \A j \in DOMAIN fs : j # i =>
               /\ ks[j].closed = fs[j].closed
               /\ j # p => ks[j] = fs[j]
               /\ j = p => ks[j].hungUp /\ ks[j].link = NoLink
         /\ p = NoLink \/ (p \in DOMAIN fs /\ p # i /\ p = fs[i].pair /\ Paired(fs, i))
  <2>1. CASE p = NoLink
    <3>1. CloseSocket(Tab(f, fs, ps), i) = Tab(f, gs, ps)
      BY <1>0, <2>1
    <3>2. \A j \in DOMAIN fs : gs[j].kind = fs[j].kind /\ gs[j].pair = fs[j].pair
      BY <1>2, <1>3
    <3>3. 0 \notin DOMAIN fs
      BY <1>1
    <3>4. \A j \in DOMAIN fs : j # i =>
               /\ gs[j].closed = fs[j].closed
               /\ j # p => gs[j] = fs[j]
               /\ j = p => gs[j].hungUp /\ gs[j].link = NoLink
      BY <1>3, <2>1, <3>3 DEF NoLink
    <3>. QED BY <1>2, <1>3, <2>1, <3>1, <3>2, <3>4
  <2>2. CASE p # NoLink
    <3>0. Paired(fs, i)
      BY <1>1, <1>a, <2>2 DEF Lonely
    <3>1. p \in DOMAIN fs /\ p # i /\ p = fs[i].pair
      BY <1>a, <2>2, <3>0 DEF Paired
    <3>2. gs[p] = fs[p] /\ fs[p] \in FileSet
      BY <1>1, <1>3, <3>1
    <3>3. /\ v \in FileSet /\ v.kind = fs[p].kind /\ v.link = NoLink
          /\ v.pair = fs[p].pair /\ v.closed = fs[p].closed /\ v.hungUp
      BY <1>d, <3>2, ToldIsFile
    <3>4. /\ hs \in Seq(FileSet) /\ DOMAIN hs = DOMAIN fs /\ hs[p] = v
          /\ \A j \in DOMAIN fs : j # p => hs[j] = gs[j]
      BY <1>3, <1>e, <3>1, <3>3, ExceptFile DEF Put
    <3>5. CloseSocket(Tab(f, fs, ps), i) = Tab(f, hs, ps)
      BY <1>0, <2>2
    <3>6. \A j \in DOMAIN fs : hs[j].kind = fs[j].kind /\ hs[j].pair = fs[j].pair
      BY <1>2, <1>3, <3>3, <3>4
    <3>7. \A j \in DOMAIN fs : j # i =>
               /\ hs[j].closed = fs[j].closed
               /\ j # p => hs[j] = fs[j]
               /\ j = p => hs[j].hungUp /\ hs[j].link = NoLink
      BY <1>3, <3>3, <3>4
    <3>8. hs[i] = r
      BY <1>1, <1>3, <3>1, <3>4
    <3>. QED BY <1>2, <3>0, <3>1, <3>4, <3>5, <3>6, <3>7, <3>8
  <2>. QED BY <2>1, <2>2
<1>5. Typed(f, ks, ps)
  BY <1>4 DEF Lost, Typed
<1>6. \A j \in DOMAIN fs : fs[j].kind # "socket" => ks[j] = fs[j]
  <2>1. NoLink \notin DOMAIN fs
    BY <1>1 DEF NoLink
  <2>2. \A j \in DOMAIN fs : fs[j].kind # "socket" => j # i /\ j # p
    BY <1>4, <2>1 DEF Paired
  <2>. QED BY <1>4, <2>2
<1>7. EndsGood(ks, ps)
  <2>1. ASSUME NEW j \in DOMAIN ks, ks[j].kind \in {"reader", "writer"}
        PROVE  ks[j].link \in DOMAIN ps /\ Unique(ks, j)
    <3>1. ks[j] = fs[j] /\ j \in DOMAIN fs
      BY <1>4, <1>6, <2>1
    <3>2. fs[j].link \in DOMAIN ps /\ Unique(fs, j)
      BY <2>1, <3>1 DEF Lost, EndsGood
    <3>. QED BY <1>4, <1>6, <2>1, <3>1, <3>2 DEF Unique
  <2>2. ASSUME NEW k \in {"reader", "writer"}, NEW x, NEW n, Counts(fs, k, x, n)
        PROVE  Counts(ks, k, x, n)
    <3>1. PICK j \in DOMAIN fs : fs[j].kind = k /\ fs[j].link = x /\ n = IF fs[j].closed THEN 0 ELSE 1
      BY <2>2 DEF Counts
    <3>2. ks[j] = fs[j] /\ j \in DOMAIN ks
      BY <1>4, <1>6, <3>1
    <3>. QED BY <3>1, <3>2 DEF Counts
  <2>3. \A x \in DOMAIN ps : Counts(fs, "reader", x, ps[x].readers) /\ Counts(fs, "writer", x, ps[x].writers)
    BY DEF Lost, EndsGood
  <2>4. \A x \in DOMAIN ps : Counts(ks, "reader", x, ps[x].readers) /\ Counts(ks, "writer", x, ps[x].writers)
    BY <2>2, <2>3
  <2>. QED BY <2>1, <2>4 DEF EndsGood
<1>8. SocketsGood(ks)
  <2>1. ASSUME NEW j \in DOMAIN ks, ks[j].kind = "socket"
        PROVE  Lonely(ks, j) \/ Paired(ks, j)
    <3>0. j \in DOMAIN fs /\ fs[j].kind = "socket" /\ ks[j].pair = fs[j].pair
      BY <1>4, <2>1
    <3>1. Lonely(fs, j) \/ Paired(fs, j)
      BY <3>0 DEF Lost, SocketsGood
    <3>2. CASE Lonely(fs, j)
      <4>1. j # p
        <5>0. NoLink \notin DOMAIN fs
          BY <1>1 DEF NoLink
        <5>1. ASSUME j = p, p # NoLink PROVE FALSE
          BY <1>1, <1>4, <3>2, <5>0, <5>1 DEF Lonely, Paired
        <5>. QED BY <1>1, <3>0, <5>1 DEF NoLink
      <4>2. CASE j = i
        BY <1>4, <3>2, <4>2 DEF Lonely
      <4>3. CASE j # i
        BY <1>4, <3>0, <3>2, <4>1, <4>3 DEF Lonely
      <4>. QED BY <4>2, <4>3
    <3>3. CASE Paired(fs, j)
      <4>a. PICK q : q = fs[j].pair
        OBVIOUS
      <4>1. q \in DOMAIN fs /\ q # j /\ fs[q].kind = "socket" /\ fs[q].pair = j
        BY <3>3, <4>a DEF Paired
      <4>2. /\ fs[j].link = IF fs[j].closed \/ fs[q].closed THEN NoLink ELSE q
            /\ ~fs[j].closed => (fs[j].hungUp <=> fs[q].closed)
        BY <3>3, <4>a DEF Paired
      <4>3. /\ ks[j].pair = q /\ q \in DOMAIN ks /\ ks[q].kind = "socket" /\ ks[q].pair = j
        BY <1>4, <3>0, <4>1, <4>a
      <4>6. SUFFICES /\ ks[j].link = IF ks[j].closed \/ ks[q].closed THEN NoLink ELSE q
                     /\ ~ks[j].closed => (ks[j].hungUp <=> ks[q].closed)
        BY <4>1, <4>3 DEF Paired
      <4>4. CASE j = i
        BY <1>4, <4>4
      <4>5. CASE q = i
        <5>1. ks[q].closed /\ j # i /\ ks[j].closed = fs[j].closed
          BY <1>4, <3>0, <4>1, <4>5
        <5>2. CASE fs[j].closed
          <6>1. fs[i].link = NoLink
            BY <1>1, <4>1, <4>5, <5>2 DEF Paired, Lonely
          <6>2. j # p
            BY <1>1, <1>a, <3>0, <6>1 DEF NoLink
          <6>. QED BY <1>4, <3>0, <4>2, <5>1, <5>2, <6>2
        <5>3. CASE ~fs[j].closed
          <6>1. Paired(fs, i)
            BY <1>1, <3>0, <4>1, <4>5 DEF Lonely, NoLink
          <6>2. j = p
            BY <1>a, <4>1, <4>5, <5>3, <6>1 DEF Paired
          <6>. QED BY <1>4, <3>0, <5>1, <6>2
        <5>. QED BY <5>2, <5>3
      <4>7. CASE j # i /\ q # i
        <5>1. j # p /\ q # p
          BY <1>4, <1>1, <4>1, <4>a, <4>7, <3>0 DEF Paired, NoLink
        <5>2. ks[j] = fs[j] /\ ks[q] = fs[q]
          BY <1>4, <3>0, <4>1, <4>7, <5>1
        <5>. QED BY <4>2, <5>2
      <4>. QED BY <4>4, <4>5, <4>7
    <3>. QED BY <3>1, <3>2, <3>3
  <2>. QED BY <2>1 DEF SocketsGood
<1>9. ClosedGood(f, ks)
  <2>1. ASSUME NEW j \in DOMAIN ks, Closes(ks, j)
        PROVE  ks[j].closed <=> ~Refers(f, j)
    <3>1. CASE j = i
      <4>1. ks[i].closed /\ ~Refers(f, i)
        BY <1>4 DEF Lost
      <4>. QED BY <3>1, <4>1, Zenon
    <3>2. CASE j # i
      <4>1. ks[j].closed = fs[j].closed /\ j \in DOMAIN fs /\ Closes(fs, j)
        BY <1>4, <2>1, <3>2 DEF Closes
      <4>2. fs[j].closed <=> ~Refers(f, j)
        BY <3>2, <4>1 DEF Lost
      <4>. QED BY <4>1, <4>2, Zenon
    <3>. QED BY <3>1, <3>2
  <2>. QED BY <2>1 DEF ClosedGood
<1>10. Good(f, ks, ps)
  BY <1>5, <1>7, <1>8, <1>9 DEF Good
<1>. QED BY <1>4, <1>10, TabFields DEF Sound

LEMMA CloseHandleGood ==
    ASSUME NEW f, NEW fs, NEW ps, NEW i, Lost(f, fs, ps, i)
    PROVE  Sound(CloseHandle(Tab(f, fs, ps), i)) /\ CloseHandle(Tab(f, fs, ps), i).fds = f
<1>1. Tab(f, fs, ps).files[i] = fs[i]
  BY DEF Tab
<1>a. i \in DOMAIN fs /\ fs[i] \in FileSet
  BY DEF Lost, Typed
<1>2. ASSUME fs[i].closed \/ ~Closes(fs, i)
      PROVE  Sound(Tab(f, fs, ps)) /\ Tab(f, fs, ps).fds = f
  <2>1. ClosedGood(f, fs)
    <3>1. ASSUME NEW j \in DOMAIN fs, Closes(fs, j)
          PROVE  fs[j].closed <=> ~Refers(f, j)
      <4>1. CASE j = i
        <5>1. fs[i].closed /\ ~Refers(f, i)
          BY <1>2, <3>1, <4>1 DEF Lost
        <5>. QED BY <4>1, <5>1, Zenon
      <4>2. CASE j # i
        BY <3>1, <4>2 DEF Lost
      <4>. QED BY <4>1, <4>2
    <3>. QED BY <3>1 DEF ClosedGood
  <2>2. Good(f, fs, ps)
    BY <2>1 DEF Good, Lost
  <2>. QED BY <2>2, TabFields DEF Sound
<1>3. CASE fs[i].closed
  <2>1. CloseHandle(Tab(f, fs, ps), i) = Tab(f, fs, ps)
    BY <1>1, <1>3 DEF CloseHandle
  <2>. QED BY <1>2, <1>3, <2>1
<1>4. CASE ~fs[i].closed /\ fs[i].kind \in {"reader", "writer"}
  <2>1. CloseHandle(Tab(f, fs, ps), i) = CloseEnd(Tab(f, fs, ps), i)
    BY <1>1, <1>4 DEF CloseHandle
  <2>. QED BY <1>4, <2>1, CloseEndGood
<1>5. CASE ~fs[i].closed /\ fs[i].kind = "socket"
  <2>1. CloseHandle(Tab(f, fs, ps), i) = CloseSocket(Tab(f, fs, ps), i)
    BY <1>1, <1>5 DEF CloseHandle
  <2>. QED BY <1>5, <2>1, CloseSocketGood
<1>6. CASE ~fs[i].closed /\ fs[i].kind \notin {"reader", "writer", "socket"}
  <2>1. CloseHandle(Tab(f, fs, ps), i) = Tab(f, fs, ps)
    BY <1>1, <1>6 DEF CloseHandle
  <2>. QED BY <1>2, <1>6, <2>1 DEF Closes
<1>. QED BY <1>3, <1>4, <1>5, <1>6

LEMMA ClosedSound ==
    ASSUME NEW t, Sound(t), NEW fd \in DOMAIN t.fds
    PROVE  /\ Sound(Closed(t, fd))
           /\ DOMAIN Closed(t, fd).fds = DOMAIN t.fds \ {fd}
           /\ \A x \in DOMAIN t.fds : x # fd => Closed(t, fd).fds[x] = t.fds[x]
<1>a. PICK f : f = t.fds
  OBVIOUS
<1>b. PICK fs : fs = t.files
  OBVIOUS
<1>c. PICK ps : ps = t.pipes
  OBVIOUS
<1>d. PICK rest : rest = Restrict(f, DOMAIN f \ {fd})
  OBVIOUS
<1>e. PICK i : i = f[fd]
  OBVIOUS
<1>1. t = Tab(f, fs, ps) /\ Good(f, fs, ps) /\ fd \in DOMAIN f
  BY <1>a, <1>b, <1>c DEF Sound
<1>2. DOMAIN rest = DOMAIN f \ {fd} /\ \A x \in DOMAIN f : x # fd => rest[x] = f[x]
  BY <1>d DEF Restrict
<1>3. Typed(rest, fs, ps)
  BY <1>1, <1>2 DEF Good, Typed
<1>4. \A j : j # i => (Refers(rest, j) <=> Refers(f, j))
  BY <1>2, <1>e DEF Refers
<1>5. [t EXCEPT !.fds = rest] = Tab(rest, fs, ps)
  BY <1>1 DEF Tab
<1>6. Sound(Closed(t, fd)) /\ Closed(t, fd).fds = rest
  <2>1. CASE Refers(rest, i)
    <3>1. Closed(t, fd) = Tab(rest, fs, ps)
      BY <1>a, <1>d, <1>e, <1>5, <2>1 DEF Closed
    <3>2. Refers(f, i)
      BY <1>1, <1>e DEF Refers
    <3>3. \A j : Refers(rest, j) <=> Refers(f, j)
      BY <1>4, <2>1, <3>2
    <3>4. Good(rest, fs, ps)
      BY <1>1, <1>3, <3>3 DEF Good, ClosedGood
    <3>. QED BY <3>1, <3>4, TabFields DEF Sound
  <2>2. CASE ~Refers(rest, i)
    <3>1. Closed(t, fd) = CloseHandle(Tab(rest, fs, ps), i)
      BY <1>a, <1>d, <1>e, <1>5, <2>2 DEF Closed
    <3>2. Lost(rest, fs, ps, i)
      <4>1. i \in DOMAIN fs
        BY <1>1, <1>e DEF Good, Typed
      <4>2. \A j \in DOMAIN fs : j # i /\ Closes(fs, j) => (fs[j].closed <=> ~Refers(rest, j))
        BY <1>1, <1>4 DEF Good, ClosedGood
      <4>. QED BY <1>1, <1>3, <2>2, <4>1, <4>2 DEF Lost, Good
    <3>. QED BY <3>1, <3>2, CloseHandleGood
  <2>. QED BY <2>1, <2>2
<1>. QED BY <1>a, <1>2, <1>6

LEMMA ClosedIfOpenSound ==
    ASSUME NEW t, Sound(t), NEW fd
    PROVE  /\ Sound(ClosedIfOpen(t, fd))
           /\ DOMAIN ClosedIfOpen(t, fd).fds = DOMAIN t.fds \ {fd}
           /\ \A x \in DOMAIN t.fds : x # fd => ClosedIfOpen(t, fd).fds[x] = t.fds[x]
<1>1. CASE fd \in DOMAIN t.fds
  <2>1. ClosedIfOpen(t, fd) = Closed(t, fd)
    BY <1>1 DEF ClosedIfOpen
  <2>. QED BY <1>1, <2>1, ClosedSound
<1>2. CASE fd \notin DOMAIN t.fds
  <2>1. ClosedIfOpen(t, fd) = t
    BY <1>2 DEF ClosedIfOpen
  <2>. QED BY <1>2, <2>1
<1>. QED BY <1>1, <1>2

LEMMA TableIs ==
    ASSUME FilesInv
    PROVE  /\ Sound(Table) /\ Table.fds = fds
           /\ \A t : Sound(t) /\ Becomes(t) => FilesInv'
<1>1. Table = Tab(fds, files, pipes)
  BY DEF Table, Tab
<1>2. Table.fds = fds /\ Table.files = files /\ Table.pipes = pipes
  BY <1>1, TabFields
<1>3. Sound(Table)
  BY <1>1, <1>2 DEF Sound, FilesInv
<1>4. ASSUME NEW t, Sound(t), Becomes(t) PROVE FilesInv'
  BY <1>4 DEF Sound, Becomes, FilesInv
<1>. QED BY <1>2, <1>3, <1>4

LEMMA CloseGood ==
    ASSUME FilesInv, NEW fd, Close(fd)
    PROVE  FilesInv'
<1>1. fd \in DOMAIN Table.fds /\ Sound(Table)
  BY TableIs DEF Close
<1>2. Sound(Closed(Table, fd))
  BY <1>1, ClosedSound
<1>3. Becomes(Closed(Table, fd))
  BY DEF Close
<1>. QED BY <1>2, <1>3, TableIs

LEMMA DupToGood ==
    ASSUME FilesInv, NEW old, NEW new \in Fd, DupTo(old, new)
    PROVE  FilesInv'
<1>a. PICK t : t = Vacated(Table, new)
  OBVIOUS
<1>b. PICK f : f = t.fds
  OBVIOUS
<1>c. PICK fs : fs = t.files
  OBVIOUS
<1>d. PICK ps : ps = t.pipes
  OBVIOUS
<1>1. Sound(Table) /\ Table.fds = fds
  BY TableIs
<1>2. /\ Sound(t)
      /\ DOMAIN t.fds = DOMAIN fds \ {new}
      /\ \A x \in DOMAIN fds : x # new => t.fds[x] = fds[x]
  BY <1>1, <1>a, ClosedIfOpenSound DEF Vacated
<1>3. t = Tab(f, fs, ps) /\ Good(f, fs, ps)
  BY <1>2, <1>b, <1>c, <1>d DEF Sound
<1>4. old \in DOMAIN f /\ new \notin DOMAIN f /\ f[old] = fds[old]
  BY <1>2, <1>b DEF DupTo
<1>5. Good(With(f, new, f[old]), fs, ps)
  BY <1>3, <1>4, DupGood
<1>6. Becomes([t EXCEPT !.fds = With(f, new, f[old])])
  BY <1>a, <1>b, <1>4 DEF DupTo
<1>7. [t EXCEPT !.fds = With(f, new, f[old])] = Tab(With(f, new, f[old]), fs, ps)
  BY <1>3 DEF Tab
<1>8. Sound(Tab(With(f, new, f[old]), fs, ps))
  BY <1>5, TabFields DEF Sound
<1>. QED BY <1>6, <1>7, <1>8, TableIs

(* A range is closed one descriptor after the other.  The function `after` of *)
(* the action exists, and its values are sound: by the least number for which *)
(* this is not so.                                                           *)
Run(after, n, base, order) ==
    after = [k \in 0 .. n |-> IF k = 0 THEN base ELSE ClosedIfOpen(after[k - 1], order[k])]

LEMMA AfterSound ==
    ASSUME NEW n \in Nat, NEW order, NEW base, Sound(base), NEW after, Run(after, n, base, order)
    PROVE  Sound(after[n])
<1>0. after = [k \in 0 .. n |-> IF k = 0 THEN base ELSE ClosedIfOpen(after[k - 1], order[k])]
  BY DEF Run
<1> DEFINE Bad == {k \in 0 .. n : ~Sound(after[k])}
<1>1. SUFFICES ASSUME Bad # {} PROVE FALSE
  <2>1. n \in 0 .. n
    OBVIOUS
  <2>. QED BY <2>1
<1>2. Bad \in SUBSET Nat
  OBVIOUS
<1>3. PICK k \in Bad : \A j \in Bad : k <= j
  BY <1>1, <1>2, LeastMember
<1>4. k \in 0 .. n /\ ~Sound(after[k])
  BY <1>3
<1>5. CASE k = 0
  <2>1. after[k] = base
    BY <1>0, <1>4, <1>5
  <2>. QED BY <1>4, <2>1
<1>6. CASE k # 0
  <2>1. k - 1 \in 0 .. n /\ ~(k <= k - 1)
    BY <1>4, <1>6
  <2>2. Sound(after[k - 1])
    BY <1>3, <2>1
  <2>3. after[k] = ClosedIfOpen(after[k - 1], order[k])
    BY <1>0, <1>4, <1>6
  <2>4. Sound(ClosedIfOpen(after[k - 1], order[k]))
    BY <2>2, ClosedIfOpenSound
  <2>. QED BY <1>4, <2>3, <2>4
<1>. QED BY <1>5, <1>6

LEMMA AfterExists ==
    ASSUME NEW n \in Nat, NEW order, NEW base
    PROVE  \E after : Run(after, n, base, order)
<1> DEFINE Is(g, m) == g = [k \in 0 .. m |-> IF k = 0 THEN base ELSE ClosedIfOpen(g[k - 1], order[k])]
<1> DEFINE Bad == {m \in Nat : ~\E g : Is(g, m)}
<1>0. \A g, m : Run(g, m, base, order) <=> Is(g, m)
  BY DEF Run
<1>1. SUFFICES ASSUME Bad # {} PROVE FALSE
  BY <1>0
<1>2. PICK m \in Bad : \A j \in Bad : m <= j
  BY <1>1, LeastMember
<1>3. m \in Nat /\ ~\E g : Is(g, m)
  BY <1>2
<1>4. CASE m = 0
  <2>1. Is([k \in 0 .. 0 |-> base], 0)
    OBVIOUS
  <2>. QED BY <1>3, <1>4, <2>1
<1>5. CASE m # 0
  <2>1. m - 1 \in Nat /\ ~(m <= m - 1)
    BY <1>3, <1>5
  <2>2. PICK g : Is(g, m - 1)
    BY <1>2, <2>1
  <2>a. PICK last : last = ClosedIfOpen(g[m - 1], order[m])
    OBVIOUS
  <2>b. PICK h : h = [k \in 0 .. m |-> IF k = m THEN last ELSE g[k]]
    OBVIOUS
  <2>3. \A k \in 0 .. m : k # m => k \in 0 .. m - 1
    BY <1>3
  <2>4. \A k \in 0 .. m : h[k] = IF k = 0 THEN base ELSE ClosedIfOpen(h[k - 1], order[k])
    <3>1. ASSUME NEW k \in 0 .. m, k = m
          PROVE  h[k] = IF k = 0 THEN base ELSE ClosedIfOpen(h[k - 1], order[k])
      <4>1. h[k - 1] = g[m - 1] /\ h[k] = last /\ k # 0
        BY <1>3, <1>5, <2>b, <3>1
      <4>. QED BY <2>a, <3>1, <4>1
    <3>2. ASSUME NEW k \in 0 .. m, k # m
          PROVE  h[k] = IF k = 0 THEN base ELSE ClosedIfOpen(h[k - 1], order[k])
      <4>1. k \in 0 .. m - 1 /\ h[k] = g[k]
        BY <1>3, <2>b, <2>3, <3>2
      <4>2. g[k] = IF k = 0 THEN base ELSE ClosedIfOpen(g[k - 1], order[k])
        BY <2>2, <4>1
      <4>3. k # 0 => h[k - 1] = g[k - 1]
        BY <1>3, <2>b, <3>2
      <4>. QED BY <4>1, <4>2, <4>3
    <3>. QED BY <3>1, <3>2
  <2>5. h = [k \in 0 .. m |-> h[k]]
    BY <2>b
  <2>6. Is(h, m)
    BY <2>4, <2>5
  <2>. QED BY <1>3, <2>6
<1>. QED BY <1>4, <1>5

LEMMA CloseRangeGood ==
    ASSUME FilesInv, NEW first, NEW last, CloseRange(first, last)
    PROVE  FilesInv'
<1> DEFINE targets == {fd \in DOMAIN fds : first <= fd /\ fd <= last}
<1>a. PICK n : n = Cardinality(targets)
  OBVIOUS
<1>1. n \in Nat
  <2>1. IsFiniteSet(Fd)
    BY FdTableAssumption, FS_Interval DEF Fd
  <2>2. IsFiniteSet(targets)
    BY <2>1, FS_Subset DEF FilesInv, Good, Typed
  <2>. QED BY <1>a, <2>2, FS_CardinalityType
<1>2. PICK order \in [1 .. n -> targets] :
         LET after[k \in 0 .. n] ==
               IF k = 0 THEN Table ELSE ClosedIfOpen(after[k - 1], order[k])
         IN  Becomes(after[n])
  BY <1>a DEF CloseRange
<1> DEFINE after[k \in 0 .. n] == IF k = 0 THEN Table ELSE ClosedIfOpen(after[k - 1], order[k])
<1>3. after = [k \in 0 .. n |-> IF k = 0 THEN Table ELSE ClosedIfOpen(after[k - 1], order[k])]
  <2>1. \E g : Run(g, n, Table, order)
    BY <1>1, AfterExists
  <2>. QED BY <2>1 DEF Run
<1>4. Becomes(after[n])
  BY <1>2
<1>b. PICK t : t = after[n]
  OBVIOUS
<1>5. Sound(t)
  <2>a. PICK g : g = after
    OBVIOUS
  <2>1. Run(g, n, Table, order)
    BY <1>3, <2>a DEF Run
  <2>2. Sound(g[n])
    BY <1>1, <2>1, TableIs, AfterSound
  <2>. QED BY <1>b, <2>a, <2>2
<1>. QED BY <1>4, <1>5, <1>b, TableIs

-----------------------------------------------------------------------------
(* Reading, writing, connecting and waiting.                                 *)
LEMMA FileChanged ==
    ASSUME FilesInv, NEW i \in DOMAIN files, NEW v \in FileSet, Alike(v, files[i]),
           files' = Put(files, i, v), UNCHANGED <<fds, pipes>>
    PROVE  FilesInv'
<1>1. Good(fds, files, pipes) /\ files \in Seq(FileSet) /\ pipes \in Seq(PipeSet)
  BY DEF FilesInv, Good, Typed
<1>2. /\ files' \in Seq(FileSet) /\ DOMAIN files' = DOMAIN files /\ files'[i] = v
      /\ \A j \in DOMAIN files : j # i => files'[j] = files[j]
  BY <1>1, ExceptFile DEF Put
<1>3. SameFiles(files, files') /\ SameEnds(pipes, pipes)
  BY <1>2 DEF SameFiles, SameEnds, Alike
<1>4. Good(fds, files', pipes)
  BY <1>1, <1>2, <1>3, QuietGood
<1>. QED BY <1>4 DEF FilesInv

LEMMA BufferChanged ==
    ASSUME FilesInv, NEW p \in DOMAIN pipes, NEW v \in PipeSet,
           v.readers = pipes[p].readers, v.writers = pipes[p].writers,
           pipes' = Put(pipes, p, v), UNCHANGED <<fds, files>>
    PROVE  FilesInv'
<1>1. Good(fds, files, pipes) /\ files \in Seq(FileSet) /\ pipes \in Seq(PipeSet)
  BY DEF FilesInv, Good, Typed
<1>2. /\ pipes' \in Seq(PipeSet) /\ DOMAIN pipes' = DOMAIN pipes /\ pipes'[p] = v
      /\ \A j \in DOMAIN pipes : j # p => pipes'[j] = pipes[j]
  BY <1>1, ExceptFile DEF Put
<1>3. SameFiles(files, files) /\ SameEnds(pipes, pipes')
  BY <1>2 DEF SameFiles, SameEnds, Alike
<1>4. Good(fds, files, pipes')
  BY <1>1, <1>2, <1>3, QuietGood
<1>. QED BY <1>4 DEF FilesInv

LEMMA FilesTyped ==
    ASSUME FilesInv
    PROVE  /\ files \in Seq(FileSet) /\ pipes \in Seq(PipeSet)
           /\ \A i \in DOMAIN files : files[i] \in FileSet
           /\ \A p \in DOMAIN pipes : pipes[p] \in PipeSet
           /\ DOMAIN fds \subseteq Fd
           /\ \A fd \in DOMAIN fds : fds[fd] \in DOMAIN files
           /\ \A i \in DOMAIN files : files[i].kind \in {"reader", "writer"} => files[i].link \in DOMAIN pipes
           /\ \A i \in DOMAIN files : files[i].kind = "socket" /\ files[i].link # NoLink => files[i].link \in DOMAIN files
<1>1. \A i \in DOMAIN files : files[i].kind = "socket" /\ files[i].link # NoLink => files[i].link \in DOMAIN files
  BY DEF FilesInv, Good, SocketsGood, Lonely, Paired
<1>2. \A i \in DOMAIN files : files[i].kind \in {"reader", "writer"} => files[i].link \in DOMAIN pipes
  BY DEF FilesInv, Good, EndsGood
<1>. QED BY <1>1, <1>2 DEF FilesInv, Good, Typed

LEMMA DataFile ==
    ASSUME NEW x \in FileSet, NEW d \in Int
    PROVE  [x EXCEPT !.data = d] \in FileSet /\ Alike([x EXCEPT !.data = d], x)
BY DEF FileSet, Alike

LEMMA BufferPipe ==
    ASSUME NEW x \in PipeSet, NEW d \in 0 .. MaxData
    PROVE  /\ [x EXCEPT !.buffer = d] \in PipeSet
           /\ [x EXCEPT !.buffer = d].readers = x.readers
           /\ [x EXCEPT !.buffer = d].writers = x.writers
BY DEF PipeSet

LEMMA ReadGood ==
    ASSUME FilesInv, NEW fd, Read(fd)
    PROVE  FilesInv'
<1>a. PICK i : i = fds[fd]
  OBVIOUS
<1>1. i \in DOMAIN files /\ files[i] \in FileSet
  BY <1>a, FilesTyped DEF Read
<1>2. \/ /\ files[i].kind = "reader"
         /\ \E n \in 1 .. pipes[files[i].link].buffer :
                pipes' = [pipes EXCEPT ![files[i].link].buffer = @ - n]
         /\ UNCHANGED <<fds, files>>
      \/ /\ \E n \in 1 .. files[i].data : files' = [files EXCEPT ![i].data = @ - n]
         /\ UNCHANGED <<fds, pipes>>
  BY <1>a DEF Read
<1>3. CASE /\ files[i].kind = "reader"
           /\ \E n \in 1 .. pipes[files[i].link].buffer :
                  pipes' = [pipes EXCEPT ![files[i].link].buffer = @ - n]
           /\ UNCHANGED <<fds, files>>
  <2>a. PICK p : p = files[i].link
    OBVIOUS
  <2>1. p \in DOMAIN pipes /\ pipes[p] \in PipeSet
    BY <1>1, <1>3, <2>a, FilesTyped
  <2>2. PICK n \in 1 .. pipes[p].buffer : pipes' = [pipes EXCEPT ![p].buffer = @ - n]
    BY <1>3, <2>a
  <2>3. pipes[p].buffer - n \in 0 .. MaxData
    BY <2>1, <2>2, FdTableAssumption DEF PipeSet
  <2>b. PICK d : d = pipes[p].buffer - n
    OBVIOUS
  <2>c. PICK v : v = [pipes[p] EXCEPT !.buffer = d]
    OBVIOUS
  <2>4. v \in PipeSet /\ v.readers = pipes[p].readers /\ v.writers = pipes[p].writers
    BY <2>1, <2>3, <2>b, <2>c, BufferPipe
  <2>5. pipes' = Put(pipes, p, v)
    BY <2>2, <2>b, <2>c DEF Put
  <2>. QED BY <1>3, <2>1, <2>4, <2>5, BufferChanged
<1>4. CASE /\ \E n \in 1 .. files[i].data : files' = [files EXCEPT ![i].data = @ - n]
           /\ UNCHANGED <<fds, pipes>>
  <2>1. PICK n \in 1 .. files[i].data : files' = [files EXCEPT ![i].data = @ - n]
    BY <1>4
  <2>b. PICK d : d = files[i].data - n
    OBVIOUS
  <2>2. d \in Int
    BY <1>1, <2>b DEF FileSet
  <2>c. PICK v : v = [files[i] EXCEPT !.data = d]
    OBVIOUS
  <2>3. v \in FileSet /\ Alike(v, files[i])
    BY <1>1, <2>2, <2>c, DataFile
  <2>4. files' = Put(files, i, v)
    BY <2>1, <2>b, <2>c DEF Put
  <2>. QED BY <1>1, <1>4, <2>3, <2>4, FileChanged
<1>. QED BY <1>2, <1>3, <1>4

LEMMA DataChanged ==
    ASSUME FilesInv, NEW i \in DOMAIN files, NEW d \in Int,
           files' = [files EXCEPT ![i].data = d], UNCHANGED <<fds, pipes>>
    PROVE  FilesInv'
<1>a. PICK v : v = [files[i] EXCEPT !.data = d]
  OBVIOUS
<1>1. v \in FileSet /\ Alike(v, files[i])
  BY <1>a, FilesTyped, DataFile
<1>2. files' = Put(files, i, v)
  BY <1>a DEF Put
<1>. QED BY <1>1, <1>2, FileChanged

LEMMA WriteGood ==
    ASSUME FilesInv, NEW fd, Write(fd)
    PROVE  FilesInv'
<1>a. PICK i : i = fds[fd]
  OBVIOUS
<1>1. i \in DOMAIN files /\ files[i] \in FileSet
  BY <1>a, FilesTyped DEF Write
<1>2. \/ /\ files[i].kind = "writer" /\ More(pipes[files[i].link].buffer)
         /\ pipes' = [pipes EXCEPT ![files[i].link].buffer = @ + 1]
         /\ UNCHANGED <<fds, files>>
      \/ /\ files' = [files EXCEPT ![i].data = @ + 1]
         /\ UNCHANGED <<fds, pipes>>
      \/ /\ files[i].kind = "socket" /\ files[i].link # NoLink
         /\ files' = [files EXCEPT ![files[i].link].data = @ + 1]
         /\ UNCHANGED <<fds, pipes>>
  BY <1>a DEF Write
<1>3. CASE /\ files[i].kind = "writer" /\ More(pipes[files[i].link].buffer)
           /\ pipes' = [pipes EXCEPT ![files[i].link].buffer = @ + 1]
           /\ UNCHANGED <<fds, files>>
  <2>a. PICK p : p = files[i].link
    OBVIOUS
  <2>1. p \in DOMAIN pipes /\ pipes[p] \in PipeSet
    BY <1>1, <1>3, <2>a, FilesTyped
  <2>2. pipes[p].buffer + 1 \in 0 .. MaxData
    BY <1>3, <2>1, <2>a, FdTableAssumption DEF PipeSet, More
  <2>b. PICK d : d = pipes[p].buffer + 1
    OBVIOUS
  <2>c. PICK v : v = [pipes[p] EXCEPT !.buffer = d]
    OBVIOUS
  <2>3. v \in PipeSet /\ v.readers = pipes[p].readers /\ v.writers = pipes[p].writers
    BY <2>1, <2>2, <2>b, <2>c, BufferPipe
  <2>4. pipes' = Put(pipes, p, v)
    BY <1>3, <2>a, <2>b, <2>c DEF Put
  <2>. QED BY <1>3, <2>1, <2>3, <2>4, BufferChanged
<1>4. CASE /\ files' = [files EXCEPT ![i].data = @ + 1]
           /\ UNCHANGED <<fds, pipes>>
  <2>a. PICK d : d = files[i].data + 1
    OBVIOUS
  <2>1. d \in Int
    BY <1>1, <2>a DEF FileSet
  <2>2. files' = [files EXCEPT ![i].data = d]
    BY <1>4, <2>a
  <2>. QED BY <1>1, <1>4, <2>1, <2>2, DataChanged
<1>5. CASE /\ files[i].kind = "socket" /\ files[i].link # NoLink
           /\ files' = [files EXCEPT ![files[i].link].data = @ + 1]
           /\ UNCHANGED <<fds, pipes>>
  <2>a. PICK j : j = files[i].link
    OBVIOUS
  <2>b. PICK d : d = files[j].data + 1
    OBVIOUS
  <2>1. j \in DOMAIN files /\ files[j] \in FileSet
    BY <1>1, <1>5, <2>a, FilesTyped
  <2>2. d \in Int
    BY <2>1, <2>b DEF FileSet
  <2>3. files' = [files EXCEPT ![j].data = d]
    BY <1>5, <2>a, <2>b
  <2>. QED BY <1>5, <2>1, <2>2, <2>3, DataChanged
<1>. QED BY <1>2, <1>3, <1>4, <1>5

LEMMA ConnectGood ==
    ASSUME FilesInv, NEW fd, Connect(fd)
    PROVE  FilesInv'
<1>a. PICK i : i = fds[fd]
  OBVIOUS
<1>1. i \in DOMAIN files /\ files[i] \in FileSet
  BY <1>a, FilesTyped DEF Connect
<1>2. PICK served \in BOOLEAN : files' = [files EXCEPT ![i].handler = served]
  BY <1>a DEF Connect
<1>b. PICK v : v = [files[i] EXCEPT !.handler = served]
  OBVIOUS
<1>3. v \in FileSet
  BY <1>1, <1>b DEF FileSet
<1>4. Alike(v, files[i])
  BY <1>1, <1>b DEF FileSet, Alike
<1>5. files' = Put(files, i, v)
  BY <1>2, <1>b DEF Put
<1>. QED BY <1>1, <1>3, <1>4, <1>5, FileChanged DEF Connect

LEMMA WatchingKept ==
    ASSUME NEW w \in Watching
    PROVE  /\ DOMAIN w \subseteq Fd
           /\ \A S \in SUBSET DOMAIN w : Restrict(w, S) \in Watching
           /\ \A fd \in Fd, i \in Nat : \A entry \in Entry(i) : With(w, fd, entry) \in Watching
<1>1. PICK D \in SUBSET Fd : w \in [D -> [file : Nat, in : BOOLEAN]]
  BY DEF Watching
<1>2. ASSUME NEW S \in SUBSET DOMAIN w PROVE Restrict(w, S) \in Watching
  <2>1. Restrict(w, S) \in [S -> [file : Nat, in : BOOLEAN]] /\ S \in SUBSET Fd
    BY <1>1 DEF Restrict
  <2>. QED BY <2>1 DEF Watching
<1>3. ASSUME NEW fd \in Fd, NEW i \in Nat, NEW entry \in Entry(i)
      PROVE  With(w, fd, entry) \in Watching
  <2>1. entry \in [file : Nat, in : BOOLEAN]
    BY DEF Entry
  <2>2. With(w, fd, entry) \in [D \cup {fd} -> [file : Nat, in : BOOLEAN]] /\ D \cup {fd} \in SUBSET Fd
    BY <1>1, <2>1 DEF With
  <2>. QED BY <2>2 DEF Watching
<1>. QED BY <1>1, <1>2, <1>3

LEMMA WatchFile ==
    ASSUME NEW x \in FileSet, NEW w \in Watching
    PROVE  [x EXCEPT !.watch = w] \in FileSet /\ Alike([x EXCEPT !.watch = w], x)
<1>1. [x EXCEPT !.watch = w] \in FileSet
  BY DEF FileSet
<1>2. Alike([x EXCEPT !.watch = w], x)
  BY DEF FileSet, Alike
<1>. QED BY <1>1, <1>2

LEMMA ControlGood ==
    ASSUME FilesInv, NEW epfd, NEW fd, Control(epfd, fd)
    PROVE  FilesInv'
<1>a. PICK e : e = fds[epfd]
  OBVIOUS
<1>b. PICK w : w = files[e].watch
  OBVIOUS
<1>1. e \in DOMAIN files /\ files[e] \in FileSet /\ w \in Watching
  BY <1>a, <1>b, FilesTyped DEF Control, FileSet
<1>2. fd \in Fd /\ fds[fd] \in Nat
  BY FilesTyped DEF Control
<1>3. \/ \E entry \in Entry(fds[fd]) : files' = [files EXCEPT ![e].watch = With(w, fd, entry)]
      \/ files' = [files EXCEPT ![e].watch = Restrict(w, DOMAIN w \ {fd})]
  BY <1>a, <1>b DEF Control
<1>4. \E x \in Watching : files' = [files EXCEPT ![e].watch = x]
  <2>1. CASE \E entry \in Entry(fds[fd]) : files' = [files EXCEPT ![e].watch = With(w, fd, entry)]
    <3>1. PICK entry \in Entry(fds[fd]) : files' = [files EXCEPT ![e].watch = With(w, fd, entry)]
      BY <2>1
    <3>2. With(w, fd, entry) \in Watching
      BY <1>1, <1>2, WatchingKept
    <3>. QED BY <3>1, <3>2
  <2>2. CASE files' = [files EXCEPT ![e].watch = Restrict(w, DOMAIN w \ {fd})]
    <3>1. Restrict(w, DOMAIN w \ {fd}) \in Watching
      BY <1>1, WatchingKept
    <3>. QED BY <2>2, <3>1
  <2>. QED BY <1>3, <2>1, <2>2
<1>5. PICK x \in Watching : files' = [files EXCEPT ![e].watch = x]
  BY <1>4
<1>c. PICK v : v = [files[e] EXCEPT !.watch = x]
  OBVIOUS
<1>6. v \in FileSet /\ Alike(v, files[e])
  BY <1>1, <1>c, WatchFile
<1>7. files' = Put(files, e, v)
  BY <1>5, <1>c DEF Put
<1>. QED BY <1>1, <1>6, <1>7, FileChanged DEF Control

LEMMA WaitGood ==
    ASSUME FilesInv, NEW epfd, Wait(epfd)
    PROVE  FilesInv'
<1>1. PICK gone : files' = Dropped(gone)
  BY DEF Wait
<1>2. fds' = fds /\ pipes' = pipes
  BY DEF Wait
<1>3. /\ files \in Seq(FileSet) /\ pipes \in Seq(PipeSet)
      /\ \A i \in DOMAIN files : files[i] \in FileSet
  BY FilesTyped
<1> DEFINE kept(e) == {fd \in DOMAIN files[e].watch : <<e, fd>> \notin gone}
<1>4. \A e \in DOMAIN files :
         files'[e] = [files[e] EXCEPT !.watch = Restrict(files[e].watch, kept(e))]
  BY <1>1 DEF Dropped, Ids
<1>5. DOMAIN files' = DOMAIN files /\ files' = [e \in DOMAIN files |-> files'[e]]
  BY <1>1 DEF Dropped, Ids
<1>6. ASSUME NEW e \in DOMAIN files
      PROVE  files'[e] \in FileSet /\ Alike(files'[e], files[e])
  <2>a. PICK x : x = files[e]
    OBVIOUS
  <2>b. PICK w : w = Restrict(files[e].watch, kept(e))
    OBVIOUS
  <2>1. x \in FileSet /\ x.watch \in Watching
    BY <1>3, <2>a DEF FileSet
  <2>2. kept(e) \in SUBSET DOMAIN x.watch
    BY <2>a
  <2>3. w \in Watching
    BY <2>1, <2>2, <2>a, <2>b, WatchingKept
  <2>4. files'[e] = [x EXCEPT !.watch = w]
    BY <1>4, <2>a, <2>b
  <2>5. [x EXCEPT !.watch = w] \in FileSet /\ Alike([x EXCEPT !.watch = w], x)
    BY <2>1, <2>3, WatchFile
  <2>. QED BY <2>4, <2>5, <2>a
<1>7. files' \in Seq(FileSet)
  <2>a. PICK n : n = Len(files)
    OBVIOUS
  <2>1. n \in Nat /\ DOMAIN files = 1 .. n
    BY <1>3, <2>a
  <2>2. files' \in [1 .. n -> FileSet]
    BY <1>5, <1>6, <2>1
  <2>. QED BY <2>1, <2>2
<1>8. SameFiles(files, files') /\ SameEnds(pipes, pipes)
  BY <1>5, <1>6 DEF SameFiles, SameEnds
<1>9. Good(fds, files, pipes)
  BY DEF FilesInv
<1>10. Good(fds, files', pipes)
  BY <1>3, <1>7, <1>8, <1>9, QuietGood
<1>. QED BY <1>2, <1>10 DEF FilesInv

LEMMA DupKeeps ==
    ASSUME FilesInv, NEW fd, NEW from, Dup(fd, from)
    PROVE  FilesInv'
<1>a. PICK new : new = Min(FreeFds(fds, from))
  OBVIOUS
<1>1. new \in Fd /\ new \notin DOMAIN fds
  BY <1>a, LowestIsFree DEF Dup
<1>2. fd \in DOMAIN fds /\ Good(fds, files, pipes)
  BY DEF Dup, FilesInv
<1>3. Good(With(fds, new, fds[fd]), files, pipes)
  BY <1>1, <1>2, DupGood
<1>. QED BY <1>3, <1>a DEF Dup, FilesInv

LEMMA InitGood == Init => FilesInv
<1>. SUFFICES ASSUME Init PROVE FilesInv
  OBVIOUS
<1>. USE FdTableAssumption
<1>a. PICK std : std = File("stdio", NoLink)
  OBVIOUS
<1>1. /\ fds = [fd \in 0 .. (FIRST - 1) |-> fd + 1]
      /\ files = [i \in 1 .. FIRST |-> std] /\ pipes = <<>>
  BY <1>a DEF Init
<1>2. std \in FileSet /\ std.kind = "stdio"
  <2>1. std \in FileSet
    BY <1>a, FileIsFile DEF Kinds, NoLink
  <2>2. std.kind = "stdio"
    BY <1>a DEF File
  <2>. QED BY <2>1, <2>2
<1>3. files \in [1 .. FIRST -> FileSet]
  BY <1>1, <1>2
<1>4. files \in Seq(FileSet) /\ DOMAIN files = 1 .. FIRST
  BY <1>3
<1>5. pipes \in Seq(PipeSet) /\ DOMAIN pipes = {}
  BY <1>1
<1>6. Typed(fds, files, pipes)
  BY <1>1, <1>4, <1>5 DEF Typed, Fd
<1>7. \A i \in DOMAIN files : files[i].kind = "stdio"
  BY <1>1, <1>2
<1>8. EndsGood(files, pipes) /\ SocketsGood(files) /\ ClosedGood(fds, files)
  BY <1>5, <1>7 DEF EndsGood, SocketsGood, ClosedGood, Closes
<1>. QED BY <1>6, <1>8 DEF FilesInv, Good

(* Every call keeps the table sound.                                         *)
LEMMA FilesStep ==
    ASSUME FilesInv, [Next]_vars
    PROVE  FilesInv'
<1>1. CASE Pipe
  BY <1>1, PipeGood
<1>2. CASE SocketPair
  BY <1>2, SocketPairGood
<1>3. CASE Single
  BY <1>3, MakeGood DEF Single
<1>4. ASSUME NEW fd \in Fd, Close(fd) \/ Read(fd) \/ Write(fd) \/ Connect(fd) \/ Wait(fd)
      PROVE  FilesInv'
  BY <1>4, CloseGood, ReadGood, WriteGood, ConnectGood, WaitGood
<1>5. ASSUME NEW fd \in Fd, NEW from \in Fd, Dup(fd, from)
      PROVE  FilesInv'
  BY <1>5, DupKeeps
<1>6. ASSUME NEW fd \in Fd, NEW other \in Fd, CloseRange(fd, other) \/ DupTo(fd, other) \/ Control(fd, other)
      PROVE  FilesInv'
  BY <1>6, CloseRangeGood, DupToGood, ControlGood
<1>7. CASE UNCHANGED vars
  BY <1>7 DEF vars, FilesInv
<1>. QED BY <1>1, <1>2, <1>3, <1>4, <1>5, <1>6, <1>7 DEF Next

LEMMA FilesAlways == Spec => []FilesInv
<1>1. FilesInv /\ [Next]_vars => FilesInv'
  BY FilesStep
<1>. QED BY <1>1, InitGood, PTL DEF Spec

-----------------------------------------------------------------------------
(* What the invariant says of handles that descriptors refer to.             *)
LEMMA ClosedIsUnreferred ==
    ASSUME FilesInv, NEW i \in Ids, Closes(files, i)
    PROVE  files[i].closed <=> ~Refers(fds, i)
BY DEF FilesInv, Good, ClosedGood, Ids

(* Of a pipe at most one end of each kind is open, and it is the one counted. *)
LEMMA OneEnd ==
    ASSUME FilesInv, NEW kind \in {"reader", "writer"}, NEW p, NEW n, Counts(files, kind, p, n)
    PROVE  \E i \in Ids :
              /\ files[i].kind = kind /\ files[i].link = p
              /\ n = IF Refers(fds, i) THEN 1 ELSE 0
              /\ \A j \in Ids : files[j].kind = kind /\ files[j].link = p => j = i
<1>1. PICK i \in Ids :
        files[i].kind = kind /\ files[i].link = p /\ n = IF files[i].closed THEN 0 ELSE 1
  BY DEF Counts, Ids
<1>2. files[i].closed <=> ~Refers(fds, i)
  BY <1>1, ClosedIsUnreferred DEF Closes
<1>3. n = IF Refers(fds, i) THEN 1 ELSE 0
  <2>1. CASE Refers(fds, i)
    <3>1. ~files[i].closed
      BY <1>2, <2>1, Zenon
    <3>. QED BY <1>1, <2>1, <3>1
  <2>2. CASE ~Refers(fds, i)
    <3>1. files[i].closed
      BY <1>2, <2>2, Zenon
    <3>. QED BY <1>1, <2>2, <3>1
  <2>. QED BY <2>1, <2>2
<1>4. Unique(files, i)
  BY <1>1 DEF FilesInv, Good, EndsGood, Ids
<1>5. \A j \in Ids : files[j].kind = kind /\ files[j].link = p => j = i
  BY <1>1, <1>4 DEF Unique, Ids
<1>. QED BY <1>1, <1>3, <1>5

LEMMA OpenEnds ==
    ASSUME FilesInv, NEW kind \in {"reader", "writer"}, NEW p, NEW n, Counts(files, kind, p, n)
    PROVE  n = Cardinality({i \in Ids : files[i].kind = kind /\ files[i].link = p /\ Refers(fds, i)})
<1> DEFINE opened == {i \in Ids : files[i].kind = kind /\ files[i].link = p /\ Refers(fds, i)}
<1>1. PICK i \in Ids :
        /\ files[i].kind = kind /\ files[i].link = p
        /\ n = IF Refers(fds, i) THEN 1 ELSE 0
        /\ \A j \in Ids : files[j].kind = kind /\ files[j].link = p => j = i
  BY OneEnd
<1>2. CASE Refers(fds, i)
  <2>1. opened = {i}
    BY <1>1, <1>2
  <2>. QED BY <1>1, <1>2, <2>1, FS_Singleton
<1>3. CASE ~Refers(fds, i)
  <2>1. opened = {}
    BY <1>1, <1>3
  <2>. QED BY <1>1, <1>3, <2>1, FS_EmptySet
<1>. QED BY <1>2, <1>3

LEMMA PeerKnown ==
    ASSUME FilesInv, NEW i \in Sockets, Refers(fds, i)
    PROVE  /\ files[i].pair # NoLink =>
                /\ files[i].link = (IF Refers(fds, files[i].pair) THEN files[i].pair ELSE NoLink)
                /\ files[i].hungUp <=> ~Refers(fds, files[i].pair)
           /\ files[i].pair = NoLink => ~files[i].hungUp
<1>1. i \in Ids /\ files[i].kind = "socket"
  BY DEF Sockets
<1>2. Lonely(files, i) \/ Paired(files, i)
  BY <1>1 DEF FilesInv, Good, SocketsGood, Ids
<1>3. ~files[i].closed
  BY <1>1, ClosedIsUnreferred, Zenon DEF Closes
<1>4. CASE Lonely(files, i)
  BY <1>4 DEF Lonely
<1>5. CASE Paired(files, i)
  <2>a. PICK j : j = files[i].pair
    OBVIOUS
  <2>1. j \in Ids /\ files[j].kind = "socket"
    BY <1>5, <2>a DEF Paired, Ids
  <2>2. files[j].closed <=> ~Refers(fds, j)
    BY <2>1, ClosedIsUnreferred DEF Closes
  <2>3. files[i].link = (IF files[i].closed \/ files[j].closed THEN NoLink ELSE j)
    BY <1>5, <2>a DEF Paired
  <2>4. files[i].hungUp <=> files[j].closed
    BY <1>3, <1>5, <2>a, Zenon DEF Paired
  <2>5. files[i].link = (IF Refers(fds, j) THEN j ELSE NoLink)
    BY <1>3, <2>2, <2>3, Zenon
  <2>6. files[i].hungUp <=> ~Refers(fds, j)
    BY <2>2, <2>4, Zenon
  <2>7. j # NoLink
    <3>1. files \in Seq(FileSet)
      BY FilesTyped
    <3>. QED BY <2>1, <3>1 DEF Ids, NoLink
  <2>. QED BY <2>a, <2>5, <2>6, <2>7
<1>. QED BY <1>2, <1>4, <1>5

-----------------------------------------------------------------------------
(* The answers of can_read, the least that satisfies its equations.          *)
LEMMA DataIsReadable ==
    ASSUME NEW i \in Ids, HasData(i)
    PROVE  CanRead(i)
BY DEF CanRead

LEMMA AskedIsReadable ==
    ASSUME NEW e \in Ids, NEW fd \in DOMAIN Watches(e), Asks(e, fd), CanRead(Watches(e)[fd].file)
    PROVE  CanRead(e)
<1>. SUFFICES ASSUME NEW S \in SUBSET Ids,
                     \A j \in Ids : HasData(j) => j \in S,
                     \A x \in Ids : (\E y \in DOMAIN Watches(x) : Asks(x, y) /\ Watches(x)[y].file \in S) => x \in S
              PROVE  e \in S
  BY DEF CanRead
<1>1. Watches(e)[fd].file \in S
  BY DEF CanRead
<1>. QED BY <1>1

LEMMA OnlyDataIsReadable ==
    ASSUME NEW i \in Ids, files[i].kind # "epoll", CanRead(i)
    PROVE  HasData(i)
<1>. SUFFICES ASSUME ~HasData(i) PROVE FALSE
  OBVIOUS
<1>a. PICK S : S = Ids \ {i}
  OBVIOUS
<1>1. S \in SUBSET Ids /\ i \notin S
  BY <1>a
<1>2. \A j \in Ids : HasData(j) => j \in S
  BY <1>a
<1>3. ASSUME NEW e \in Ids, \E fd \in DOMAIN Watches(e) : Asks(e, fd) /\ Watches(e)[fd].file \in S
      PROVE  e \in S
  <2>1. files[e].kind = "epoll"
    BY <1>3 DEF Watches
  <2>. QED BY <1>a, <2>1
<1>. QED BY <1>1, <1>2, <1>3 DEF CanRead

LEMMA OnlyReadyIsReadable ==
    ASSUME NEW i \in Ids, files[i].kind = "epoll", CanRead(i)
    PROVE  Ready(i) # {}
<1>. SUFFICES ASSUME Ready(i) = {} PROVE FALSE
  OBVIOUS
<1>a. PICK S : S = {k \in Ids : CanRead(k)} \ {i}
  OBVIOUS
<1>1. S \in SUBSET Ids /\ i \notin S
  BY <1>a
<1>2. ASSUME NEW j \in Ids, HasData(j) PROVE j \in S
  <2>1. j # i
    BY <1>2 DEF HasData
  <2>. QED BY <1>2, <1>a, <2>1, DataIsReadable
<1>3. ASSUME NEW e \in Ids, NEW fd \in DOMAIN Watches(e), Asks(e, fd), Watches(e)[fd].file \in S
      PROVE  e \in S
  <2>1. CanRead(Watches(e)[fd].file)
    BY <1>3, <1>a
  <2>2. CanRead(e)
    BY <1>3, <2>1, AskedIsReadable
  <2>3. fd \in Ready(e)
    BY <1>3, <2>1 DEF Ready
  <2>. QED BY <1>a, <2>2, <2>3
<1>4. \A e \in Ids : (\E fd \in DOMAIN Watches(e) : Asks(e, fd) /\ Watches(e)[fd].file \in S) => e \in S
  BY <1>3
<1>. QED BY <1>1, <1>2, <1>4 DEF CanRead

(* A handle has data, or its other side is gone, exactly when the guest can  *)
(* observe it.                                                               *)
LEMMA DataIsObservable ==
    ASSUME FilesInv, NEW i \in Ids, Refers(fds, i), files[i].kind # "epoll"
    PROVE  HasData(i) <=> Observable(i)
<1>0. files[i].kind \in Kinds /\ files[i] \in FileSet
  BY FilesTyped DEF Ids, FileSet
<1>1. CASE files[i].kind = "reader"
  <2>a. PICK p : p = files[i].link
    OBVIOUS
  <2>1. p \in DOMAIN pipes
    BY <1>1, <2>a, FilesTyped DEF Ids
  <2>2. Counts(files, "writer", p, pipes[p].writers)
    BY <2>1 DEF FilesInv, Good, EndsGood
  <2>3. PICK w \in Ids :
          /\ files[w].kind = "writer" /\ files[w].link = p
          /\ pipes[p].writers = IF Refers(fds, w) THEN 1 ELSE 0
          /\ \A j \in Ids : files[j].kind = "writer" /\ files[j].link = p => j = w
    BY <2>2, OneEnd
  <2>4. pipes[p].writers = 0 <=> ~\E j \in Ids : files[j].kind = "writer" /\ files[j].link = p /\ Refers(fds, j)
    BY <2>3
  <2>5. HasData(i) <=> pipes[p].buffer > 0 \/ pipes[p].writers = 0
    BY <1>1, <2>a DEF HasData
  <2>6. Observable(i) <=>
          \/ pipes[p].buffer > 0
          \/ ~\E j \in Ids : files[j].kind = "writer" /\ files[j].link = p /\ Refers(fds, j)
    BY <1>1, <2>a DEF Observable
  <2>. QED BY <2>4, <2>5, <2>6, Zenon
<1>2. CASE files[i].kind = "socket"
  <2>1. HasData(i) <=> files[i].data > 0 \/ files[i].hungUp
    BY <1>2 DEF HasData
  <2>2. Observable(i) <=> files[i].data > 0 \/ (files[i].pair # NoLink /\ ~Refers(fds, files[i].pair))
    BY <1>2 DEF Observable
  <2>3. files[i].hungUp <=> files[i].pair # NoLink /\ ~Refers(fds, files[i].pair)
    <3>1. i \in Sockets
      BY <1>2 DEF Sockets
    <3>2. files[i].pair # NoLink => (files[i].hungUp <=> ~Refers(fds, files[i].pair))
      BY <3>1, PeerKnown, Zenon
    <3>3. files[i].pair = NoLink => ~files[i].hungUp
      BY <3>1, PeerKnown, Zenon
    <3>. QED BY <3>2, <3>3, Zenon
  <2>. QED BY <2>1, <2>2, <2>3, Zenon
<1>3. CASE files[i].kind \notin {"reader", "socket"}
  BY <1>0, <1>3 DEF Observable
<1>. QED BY <1>1, <1>2, <1>3

LEMMA ReadableIsObservable ==
    ASSUME FilesInv, NEW i \in Ids, Refers(fds, i)
    PROVE  CanRead(i) <=> Observable(i)
<1>1. CASE files[i].kind = "epoll"
  <2>1. Observable(i) <=> Ready(i) # {}
    BY <1>1 DEF Observable
  <2>2. ASSUME Ready(i) # {} PROVE CanRead(i)
    <3>1. PICK fd \in DOMAIN Watches(i) : Asks(i, fd) /\ CanRead(Watches(i)[fd].file)
      BY <2>2 DEF Ready
    <3>. QED BY <3>1, AskedIsReadable
  <2>3. CanRead(i) => Ready(i) # {}
    BY <1>1, OnlyReadyIsReadable
  <2>. QED BY <2>1, <2>2, <2>3
<1>2. CASE files[i].kind # "epoll"
  BY <1>2, DataIsObservable, DataIsReadable, OnlyDataIsReadable
<1>. QED BY <1>1, <1>2

-----------------------------------------------------------------------------
(* A pipe end or a socket is closed exactly when no descriptor refers to it: *)
(* _close_fd looks for another descriptor before it closes the handle.       *)
THEOREM ClosedAlwaysWithLastFd == Spec => []ClosedWithLastFd
<1>1. FilesInv => ClosedWithLastFd
  BY ClosedIsUnreferred DEF ClosedWithLastFd, Closes, Ends, Sockets
<1>. QED BY <1>1, FilesAlways, PTL

(* The counts of a pipe and the links of a pair are what the descriptors say *)
(* after any calls: PipeIO.close counts the ends down, SocketIO.close tells  *)
(* the peer.                                                                 *)
THEOREM EndsAlwaysAgree == Spec => []EndsAgree
<1>1. ASSUME FilesInv PROVE EndsAgree
  <2>1. EndsCounted
    <3>1. ASSUME NEW p \in DOMAIN pipes
          PROVE  Counts(files, "reader", p, pipes[p].readers) /\ Counts(files, "writer", p, pipes[p].writers)
      BY <1>1 DEF FilesInv, Good, EndsGood
    <3>. QED BY <1>1, <3>1, OpenEnds DEF EndsCounted
  <2>2. PeersAgree
    BY <1>1, PeerKnown DEF PeersAgree
  <2>. QED BY <2>1, <2>2 DEF EndsAgree
<1>. QED BY <1>1, FilesAlways, PTL

(* epoll_wait reports exactly the registered files that their descriptor     *)
(* still is and that the guest can observe: EpollIO asks each file, and sets *)
(* ask the sets they watch.                                                  *)
THEOREM ReportsAlwaysReadable == Spec => []ReportsReadable
<1>1. ASSUME FilesInv PROVE ReportsReadable
  <2>1. ASSUME NEW e \in Ids, NEW fd \in DOMAIN Watches(e), fd \in DOMAIN fds,
               fds[fd] = Watches(e)[fd].file
        PROVE  CanRead(Watches(e)[fd].file) <=> Observable(fds[fd])
    <3>1. fds[fd] \in Ids /\ Refers(fds, fds[fd])
      BY <1>1, <2>1, FilesTyped DEF Ids, Refers
    <3>. QED BY <1>1, <2>1, <3>1, ReadableIsObservable
  <2>2. ASSUME NEW e \in Ids
        PROVE  Ready(e) = {fd \in DOMAIN Watches(e) :
                              /\ fd \in DOMAIN fds /\ fds[fd] = Watches(e)[fd].file
                              /\ Watches(e)[fd].in /\ Observable(fds[fd])}
    BY <2>1 DEF Ready, Asks, Current
  <2>. QED BY <2>2 DEF ReportsReadable
<1>. QED BY <1>1, FilesAlways, PTL
=============================================================================
