------------------------------- MODULE FdTable -------------------------------
(***************************************************************************)
(* The descriptor table of AndroidFileSystem and the handles that carry    *)
(* state between descriptors: the two ends of a pipe, sockets and their    *)
(* peers, eventfds, and epoll sets.                                        *)
(*                                                                         *)
(* A handle is an open file description: dup() makes two descriptors share *)
(* one, and it is closed when the last of them is.  Descriptor numbers are *)
(* reused at once, handles never are.  Bytes are counted, not kept.  A     *)
(* system call that faults when it writes its answer to the guest (read    *)
(* into a bad buffer, pipe2 with a bad pointer) has had its effect here.   *)
(***************************************************************************)
EXTENDS Integers, Sequences, FiniteSets, FiniteSetsExt, Functions

CONSTANTS
    FIRST,       \* the descriptors below it are stdin, stdout and stderr
    MaxFd,       \* bound: the largest descriptor number
    MaxFiles,    \* bound: the handles made in one run
    MaxData      \* bound: what a buffer or a counter holds

ASSUME FdTableAssumption ==
    /\ FIRST \in Nat /\ MaxFd \in Nat /\ MaxFiles \in Nat /\ MaxData \in Nat
    /\ FIRST <= MaxFd /\ FIRST <= MaxFiles

VARIABLES
    fds,         \* _fds: the handle of each open descriptor
    files,       \* the handles, in the order they were made
    pipes        \* the PipeState of each pipe

vars == <<fds, files, pipes>>

Fd == 0 .. MaxFd

(* One record for every kind of handle: `link` is the pipe of an end and the *)
(* peer of a socket, `data` a socket's inbox and an eventfd's counter,       *)
(* `watch` an epoll set's entries; `pair` is a history: the other socket.    *)
NoLink == 0

File(kind, link) ==
    [kind |-> kind, link |-> link, pair |-> link, closed |-> FALSE, hungUp |-> FALSE,
     handler |-> FALSE, data |-> 0, watch |-> <<>>]

Table == [fds |-> fds, files |-> files, pipes |-> pipes]

Becomes(t) == fds' = t.fds /\ files' = t.files /\ pipes' = t.pipes

Init ==
    /\ fds = [fd \in 0 .. (FIRST - 1) |-> fd + 1]
    /\ files = [i \in 1 .. FIRST |-> File("stdio", NoLink)]
    /\ pipes = <<>>

(***************************************************************************)
(* _install and dup: the lowest descriptor that is free from `from` on.    *)
(***************************************************************************)
FreeFds(f, from) == {fd \in Fd : fd >= from} \ DOMAIN f

With(f, fd, i) == [x \in DOMAIN f \cup {fd} |-> IF x = fd THEN i ELSE f[x]]

CanInstall(f) == FreeFds(f, FIRST) # {}

Installed(f, i) == With(f, Min(FreeFds(f, FIRST)), i)

(* New handles, installed one after the other.                               *)
Make(new) ==
    /\ Len(files) < MaxFiles /\ CanInstall(fds)
    /\ fds' = Installed(fds, Len(files) + 1)
    /\ files' = Append(files, new)

MakeTwo(new, other) ==
    LET one == Installed(fds, Len(files) + 1)
    IN  /\ Len(files) + 1 < MaxFiles /\ CanInstall(fds) /\ CanInstall(one)
        /\ fds' = Installed(one, Len(files) + 2)
        /\ files' = Append(Append(files, new), other)

Pipe ==
    /\ MakeTwo(File("reader", Len(pipes) + 1), File("writer", Len(pipes) + 1))
    /\ pipes' = Append(pipes, [buffer |-> 0, readers |-> 1, writers |-> 1])

SocketPair ==
    /\ MakeTwo(File("socket", Len(files) + 2), File("socket", Len(files) + 1))
    /\ UNCHANGED pipes

(* socket, eventfd and epoll_create.                                         *)
Single ==
    /\ \E kind \in {"socket", "eventfd", "epoll"} : Make(File(kind, NoLink))
    /\ UNCHANGED pipes

(***************************************************************************)
(* close: the descriptor goes, and with the last one of its handle the     *)
(* handle is closed.                                                       *)
(***************************************************************************)
Refers(f, i) == \E fd \in DOMAIN f : f[fd] = i

Shut(f) == [f EXCEPT !.closed = TRUE]
Alone(f) == [f EXCEPT !.link = NoLink]
Told(f) == [f EXCEPT !.hungUp = TRUE, !.link = NoLink]

(* Fault: the peer is not told.                                              *)
CloseSocketQuietly(t, i) == [t EXCEPT !.files[i] = Alone(Shut(@))]

CloseSocket(t, i) ==
    LET peer == t.files[i].link
        mine == [t EXCEPT !.files[i] = Alone(Shut(@))]
    IN  IF peer = NoLink THEN mine ELSE [mine EXCEPT !.files[peer] = Told(@)]

Without(p, kind) ==
    IF kind = "reader" THEN [p EXCEPT !.readers = @ - 1] ELSE [p EXCEPT !.writers = @ - 1]

CloseEnd(t, i) ==
    LET f == t.files[i]
        counted == [t EXCEPT !.pipes[f.link] = Without(@, f.kind)]
    IN  [counted EXCEPT !.files[i] = Shut(@)]

CloseHandle(t, i) ==
    IF t.files[i].closed THEN t
    ELSE CASE t.files[i].kind \in {"reader", "writer"} -> CloseEnd(t, i)
           [] t.files[i].kind = "socket"               -> CloseSocket(t, i)
           [] OTHER                                    -> t

(* Fault: the handle is closed with its first descriptor.                    *)
ClosedAtOnce(t, fd) ==
    CloseHandle([t EXCEPT !.fds = Restrict(t.fds, DOMAIN t.fds \ {fd})], t.fds[fd])

Closed(t, fd) ==
    LET rest == Restrict(t.fds, DOMAIN t.fds \ {fd})
        left == [t EXCEPT !.fds = rest]
    IN  IF Refers(rest, t.fds[fd]) THEN left ELSE CloseHandle(left, t.fds[fd])

Close(fd) == fd \in DOMAIN fds /\ Becomes(Closed(Table, fd))

(* close, which answers EBADF for a descriptor that is not open.             *)
ClosedIfOpen(t, fd) == IF fd \in DOMAIN t.fds THEN Closed(t, fd) ELSE t

(* The descriptors are closed in the order in which they were opened, which  *)
(* is any order.                                                             *)
CloseRange(first, last) ==
    LET targets == {fd \in DOMAIN fds : first <= fd /\ fd <= last}
        n == Cardinality(targets)
    IN  \E order \in [1 .. n -> targets] :
            /\ IsInjective(order)
            /\ LET after[k \in 0 .. n] ==
                      IF k = 0 THEN Table ELSE ClosedIfOpen(after[k - 1], order[k])
               IN  Becomes(after[n])

(* dup, and fcntl with F_DUPFD; close-on-exec is not kept.                   *)
Dup(fd, from) ==
    /\ fd \in DOMAIN fds
    /\ FreeFds(fds, from) # {}
    /\ fds' = With(fds, Min(FreeFds(fds, from)), fds[fd])
    /\ UNCHANGED <<files, pipes>>

(* dup_to closes what the new number was, unless both are the same.          *)
(* Fault: it is overwritten.                                                 *)
Replaced(t, fd) == t

Vacated(t, fd) == ClosedIfOpen(t, fd)

DupTo(old, new) ==
    /\ old \in DOMAIN fds /\ old # new
    /\ LET t == Vacated(Table, new)
       IN  Becomes([t EXCEPT !.fds = With(t.fds, new, fds[old])])

(***************************************************************************)
(* Reading and writing.  What they answer is left out; a call that answers *)
(* an error changes nothing.                                               *)
(***************************************************************************)
Read(fd) ==
    /\ fd \in DOMAIN fds
    /\ LET i == fds[fd]
           f == files[i]
       IN  \/ /\ f.kind = "reader" /\ ~f.closed
              /\ \E n \in 1 .. pipes[f.link].buffer :
                    pipes' = [pipes EXCEPT ![f.link].buffer = @ - n]
              /\ UNCHANGED files
           \/ /\ (f.kind = "socket" /\ ~f.closed) \/ f.kind = "eventfd"
              /\ \E n \in 1 .. f.data : files' = [files EXCEPT ![i].data = @ - n]
              /\ UNCHANGED pipes
    /\ UNCHANGED fds

More(data) == data < MaxData

Write(fd) ==
    /\ fd \in DOMAIN fds
    /\ LET i == fds[fd]
           f == files[i]
       IN  \/ /\ f.kind = "writer" /\ ~f.closed
              /\ pipes[f.link].readers > 0 /\ More(pipes[f.link].buffer)
              /\ pipes' = [pipes EXCEPT ![f.link].buffer = @ + 1]
              /\ UNCHANGED files
           \/ /\ f.kind = "socket" /\ ~f.closed /\ ~f.hungUp
              /\ \/ f.handler /\ More(f.data) /\ files' = [files EXCEPT ![i].data = @ + 1]
                 \/ /\ ~f.handler /\ f.link # NoLink
                    /\ ~files[f.link].closed /\ More(files[f.link].data)
                    /\ files' = [files EXCEPT ![f.link].data = @ + 1]
              /\ UNCHANGED pipes
           \/ /\ f.kind = "eventfd" /\ More(f.data)
              /\ files' = [files EXCEPT ![i].data = @ + 1]
              /\ UNCHANGED pipes
    /\ UNCHANGED fds

(* connect to a name: a handler of the host, or a socket nobody serves.      *)
Connect(fd) ==
    /\ fd \in DOMAIN fds /\ files[fds[fd]].kind = "socket"
    /\ \E served \in BOOLEAN : files' = [files EXCEPT ![fds[fd]].handler = served]
    /\ UNCHANGED <<fds, pipes>>

(***************************************************************************)
(* epoll_ctl: an entry is filed under its descriptor and remembers the     *)
(* handle; a stale one is in the way of ADD until a wait drops it.         *)
(***************************************************************************)
Entry(i) == [file : {i}, in : BOOLEAN]

Control(epfd, fd) ==
    /\ {epfd, fd} \subseteq DOMAIN fds
    /\ files[fds[epfd]].kind = "epoll" /\ fds[fd] # fds[epfd]
    /\ LET e == fds[epfd]
           w == files[e].watch
       IN  \/ \E entry \in Entry(fds[fd]) :    \* ADD or MOD
                 files' = [files EXCEPT ![e].watch = With(w, fd, entry)]
           \/ /\ fd \in DOMAIN w               \* DEL
              /\ files' = [files EXCEPT ![e].watch = Restrict(w, DOMAIN w \ {fd})]
    /\ UNCHANGED <<fds, pipes>>

Ids == DOMAIN files
Watches(e) == IF files[e].kind = "epoll" THEN files[e].watch ELSE <<>>

Current(e, fd) == fd \in DOMAIN fds /\ fds[fd] = Watches(e)[fd].file

Asks(e, fd) == Current(e, fd) /\ Watches(e)[fd].in

(* can_read of the handles that are no epoll sets.                           *)
(* Fault: a socket whose peer has gone looks idle.                           *)
HasDataOnly(i) ==
    CASE files[i].kind = "stdio"   -> TRUE
      [] files[i].kind = "reader"  -> pipes[files[i].link].buffer > 0 \/ pipes[files[i].link].writers = 0
      [] files[i].kind = "socket"  -> files[i].data > 0
      [] files[i].kind = "eventfd" -> files[i].data > 0
      [] OTHER                     -> FALSE

HasData(i) ==
    CASE files[i].kind = "stdio"   -> TRUE
      [] files[i].kind = "reader"  -> pipes[files[i].link].buffer > 0 \/ pipes[files[i].link].writers = 0
      [] files[i].kind = "socket"  -> files[i].data > 0 \/ files[i].hungUp
      [] files[i].kind = "eventfd" -> files[i].data > 0
      [] OTHER                     -> FALSE

(* can_read of an epoll set asks the sets it watches: the handles it reads   *)
(* from, those it asks, and the sets whose questions never end.              *)
CanRead(i) ==
    \A S \in SUBSET Ids :
        /\ \A j \in Ids : HasData(j) => j \in S
        /\ \A e \in Ids : (\E fd \in DOMAIN Watches(e) : Asks(e, fd) /\ Watches(e)[fd].file \in S) => e \in S
        => i \in S

Asked(i) ==
    {j \in Ids : \A S \in SUBSET Ids :
        /\ i \in S
        /\ \A e \in S : \A fd \in DOMAIN Watches(e) : Asks(e, fd) => Watches(e)[fd].file \in S
        => j \in S}

Endless(i) ==
    \E S \in SUBSET Ids :
        /\ i \in S
        /\ \A e \in S : \E fd \in DOMAIN Watches(e) : Asks(e, fd) /\ Watches(e)[fd].file \in S

Stale == {x \in Ids \X Fd : x[2] \in DOMAIN Watches(x[1]) /\ ~Current(x[1], x[2])}

Dropped(gone) ==
    [e \in Ids |-> [files[e] EXCEPT !.watch = Restrict(@, {fd \in DOMAIN @ : <<e, fd>> \notin gone})]]

Ready(e) == {fd \in DOMAIN Watches(e) : Asks(e, fd) /\ CanRead(Watches(e)[fd].file)}

(* epoll_wait, and ppoll and pselect6 of an epoll set, drop the stale        *)
(* entries of every set they ask.  Sets that watch each other ask for ever:  *)
(* the call ends with an exception, some of the entries dropped.             *)
Wait(epfd) ==
    /\ epfd \in DOMAIN fds /\ files[fds[epfd]].kind = "epoll"
    /\ LET met == {x \in Stale : x[1] \in Asked(fds[epfd])}
       IN  IF Endless(fds[epfd])
           THEN \E gone \in SUBSET met : files' = Dropped(gone)
           ELSE files' = Dropped(met)
    /\ UNCHANGED <<fds, pipes>>

Next ==
    \/ Pipe \/ SocketPair \/ Single
    \/ \E fd \in Fd : Close(fd) \/ Read(fd) \/ Write(fd) \/ Connect(fd) \/ Wait(fd)
    \/ \E fd, from \in Fd : Dup(fd, from)
    \/ \E fd, other \in Fd : CloseRange(fd, other) \/ DupTo(fd, other) \/ Control(fd, other)

Spec == Init /\ [][Next]_vars

-----------------------------------------------------------------------------
TypeOK ==
    /\ DOMAIN fds \subseteq Fd /\ \A fd \in DOMAIN fds : fds[fd] \in Ids
    /\ \A p \in DOMAIN pipes : pipes[p].buffer \in 0 .. MaxData

Ends == {i \in Ids : files[i].kind \in {"reader", "writer"}}
Sockets == {i \in Ids : files[i].kind = "socket"}

(* A pipe end or a socket is closed exactly when no descriptor refers to it, *)
(* however often it was duplicated, duplicated over, and closed in ranges.   *)
ClosedWithLastFd == \A i \in Ends \cup Sockets : files[i].closed <=> ~Refers(fds, i)

(* A pipe counts the ends that can still be used: a reader gets the end of   *)
(* the file, and a writer EPIPE, exactly when the other side is gone.        *)
EndsCounted ==
    \A p \in DOMAIN pipes :
        LET open(kind) == {i \in Ids : files[i].kind = kind /\ files[i].link = p /\ Refers(fds, i)}
        IN  pipes[p].readers = Cardinality(open("reader")) /\ pipes[p].writers = Cardinality(open("writer"))

(* A socket of a pair that is in use knows its peer while that is in use,    *)
(* and has been told once it is not.                                         *)
PeersAgree ==
    \A i \in Sockets :
        Refers(fds, i) /\ files[i].pair # NoLink =>
            LET there == Refers(fds, files[i].pair)
            IN  /\ files[i].link = (IF there THEN files[i].pair ELSE NoLink)
                /\ files[i].hungUp <=> ~there

(* Both: each side knows whether the other is still there.                   *)
EndsAgree == EndsCounted /\ PeersAgree

(* What epoll_wait reports is what the guest can observe: descriptors that   *)
(* still are the file that was registered, with data to read, or whose other *)
(* side no descriptor refers to any more.                                    *)
Observable(i) ==
    CASE files[i].kind = "reader" ->
            \/ pipes[files[i].link].buffer > 0
            \/ ~\E j \in Ids : files[j].kind = "writer" /\ files[j].link = files[i].link /\ Refers(fds, j)
      [] files[i].kind = "socket" ->
            \/ files[i].data > 0
            \/ files[i].pair # NoLink /\ ~Refers(fds, files[i].pair)
      [] files[i].kind = "epoll"  -> Ready(i) # {}
      [] OTHER                    -> HasData(i)

ReportsReadable ==
    \A e \in Ids : Refers(fds, e) /\ ~Endless(e) =>
        Ready(e) = {fd \in DOMAIN Watches(e) :
                        /\ fd \in DOMAIN fds /\ fds[fd] = Watches(e)[fd].file
                        /\ Watches(e)[fd].in /\ Observable(fds[fd])}
=============================================================================
