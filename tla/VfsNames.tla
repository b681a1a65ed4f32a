------------------------------ MODULE VfsNames -------------------------------
(***************************************************************************)
(* The names of AndroidFileSystem: host files of the rootfs, which are     *)
(* only read; an overlay of files in memory; directories that were made;   *)
(* and names that were deleted, under which the host is not looked at.     *)
(*                                                                         *)
(* An overlay file is a Python bytearray that its name and the open        *)
(* handles share.  Opening a host file to write copies it into the         *)
(* overlay; opening it to read makes a private copy.  Names are normalised *)
(* paths that no provider, device or link answers for.                     *)
(***************************************************************************)
EXTENDS Integers, FiniteSets, Functions

CONSTANTS
    Name,        \* paths
    Below,       \* Below[n]: the paths under n, that is, with the prefix "n/"
    HostFiles,   \* regular files of the rootfs
    HostDirs,    \* directories of the rootfs
    Data, Empty, \* what is written, and the contents of a new file
    Nothing,     \* no name; no contents
    MaxFd        \* bound: the number of open descriptors

ASSUME VfsNamesAssumption ==
    /\ IsFiniteSet(Name)
    /\ Below \in [Name -> SUBSET Name]
    /\ HostFiles \cup HostDirs \subseteq Name /\ HostFiles \cap HostDirs = {}
    /\ \A n \in Name : n \notin Below[n] /\ (Below[n] \cap (HostFiles \cup HostDirs) # {} => n \in HostDirs)
    /\ Nothing \notin Name \cup Data \cup {Empty}
    /\ MaxFd \in Nat

VARIABLES
    names,       \* _overlay, _made_dirs and _deleted
    contents,    \* of each buffer
    open,        \* the handle of each descriptor
    gone         \* history: files removed and not made again

vars == <<names, contents, open, gone>>

Fd == 1 .. MaxFd
Buffer == 1 .. Cardinality(Name) + MaxFd + 1

(* The contents of a host file go by its name.                               *)
Content == HostFiles \cup Data \cup {Empty}

Init ==
    /\ names = [overlay |-> <<>>, made |-> {}, deleted |-> {}]
    /\ contents = [b \in Buffer |-> Empty]
    /\ open = <<>>
    /\ gone = {}

(***************************************************************************)
(* Looking up names.                                                       *)
(***************************************************************************)
HostFile(s, n) == n \in HostFiles \ s.deleted

IsDir(s, n) ==
    n \in s.made \/ n \in HostDirs \ s.deleted \/ Below[n] \cap DOMAIN s.overlay # {}

Exists(s, n) == n \in DOMAIN s.overlay \/ HostFile(s, n) \/ IsDir(s, n)

(* No directory above n is missing: the root needs no entry.                 *)
HasParent(s, n) ==
    \A p \in Name : n \in Below[p] /\ (\A q \in Name : q \in Below[p] => n \notin Below[q]) => IsDir(s, p)

(***************************************************************************)
(* Buffers.  One that no name and no handle refers to is garbage.          *)
(***************************************************************************)
Buffers(s, handles) == Range(s.overlay) \cup {handles[fd].buffer : fd \in DOMAIN handles}

Fresh == CHOOSE b \in Buffer : b \notin Buffers(names, open)

With(f, x, y) == [z \in DOMAIN f \cup {x} |-> IF z = x THEN y ELSE f[z]]

Without(f, x) == Restrict(f, DOMAIN f \ {x})

Become(s, handles, b, c) ==
    /\ names' = s /\ open' = handles
    /\ LET referred == Buffers(s, handles)
       IN  contents' = [a \in Buffer |-> IF a \notin referred THEN Empty
                                         ELSE IF a = b THEN c ELSE contents[a]]

(* `at` is a history: the name under which the file of a handle is found.    *)
Handle(buffer, writable, at) == [buffer |-> buffer, writable |-> writable, at |-> at]
Directory == Handle(0, FALSE, Nothing)

Installed(h) ==
    With(open, CHOOSE fd \in Fd \ DOMAIN open : \A lower \in 1 .. fd - 1 : lower \in DOMAIN open, h)

CanInstall == Fd # DOMAIN open

(* The files of handles are moved with their names, and lose them.           *)
Moved(old, new) ==
    [fd \in DOMAIN open |->
        [open[fd] EXCEPT !.at = IF @ = old THEN new ELSE IF @ = new THEN Nothing ELSE @]]

(***************************************************************************)
(* open.  One of the actions below applies, or it fails without effect.    *)
(***************************************************************************)
(* O_EXCL counts with O_CREAT only, O_TRUNC for writing, and access makes    *)
(* no difference with O_DIRECTORY.                                           *)
Flags ==
    {f \in [creat : BOOLEAN, excl : BOOLEAN, trunc : BOOLEAN, directory : BOOLEAN, writable : BOOLEAN] :
        (f.excl => f.creat) /\ (f.trunc => f.writable) /\ (f.directory => ~f.writable)}

(* O_CREAT brings back the host file under a deleted name.                   *)
Created(n, f) == IF f.creat THEN [names EXCEPT !.deleted = @ \ {n}] ELSE names

Admitted(n, f) == ~(f.creat /\ f.excl /\ Exists(names, n))

AsFile(n, f) == CanInstall /\ Admitted(n, f) /\ ~f.directory /\ ~IsDir(Created(n, f), n)

Creates(n, f) == gone' = IF f.creat THEN gone \ {n} ELSE gone

(* It may fail for what is no directory, the name undeleted all the same.    *)
OpenDirectory(n, f) ==
    /\ CanInstall /\ Admitted(n, f)
    /\ f.directory \/ IsDir(Created(n, f), n)
    /\ Become(Created(n, f), IF IsDir(Created(n, f), n) THEN Installed(Directory) ELSE open, 0, Empty)
    /\ Creates(n, f)

OpenOverlay(n, f) ==
    /\ AsFile(n, f) /\ n \in DOMAIN names.overlay
    /\ LET b == names.overlay[n]
       IN  Become(Created(n, f), Installed(Handle(b, f.writable, n)), b,
                  IF f.writable /\ f.trunc THEN Empty ELSE contents[b])
    /\ Creates(n, f)

(* setdefault.  Fault: the copy is not kept under the name.                  *)
PromotePrivately(s, n, b) == s
Promote(s, n, b) == [s EXCEPT !.overlay = With(@, n, b)]

OpenHostToWrite(n, f) ==
    /\ AsFile(n, f) /\ n \notin DOMAIN names.overlay
    /\ HostFile(Created(n, f), n) /\ f.writable
    /\ Become(Promote(Created(n, f), n, Fresh), Installed(Handle(Fresh, TRUE, n)), Fresh,
              IF f.trunc THEN Empty ELSE n)
    /\ Creates(n, f)

OpenHostToRead(n, f) ==
    /\ AsFile(n, f) /\ n \notin DOMAIN names.overlay
    /\ HostFile(Created(n, f), n) /\ ~f.writable
    /\ Become(Created(n, f), Installed(Handle(Fresh, FALSE, Nothing)), Fresh, n)
    /\ Creates(n, f)

OpenNew(n, f) ==
    /\ AsFile(n, f) /\ n \notin DOMAIN names.overlay
    /\ ~HostFile(Created(n, f), n) /\ f.creat
    /\ Become(Promote(Created(n, f), n, Fresh), Installed(Handle(Fresh, f.writable, n)), Fresh, Empty)
    /\ Creates(n, f)

(***************************************************************************)
(* Other calls on names.                                                   *)
(***************************************************************************)
(* Fault: a name in the overlay is only removed from there.                  *)
UncoverHost(s, n) ==
    [overlay |-> Without(s.overlay, n), made |-> s.made \ {n},
     deleted |-> IF n \in DOMAIN s.overlay THEN s.deleted ELSE s.deleted \cup {n}]
Removed(s, n) ==
    [overlay |-> Without(s.overlay, n), made |-> s.made \ {n}, deleted |-> s.deleted \cup {n}]

Unlink(n) ==
    /\ n \in DOMAIN names.overlay \/ HostFile(names, n) \/ n \in names.made
    /\ Become(Removed(names, n), Moved(n, Nothing), 0, Empty)
    /\ gone' = gone \cup {n}

(* A host file is copied to the new name.  Fault: the old one keeps its.     *)
RenamedKeeping(s, old, new, b) ==
    [s EXCEPT !.overlay = With(@, new, b), !.deleted = @ \ {new}]
Renamed(s, old, new, b) ==
    [s EXCEPT !.overlay = With(Without(@, old), new, b), !.deleted = (@ \cup {old}) \ {new}]

Rename(old, new) ==
    /\ \/ /\ old \in DOMAIN names.overlay
          /\ LET b == names.overlay[old]
             IN  Become(Renamed(names, old, new, b), Moved(old, new), b, contents[b])
       \/ /\ old \notin DOMAIN names.overlay /\ HostFile(names, old)
          /\ Become(Renamed(names, old, new, Fresh), Moved(old, new), Fresh, old)
    /\ gone' = (gone \cup {old}) \ {new}

Mkdir(n) ==
    /\ ~Exists(names, n) /\ HasParent(names, n)
    /\ Become([names EXCEPT !.made = @ \cup {n}], open, 0, Empty)
    /\ UNCHANGED gone

(* The host's add_file: another file under the name.                         *)
AddFile(n, c) ==
    /\ Become(Promote(names, n, Fresh), Moved(n, Nothing), Fresh, c)
    /\ gone' = gone \ {n}

(* open(O_WRONLY), ftruncate and close.                                      *)
Truncate(n, c) ==
    /\ ~IsDir(names, n)
    /\ \/ n \in DOMAIN names.overlay /\ Become(names, open, names.overlay[n], c)
       \/ /\ n \notin DOMAIN names.overlay /\ HostFile(names, n)
          /\ Become(Promote(names, n, Fresh), open, Fresh, c)
    /\ UNCHANGED gone

(***************************************************************************)
(* Calls on descriptors: write, pwrite, ftruncate; close.                  *)
(***************************************************************************)
Write(fd, c) ==
    /\ fd \in DOMAIN open /\ open[fd].writable
    /\ Become(names, open, open[fd].buffer, c)
    /\ UNCHANGED gone

Close(fd) ==
    /\ fd \in DOMAIN open
    /\ Become(names, Without(open, fd), 0, Empty)
    /\ UNCHANGED gone

Next ==
    \/ \E n \in Name, f \in Flags :
          \/ OpenDirectory(n, f) \/ OpenOverlay(n, f) \/ OpenHostToWrite(n, f)
          \/ OpenHostToRead(n, f) \/ OpenNew(n, f)
    \/ \E n \in Name : Unlink(n) \/ Mkdir(n) \/ \E new \in Name : Rename(n, new)
    \/ \E n \in Name, c \in Data \cup {Empty} : AddFile(n, c) \/ Truncate(n, c)
    \/ \E fd \in Fd : Close(fd) \/ \E c \in Data \cup {Empty} : Write(fd, c)

Spec == Init /\ [][Next]_vars

-----------------------------------------------------------------------------
(* The handles of a file and its name share one buffer, from whatever it was *)
(* made (a host file, a new file, a rename), and no others do: a write is    *)
(* seen by everyone who opened the file since it is in the overlay, and one  *)
(* to a file without name by nobody who opens the name later.                *)
HandlesFollowNames ==
    \A fd \in DOMAIN open :
        /\ open[fd].at # Nothing => open[fd].at \in DOMAIN names.overlay
        /\ \A n \in DOMAIN names.overlay : names.overlay[n] = open[fd].buffer <=> open[fd].at = n

(* The contents a path has, as stat finds them.                              *)
Shown(n) ==
    IF n \in DOMAIN names.overlay THEN contents[names.overlay[n]]
    ELSE IF HostFile(names, n) /\ ~IsDir(names, n) THEN n ELSE Nothing

(* A file that was unlinked or renamed away stays gone until something makes *)
(* it again, though a host file may wait under its name, and whatever was    *)
(* copied, moved or put over that name meanwhile.                            *)
GoneStaysGone == \A n \in gone : Shown(n) = Nothing

Visible == [n \in Name |-> Shown(n)]

Abstract == INSTANCE AbstractNames WITH shown <- Visible

(* Every call changes what one name shows, or moves it: files are never      *)
(* mixed up, and writes reach no other name.                                 *)
ImplementsNames == Abstract!Spec
=============================================================================
