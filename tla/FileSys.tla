------------------------------ MODULE FileSys ------------------------------
(***************************************************************************)
(* xv6/sysfile.c with the inode, directory and path layers of xv6/fs.c and *)
(* the file table of xv6/file.c: what open, link, unlink, mkdir, mknod,    *)
(* chdir, dup, close, fork and exit do to the tree of names.               *)
(*                                                                         *)
(* A step is what a process does between taking one inode's sleep-lock and *)
(* taking the next, or one use of icache.lock or ftable.lock.  iput() is   *)
(* two steps, as in the code: it may free the inode under ip->lock, and    *)
(* gives its reference up afterwards.  The in-memory copy of an inode is   *)
(* written through by iupdate() before it is unlocked, so one copy is      *)
(* kept.  A directory is a function from names to inodes; contents of      *)
(* files, and the log that makes each call atomic, are modelled elsewhere. *)
(* The cache has an entry for every inode.                                 *)
(***************************************************************************)
EXTENDS Integers, Sequences, FiniteSets

CONSTANTS
  Proc, NoProc,
  NINODES,       \* sb.ninodes - 1: the inodes are 1..NINODES
  NFILE, NOFILE,
  Name,          \* directory entry names other than "." and ".."
  Paths,         \* the paths programs use: [abs |-> from "/", elem |-> names]
  Calls,         \* the system calls on paths that programs make
  MaxCalls       \* bound: how many they make

Inode   == 1..NINODES
ROOTINO == 1
None    == 0     \* no inode, no file
File    == 1..NFILE
FD      == 1..NOFILE
Entry   == Name \cup {".", ".."}

ASSUME FileSysAssumption ==
  /\ IsFiniteSet(Proc) /\ Proc # {} /\ NoProc \notin Proc
  /\ NINODES \in Nat \ {0} /\ NFILE \in Nat /\ NOFILE \in Nat
  /\ Paths \subseteq [abs : BOOLEAN, elem : Seq(Entry)]
  /\ Calls \subseteq {"open", "create", "mkdir", "mknod", "chdir", "link", "unlink"}
  /\ MaxCalls \in Nat

VARIABLES
  type, nlink, ents,  \* inodes on disk: type, link count, directory entries
  ref, lock,          \* inode cache: references and holder of the sleep-lock
  file, ofile, cwd,   \* ftable; open files and current directory of a process
  sys,                \* the system call a process is in
  puts, dropping,     \* inodes it is about to iput(); half way through iput()
  lost,               \* inodes named by a directory that was freed
  made                \* system calls on paths made so far

disk  == <<type, nlink, ents>>
cache == <<ref, lock>>
files == <<file, ofile, cwd>>
calls == <<sys, puts, dropping>>
hist  == <<lost, made>>
vars  == <<disk, cache, files, calls, hist>>

Idle == [pc |-> "user", op |-> "none", path |-> <<>>, cur |-> None, obj |-> None]
Dead == [Idle EXCEPT !.pc = "dead"]

(* The image of mkfs, and the first process.                               *)
Init ==
  /\ type = [i \in Inode |-> IF i = ROOTINO THEN "dir" ELSE "free"]
  /\ nlink = [i \in Inode |-> IF i = ROOTINO THEN 1 ELSE 0]
  /\ ents = [i \in Inode |-> [n \in Entry |->
               IF i = ROOTINO /\ n \in {".", ".."} THEN ROOTINO ELSE None]]
  /\ \E p \in Proc :
       /\ cwd = [q \in Proc |-> IF q = p THEN ROOTINO ELSE None]
       /\ sys = [q \in Proc |-> IF q = p THEN Idle ELSE Dead]
  /\ ref = [i \in Inode |-> IF i = ROOTINO THEN 1 ELSE 0]
  /\ lock = [i \in Inode |-> NoProc]
  /\ file = [f \in File |-> [ref |-> 0, ip |-> None]]
  /\ ofile = [p \in Proc |-> [d \in FD |-> None]]
  /\ puts = [p \in Proc |-> <<>>] /\ dropping = {}
  /\ lost = {} /\ made = 0

First(S) == CHOOSE x \in S : \A y \in S : x <= y

(* The inode whose lock process p needs for its next step, if any.         *)
Wants(p) ==
  IF puts[p] # <<>> THEN (IF p \in dropping THEN None ELSE Head(puts[p]))
  ELSE IF sys[p].pc = "at" \/ (sys[p].pc = "walk" /\ sys[p].path # <<>>) THEN sys[p].cur
  ELSE IF sys[p].pc \in {"got", "bad"} THEN sys[p].obj
  ELSE None

(* Process p is at location l of its call, with no iput() in progress.     *)
Is(p, l) == puts[p] = <<>> /\ sys[p].pc = l

(* The same, where the next thing is an ilock().  It panics if the inode   *)
(* is free: there is no step then, as wherever else the code panics.       *)
Locks(p, l) ==
  Is(p, l) /\ lock[Wants(p)] = NoProc /\ type[Wants(p)] # "free"

Goto(p, l) == sys' = [sys EXCEPT ![p].pc = l]

(* The call is over but for the iput()s of the inodes in s.                *)
Return(p, s) ==
  /\ sys' = [sys EXCEPT ![p] = Idle]
  /\ puts' = [puts EXCEPT ![p] = s]

Iunlock(i) == [lock EXCEPT ![i] = NoProc]

(* It fails; link() must first take its nlink++ back ("goto bad").         *)
Fail(p, s) ==
  /\ sys' = [sys EXCEPT ![p] =
               IF @.op = "link2" THEN [@ EXCEPT !.pc = "bad", !.cur = None] ELSE Idle]
  /\ puts' = [puts EXCEPT ![p] = s]

-----------------------------------------------------------------------------
(* iput().                                                                 *)

(* Mutant: other references do not keep the inode.                       *)
NoLinks(i) == nlink[i] = 0

(* No links and no other references: truncate and free.                    *)
Unused(i) == nlink[i] = 0 /\ ref[i] = 1

Iput(p) ==
  LET i == Head(puts[p]) IN
  /\ puts[p] # <<>> /\ p \notin dropping /\ lock[i] = NoProc
  /\ type' = [type EXCEPT ![i] = IF Unused(i) THEN "free" ELSE @]
  /\ ents' = [ents EXCEPT ![i] = IF Unused(i) THEN [n \in Entry |-> None] ELSE @]
  /\ lost' = IF Unused(i) THEN lost \cup ({ents[i][n] : n \in Name} \ {None}) ELSE lost
  /\ dropping' = dropping \cup {p}
  /\ UNCHANGED <<nlink, ref, lock, files, sys, puts, made>>

Drop(p) ==
  /\ p \in dropping
  /\ ref' = [ref EXCEPT ![Head(puts[p])] = @ - 1]
  /\ puts' = [puts EXCEPT ![p] = Tail(@)]
  /\ dropping' = dropping \ {p}
  /\ UNCHANGED <<disk, lock, files, sys, hist>>

-----------------------------------------------------------------------------
(* Paths: namei() and nameiparent().                                       *)

(* The calls that want the directory of the last path element.             *)
Nameiparent(p) == sys[p].op \in {"create", "mkdir", "mknod", "unlink", "link2"}

Start(p, path) == IF path.abs THEN ROOTINO ELSE cwd[p]

(* A system call starts: its path is looked up from "/" or from cwd.       *)
Call(p, op, path) ==
  /\ Is(p, "user") /\ made < MaxCalls
  /\ made' = made + 1
  /\ ref' = [ref EXCEPT ![Start(p, path)] = @ + 1]
  /\ sys' = [sys EXCEPT ![p] = [Idle EXCEPT !.pc = "walk", !.op = op,
                                            !.path = path.elem, !.cur = Start(p, path)]]
  /\ UNCHANGED <<disk, lock, files, puts, dropping, lost>>

(* No path element is left.                                                *)
WalkEnd(p) ==
  /\ Is(p, "walk") /\ sys[p].path = <<>>
  /\ IF Nameiparent(p) THEN Fail(p, <<sys[p].cur>>)
                       ELSE Goto(p, "at") /\ UNCHANGED puts
  /\ UNCHANGED <<disk, ref, lock, files, dropping, hist>>

(* The inode that directory d has under name n.                            *)
Dirlookup(d, n) == ents[d][n]

(* One turn of the loop of namex(): ilock(), dirlookup(), iunlockput().    *)
Walk(p) ==
  LET d == sys[p].cur
      e == Dirlookup(d, Head(sys[p].path)) IN
  /\ sys[p].path # <<>> /\ Locks(p, "walk")
  /\ IF type[d] = "dir" /\ Nameiparent(p) /\ Len(sys[p].path) = 1
     THEN Goto(p, "at") /\ UNCHANGED <<ref, puts>>
     ELSE IF type[d] # "dir" \/ e = None
     THEN Fail(p, <<d>>) /\ UNCHANGED ref
     ELSE /\ ref' = [ref EXCEPT ![e] = @ + 1]
          /\ sys' = [sys EXCEPT ![p].cur = e, ![p].path = Tail(@)]
          /\ puts' = [puts EXCEPT ![p] = <<d>>]
  /\ UNCHANGED <<disk, lock, files, dropping, hist>>

-----------------------------------------------------------------------------
(* open(): filealloc() and fdalloc(), or give the inode back.              *)
OpenFile(p, i) ==
  LET f == {g \in File : file[g].ref = 0}
      d == {e \in FD : ofile[p][e] = None} IN
  IF f # {} /\ d # {}
  THEN /\ file' = [file EXCEPT ![First(f)] = [ref |-> 1, ip |-> i]]
       /\ ofile' = [ofile EXCEPT ![p][First(d)] = First(f)]
       /\ Return(p, <<>>)
  ELSE Return(p, <<i>>) /\ UNCHANGED <<file, ofile>>

Open(p, rdonly) ==
  /\ Locks(p, "at") /\ sys[p].op = "open"
  /\ IF type[sys[p].cur] = "dir" /\ ~rdonly
     THEN Return(p, <<sys[p].cur>>) /\ UNCHANGED <<file, ofile>>
     ELSE OpenFile(p, sys[p].cur)
  /\ UNCHANGED <<disk, ref, lock, cwd, dropping, hist>>

Chdir(p) ==
  /\ Locks(p, "at") /\ sys[p].op = "chdir"
  /\ IF type[sys[p].cur] # "dir"
     THEN Return(p, <<sys[p].cur>>) /\ UNCHANGED cwd
     ELSE /\ cwd' = [cwd EXCEPT ![p] = sys[p].cur]
          /\ Return(p, <<cwd[p]>>)
  /\ UNCHANGED <<disk, ref, lock, file, ofile, dropping, hist>>

-----------------------------------------------------------------------------
(* create(), for open(O_CREATE), mkdir() and mknod().                      *)

(* The name exists: it will do for open() if it is a file.                 *)
CreateOld(p) ==
  LET d == sys[p].cur
      e == Dirlookup(d, Head(sys[p].path)) IN
  /\ Locks(p, "at") /\ sys[p].op \in {"create", "mkdir", "mknod"} /\ e # None
  /\ ref' = [ref EXCEPT ![e] = @ + 1]
  /\ sys' = [sys EXCEPT ![p].pc = "got", ![p].cur = None, ![p].obj = e]
  /\ puts' = [puts EXCEPT ![p] = <<d>>]
  /\ UNCHANGED <<disk, lock, files, dropping, hist>>

CreateFound(p) ==
  LET i == sys[p].obj IN
  /\ Locks(p, "got") /\ sys[p].op \in {"create", "mkdir", "mknod"}
  /\ IF sys[p].op = "create" /\ type[i] = "file"
     THEN Goto(p, "made") /\ lock' = [lock EXCEPT ![i] = p] /\ UNCHANGED puts
     ELSE Return(p, <<i>>) /\ UNCHANGED lock
  /\ UNCHANGED <<disk, ref, files, dropping, hist>>

NewType(op) == IF op = "mkdir" THEN "dir" ELSE IF op = "mknod" THEN "dev" ELSE "file"

(* ialloc() (a panic if no inode is free), the new inode's link count and  *)
(* dots, and its directory entry.                                          *)
CreateNew(p) ==
  LET d  == sys[p].cur
      n  == Head(sys[p].path)
      op == sys[p].op
      i  == First({j \in Inode : type[j] = "free"}) IN
  /\ Locks(p, "at") /\ op \in {"create", "mkdir", "mknod"} /\ Dirlookup(d, n) = None
  /\ \E j \in Inode : type[j] = "free"
  /\ type' = [type EXCEPT ![i] = NewType(op)]
  /\ nlink' = [nlink EXCEPT ![i] = 1, ![d] = IF op = "mkdir" THEN @ + 1 ELSE @]
  /\ ents' = [ents EXCEPT ![i] = [m \in Entry |-> IF op # "mkdir" THEN None
                                                  ELSE IF m = "." THEN i
                                                  ELSE IF m = ".." THEN d ELSE None],
                          ![d][n] = i]
  /\ ref' = [ref EXCEPT ![i] = @ + 1]
  /\ lock' = [lock EXCEPT ![i] = p]
  /\ sys' = [sys EXCEPT ![p].pc = "made", ![p].cur = None, ![p].obj = i]
  /\ puts' = [puts EXCEPT ![p] = <<d>>]
  /\ UNCHANGED <<files, dropping, hist>>

(* create() returned the inode, locked.                                    *)
Created(p) ==
  LET i == sys[p].obj IN
  /\ Is(p, "made")
  /\ lock' = Iunlock(i)
  /\ IF sys[p].op = "create" THEN OpenFile(p, i)
     ELSE Return(p, <<i>>) /\ UNCHANGED <<file, ofile>>
  /\ UNCHANGED <<disk, ref, cwd, dropping, hist>>

-----------------------------------------------------------------------------
(* link(): count the new link first, then look up where it is to go.       *)
Link(p, new) ==
  LET i == sys[p].cur IN
  /\ Locks(p, "at") /\ sys[p].op = "link"
  /\ IF type[i] = "dir"
     THEN Return(p, <<i>>) /\ UNCHANGED <<nlink, ref>>
     ELSE /\ nlink' = [nlink EXCEPT ![i] = @ + 1]
          /\ ref' = [ref EXCEPT ![Start(p, new)] = @ + 1]
          /\ sys' = [sys EXCEPT ![p] = [@ EXCEPT !.pc = "walk", !.op = "link2", !.obj = i,
                                                 !.path = new.elem, !.cur = Start(p, new)]]
          /\ UNCHANGED puts
  /\ UNCHANGED <<type, ents, lock, files, dropping, hist>>

(* dirlink(): if the name exists, its inode is put with dp still locked.   *)
Dirlink(p) ==
  LET d == sys[p].cur
      n == Head(sys[p].path)
      e == Dirlookup(d, n) IN
  /\ Locks(p, "at") /\ sys[p].op = "link2"
  /\ IF e # None
     THEN /\ ref' = [ref EXCEPT ![e] = @ + 1]
          /\ lock' = [lock EXCEPT ![d] = p]
          /\ Goto(p, "undo")
          /\ puts' = [puts EXCEPT ![p] = <<e>>]
          /\ UNCHANGED ents
     ELSE /\ ents' = [ents EXCEPT ![d][n] = sys[p].obj]
          /\ Return(p, <<d, sys[p].obj>>)
          /\ UNCHANGED <<ref, lock>>
  /\ UNCHANGED <<type, nlink, files, dropping, hist>>

(* "goto bad", with dp locked.                                             *)
Undo(p) ==
  /\ Is(p, "undo")
  /\ lock' = Iunlock(sys[p].cur)
  /\ Fail(p, <<sys[p].cur>>)
  /\ UNCHANGED <<disk, ref, files, dropping, hist>>

(* Mutant: a failed link() leaves its count.                             *)
KeepCount(i) == nlink

Uncount(i) == [nlink EXCEPT ![i] = @ - 1]

LinkBad(p) ==
  /\ Locks(p, "bad")
  /\ nlink' = Uncount(sys[p].obj)
  /\ Return(p, <<sys[p].obj>>)
  /\ UNCHANGED <<type, ents, ref, lock, files, dropping, hist>>

-----------------------------------------------------------------------------
(* unlink(): the directory stays locked while its entry is locked.         *)
Unlink(p) ==
  LET d == sys[p].cur
      n == Head(sys[p].path)
      e == Dirlookup(d, n) IN
  /\ Locks(p, "at") /\ sys[p].op = "unlink"
  /\ IF n \in {".", ".."} \/ e = None
     THEN Return(p, <<d>>) /\ UNCHANGED <<ref, lock>>
     ELSE /\ lock' = [lock EXCEPT ![d] = p]
          /\ ref' = [ref EXCEPT ![e] = @ + 1]
          /\ sys' = [sys EXCEPT ![p].pc = "got", ![p].obj = e]
          /\ UNCHANGED puts
  /\ UNCHANGED <<disk, files, dropping, hist>>

Isdirempty(i) == \A n \in Name : ents[i][n] = None

UnlinkFound(p) ==
  LET d == sys[p].cur
      i == sys[p].obj IN
  /\ Locks(p, "got") /\ sys[p].op = "unlink" /\ nlink[i] >= 1
  /\ IF type[i] = "dir" /\ ~Isdirempty(i)
     THEN /\ sys' = [sys EXCEPT ![p].pc = "undo", ![p].obj = None]
          /\ puts' = [puts EXCEPT ![p] = <<i>>]
          /\ UNCHANGED <<nlink, ents, lock>>
     ELSE /\ ents' = [ents EXCEPT ![d][Head(sys[p].path)] = None]
          /\ nlink' = [nlink EXCEPT ![d] = IF type[i] = "dir" THEN @ - 1 ELSE @]
          /\ lock' = [lock EXCEPT ![d] = NoProc, ![i] = p]
          /\ sys' = [sys EXCEPT ![p].pc = "gone", ![p].cur = None]
          /\ puts' = [puts EXCEPT ![p] = <<d>>]
  /\ UNCHANGED <<type, ref, files, dropping, hist>>

Unlinked(p) ==
  LET i == sys[p].obj IN
  /\ Is(p, "gone")
  /\ nlink' = [nlink EXCEPT ![i] = @ - 1]
  /\ lock' = Iunlock(i)
  /\ Return(p, <<i>>)
  /\ UNCHANGED <<type, ents, ref, files, dropping, hist>>

-----------------------------------------------------------------------------
(* The file table: dup(), close(), and what fork() and exit() do to it.    *)

Filedup(f) == [file EXCEPT ![f].ref = @ + 1]

Dup(p, d) ==
  LET free == {e \in FD : ofile[p][e] = None} IN
  /\ Is(p, "user") /\ ofile[p][d] # None /\ free # {}
  /\ ofile' = [ofile EXCEPT ![p][First(free)] = ofile[p][d]]
  /\ file' = Filedup(ofile[p][d])
  /\ UNCHANGED <<disk, ref, lock, cwd, calls, hist>>

(* Mutant: every close() gives the inode back.                           *)
AnyClose(f) == TRUE

LastClose(f) == file[f].ref = 1

(* fileclose(): the last one puts the inode.  exit() goes through ofile[]  *)
(* in order.                                                               *)
Close(p, d) ==
  LET f == ofile[p][d] IN
  /\ \/ Is(p, "user")
     \/ Is(p, "exit") /\ \A e \in 1..(d - 1) : ofile[p][e] = None
  /\ f # None
  /\ ofile' = [ofile EXCEPT ![p][d] = None]
  /\ file' = [file EXCEPT ![f].ref = @ - 1]
  /\ puts' = [puts EXCEPT ![p] = IF LastClose(f) THEN <<file[f].ip>> ELSE <<>>]
  /\ UNCHANGED <<disk, ref, lock, cwd, sys, dropping, hist>>

Fork(p, q) ==
  /\ Is(p, "user") /\ Is(q, "dead")
  /\ ofile' = [ofile EXCEPT ![q] = ofile[p]]
  /\ file' = [f \in File |-> [file[f] EXCEPT !.ref = @ + Cardinality({d \in FD : ofile[p][d] = f})]]
  /\ cwd' = [cwd EXCEPT ![q] = cwd[p]]
  /\ ref' = [ref EXCEPT ![cwd[p]] = @ + 1]
  /\ sys' = [sys EXCEPT ![q] = Idle]
  /\ UNCHANGED <<disk, lock, puts, dropping, hist>>

(* exit() closes every file, then puts cwd.  One process, init, stays.     *)
Exit(p) ==
  /\ Is(p, "user") /\ \E q \in Proc \ {p} : sys[q].pc \notin {"dead", "exit"}
  /\ Goto(p, "exit")
  /\ UNCHANGED <<disk, ref, lock, files, puts, dropping, hist>>

ExitCwd(p) ==
  /\ Is(p, "exit") /\ \A d \in FD : ofile[p][d] = None
  /\ cwd' = [cwd EXCEPT ![p] = None]
  /\ sys' = [sys EXCEPT ![p] = Dead]
  /\ puts' = [puts EXCEPT ![p] = <<cwd[p]>>]
  /\ UNCHANGED <<disk, ref, lock, file, ofile, dropping, hist>>

Next ==
  \E p \in Proc :
    \/ Iput(p) \/ Drop(p)
    \/ \E op \in Calls, path \in Paths : Call(p, op, path)
    \/ WalkEnd(p) \/ Walk(p)
    \/ \E rdonly \in BOOLEAN : Open(p, rdonly)
    \/ Chdir(p)
    \/ CreateOld(p) \/ CreateFound(p) \/ CreateNew(p) \/ Created(p)
    \/ \E new \in Paths : Link(p, new)
    \/ Dirlink(p) \/ Undo(p) \/ LinkBad(p)
    \/ Unlink(p) \/ UnlinkFound(p) \/ Unlinked(p)
    \/ \E d \in FD : Dup(p, d) \/ Close(p, d)
    \/ \E q \in Proc : Fork(p, q)
    \/ Exit(p) \/ ExitCwd(p)

Spec == Init /\ [][Next]_vars

-----------------------------------------------------------------------------
(* Properties.                                                             *)

(* ip->ref "tracks the number of in-memory pointers to the entry", open    *)
(* files, current directories and local variables of system calls, and a   *)
(* file's ref the descriptors that share it.                               *)
Pointers(i) ==
  Cardinality({p \in Proc : cwd[p] = i}) + Cardinality({f \in File : file[f].ref > 0 /\ file[f].ip = i})
  + Cardinality({p \in Proc : sys[p].cur = i}) + Cardinality({p \in Proc : sys[p].obj = i})
  + Cardinality({x \in Proc \X (1..2) : x[2] <= Len(puts[x[1]]) /\ puts[x[1]][x[2]] = i})

RefCounts ==
  /\ \A i \in Inode : ref[i] = Pointers(i)
  /\ \A f \in File : file[f].ref = Cardinality({x \in Proc \X FD : ofile[x[1]][x[2]] = f})

(* nlink is the "number of links to inode in file system": the directory   *)
(* entries that name it and the ".." of its subdirectories, but for the    *)
(* link a link() or unlink() is working on, and for inodes that were       *)
(* linked into a directory after its removal and lost with it.             *)
Links(i) == Cardinality({x \in Inode \X Name : ents[x[1]][x[2]] = i})

Subdirs(i) == Cardinality({d \in Inode \ {i} : ents[d][".."] = i /\ Links(d) > 0})

InFlight(i) == Cardinality({p \in Proc : sys[p].obj = i /\ (sys[p].op = "link2" \/ sys[p].pc = "gone")})

LinkCount ==
  \A i \in Inode \ lost :
    nlink[i] = Links(i) + Subdirs(i) + InFlight(i) + (IF i = ROOTINO THEN 1 ELSE 0)

(* No inode is freed while somebody can still get at it: neither the panic *)
(* of ilock(), "no type", nor that of unlink(), "nlink < 1", is reached.   *)
NoPanic ==
  \A p \in Proc :
    /\ puts[p] = <<>> /\ Wants(p) # None => type[Wants(p)] # "free"
    /\ sys[p].op = "unlink" /\ sys[p].pc = "got" => nlink[sys[p].obj] >= 1


(* "iput() frees if the reference and link counts have fallen to zero."    *)
FreedWhenUnused == \A i \in Inode : nlink[i] = 0 /\ ref[i] = 0 => type[i] = "free"
=============================================================================
