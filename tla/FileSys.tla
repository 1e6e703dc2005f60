------------------------------ MODULE FileSys ------------------------------
(***************************************************************************)
(* Names, link counts, the inode table and open files: the upper half of   *)
(* kernel/fs.c with the system calls of kernel/sysfile.c and the file      *)
(* table of kernel/file.c.                                                 *)
(*                                                                         *)
(* A step is what a call does while it holds the locks of the inodes it    *)
(* looks at, or one critical section of itable.lock.  disk is the content  *)
(* of the inode and directory blocks as the calls see it through the log,  *)
(* saved the content a crash goes back to: the log (Log.tla) makes the     *)
(* writes of overlapping calls durable together, when the last one ends.   *)
(* Whether there is a free block for a directory entry is left open here;  *)
(* FileData.tla has the blocks, the data and the sizes.                    *)
(***************************************************************************)
EXTENDS Integers, Sequences, FiniteSets

CONSTANTS Procs, NoProc,
          Names,     \* names of directory entries, besides "." and ".."
          NINODES,   \* inodes on disk; 1 is the root directory
          NFILE,     \* entries of the file table
          NOFILE,    \* descriptors of a process
          Calls,     \* the calls with a path that processes make
          LogCalls,  \* the calls whose writes fit into the log together
          MaxCrash,  \* bound on the number of crashes
          MaxLink    \* link() is called while no file has more links

ASSUME FileSysAssumption ==
  /\ NoProc \notin Procs /\ IsFiniteSet(Procs)
  /\ IsFiniteSet(Names) /\ Names \cap {".", ".."} = {}
  /\ NINODES \in Nat \ {0} /\ NFILE \in Nat /\ NOFILE \in Nat
  /\ LogCalls \in Nat \ {0}
  /\ MaxCrash \in Nat /\ MaxLink \in Nat

VARIABLES disk,     \* the inodes and directories, as the calls see them
          saved,    \* what of it has been committed
          inode,    \* itable: the entry in memory of each inode
          lock,     \* the holder of its sleep lock
          file,     \* ftable
          ofile,    \* the descriptors of each process
          cwd,      \* its current directory
          pr,       \* where each process is in its call
          open,     \* log.outstanding
          group,    \* how many calls the open transaction has taken in
          booting,  \* ireclaim() has not finished
          crashes   \* history: how often the machine crashed

vars == <<disk, saved, inode, lock, file, ofile, cwd, pr, open, group,
          booting, crashes>>
files == <<file, ofile, cwd>>
world == <<saved, open, group, booting, crashes>>

Inums == 1 .. NINODES
Files == 1 .. NFILE
Fds == 1 .. NOFILE
ROOTINO == 1

Unused == [ref |-> 0, valid |-> FALSE, type |-> "free", nlink |-> 0]
Closed == [ref |-> 0, ip |-> 0]
Idle == [pc |-> "idle", op |-> "none", new |-> <<>>, at |-> 0, rest |-> <<>>,
         ip |-> 0, todo |-> <<>>, fr |-> "no"]

\* The directory that holds nothing but "." and "..".
Empty == [n \in Names |-> 0]

\* The image mkfs writes: a root directory with one file per name in F.
MkfsImage(F) ==
  LET files0 == CHOOSE s \in [1 .. Cardinality(F) -> F] :
                  \A i, j \in DOMAIN s : s[i] = s[j] => i = j
      num(n) == IF n \in F THEN 1 + CHOOSE k \in DOMAIN files0 : files0[k] = n
                ELSE 0
  IN  [type |-> [i \in Inums |-> IF i = ROOTINO THEN "dir"
                                 ELSE IF i <= 1 + Cardinality(F) THEN "file"
                                 ELSE "free"],
       nlink |-> [i \in Inums |-> IF i <= 1 + Cardinality(F) THEN 1 ELSE 0],
       dir |-> [i \in Inums |-> IF i = ROOTINO THEN [n \in Names |-> num(n)]
                                ELSE Empty],
       up |-> [i \in Inums |-> IF i = ROOTINO THEN ROOTINO ELSE 0]]

\* Memory after a start: every process in the root directory, no open file.
Boot ==
  [inode |-> [i \in Inums |-> IF i = ROOTINO
                THEN [Unused EXCEPT !.ref = Cardinality(Procs)] ELSE Unused],
   lock |-> [i \in Inums |-> NoProc],
   file |-> [f \in Files |-> Closed],
   ofile |-> [p \in Procs |-> [d \in Fds |-> 0]],
   cwd |-> [p \in Procs |-> ROOTINO],
   pr |-> [p \in Procs |-> Idle]]

Init ==
  /\ \E F \in SUBSET Names : Cardinality(F) < NINODES /\ disk = MkfsImage(F)
  /\ saved = disk
  /\ inode = Boot.inode /\ lock = Boot.lock
  /\ file = Boot.file /\ ofile = Boot.ofile /\ cwd = Boot.cwd
  /\ pr = Boot.pr
  /\ open = 0 /\ group = 0 /\ booting = TRUE
  /\ crashes = 0
-----------------------------------------------------------------------------
At(p, pc) == ~booting /\ pr[p].pc = pc /\ pr[p].todo = <<>>

\* Process p goes on as r.
Go(p, r) == pr' = [pr EXCEPT ![p] = r]

\* The call is over but for iput() of the inodes of todo, and end_op().
Finish(p, todo) == Go(p, [Idle EXCEPT !.pc = "end", !.todo = todo])

Panic(p) == Go(p, [pr[p] EXCEPT !.pc = "panic", !.todo = <<>>])

\* iget(): a reference to inode i; idup() is the case of an entry in use.
Iget(t, i) ==
  IF t[i].ref > 0 THEN [t EXCEPT ![i].ref = @ + 1]
                  ELSE [t EXCEPT ![i] = [Unused EXCEPT !.ref = 1]]

\* ref--; an entry without references is free for any inode, and iget()
\* clears valid when it takes it.
Drop(t, i) ==
  IF t[i].ref = 1 THEN [t EXCEPT ![i] = Unused]
                  ELSE [t EXCEPT ![i].ref = @ - 1]

\* The inode table once ilock() has read inode i from disk, if need be.
Ilock(t, d, i) ==
  IF t[i].valid THEN t
  ELSE [t EXCEPT ![i].valid = TRUE, ![i].type = d.type[i],
                 ![i].nlink = d.nlink[i]]

\* ilock() has to wait while somebody else holds the lock, and panics when
\* the inode is free.
CanLock(i) == lock[i] = NoProc
HasType(i) == Ilock(inode, disk, i)[i].type # "free"

\* ip->nlink = n and iupdate(), in the table and on disk.
TableLink(t, i, n) == [t EXCEPT ![i].nlink = n]
DiskLink(d, i, n) == [d EXCEPT !.nlink[i] = n]

\* dirlookup(), 0 when the name is not there.
Dirlookup(d, i, n) ==
  IF n = "." THEN i ELSE IF n = ".." THEN d.up[i] ELSE d.dir[i][n]

\* dirlink() of a name that is not there.
Dirlink(d, i, n, ip) == [d EXCEPT !.dir[i][n] = ip]

\* isdirempty()
IsDirEmpty(d, i) == d.dir[i] = Empty

\* ialloc() takes the first free inode on disk.
FreeInodes == {i \in Inums : disk.type[i] = "free"}
FirstOf(S) == CHOOSE i \in S : \A j \in S : i <= j
-----------------------------------------------------------------------------
\* iput(), the first critical section: drop a reference, or lock the inode
\* because it is the last one and the inode has no links.
Iput(p) ==
  /\ pr[p].todo # <<>> /\ pr[p].fr = "no"
  /\ LET i == Head(pr[p].todo) IN
     IF inode[i].ref = 1 /\ inode[i].valid /\ inode[i].nlink = 0
       THEN /\ CanLock(i)
            /\ lock' = [lock EXCEPT ![i] = p]
            /\ Go(p, [pr[p] EXCEPT !.fr = "trunc"])
            /\ UNCHANGED inode
       ELSE /\ inode' = Drop(inode, i)
            /\ Go(p, [pr[p] EXCEPT !.todo = Tail(pr[p].todo)])
            /\ UNCHANGED lock
  /\ UNCHANGED <<disk, files, world>>

\* itrunc() and valid = 0: the content of the inode is gone.
IputTrunc(p) ==
  /\ pr[p].fr = "trunc"
  /\ LET i == Head(pr[p].todo) IN
       /\ disk' = [disk EXCEPT !.dir[i] = Empty, !.up[i] = 0]
       /\ inode' = [inode EXCEPT ![i].valid = FALSE]
       /\ lock' = [lock EXCEPT ![i] = NoProc]
  /\ Go(p, [pr[p] EXCEPT !.fr = "drop"])
  /\ UNCHANGED <<files, world>>

\* The second critical section of iput(): ref--.
IputDrop(p) ==
  /\ pr[p].fr = "drop"
  /\ inode' = Drop(inode, Head(pr[p].todo))
  /\ Go(p, [pr[p] EXCEPT !.fr = "free"])
  /\ UNCHANGED <<disk, lock, files, world>>

\* ifree(): only now may ialloc() find the inode.
Ifree(p) ==
  /\ pr[p].fr = "free"
  /\ disk' = [disk EXCEPT !.type[Head(pr[p].todo)] = "free"]
  /\ Go(p, [pr[p] EXCEPT !.fr = "no", !.todo = Tail(pr[p].todo)])
  /\ UNCHANGED <<inode, lock, files, world>>

\* begin_op() lets a call in while the log has room for it.
BeginOp == group < LogCalls /\ open' = open + 1 /\ group' = group + 1

\* end_op(): the last call to end commits for all of them.
EndOp(p) ==
  /\ At(p, "end")
  /\ open' = open - 1
  /\ IF open = 1 THEN saved' = disk /\ group' = 0
                 ELSE UNCHANGED <<saved, group>>
  /\ pr' = [pr EXCEPT ![p] = Idle]
  /\ UNCHANGED <<disk, inode, lock, files, booting, crashes>>
-----------------------------------------------------------------------------
\* Where namex() starts: the root for a path that begins with "/".
Start(p, path) == IF Head(path) = "/" THEN ROOTINO ELSE cwd[p]
Elements(path) == IF Head(path) = "/" THEN Tail(path) ELSE path

\* Paths are not empty; "/" is only at the beginning of one.
Elems == Names \cup {".", ".."}
IsPath(s) ==
  s \in Seq(Elems \cup {"/"}) /\ s # <<>> /\ Elements(s) \in Seq(Elems)
Ops == {"open", "chdir", "create", "mkdir", "unlink", "link"}

ASSUME CallsAssumption ==
  \A c \in Calls : /\ c.op \in Ops /\ IsPath(c.path)
                    /\ IF c.op = "link" THEN IsPath(c.new) ELSE c.new = <<>>

\* A call with a path begins: begin_op() and the start of namex().
Begin(p, c) ==
  /\ At(p, "idle")
  /\ c.op = "link" => \A i \in Inums : disk.type[i] = "file"
                                       => disk.nlink[i] < MaxLink
  /\ BeginOp
  /\ inode' = Iget(inode, Start(p, c.path))
  /\ Go(p, [pr[p] EXCEPT !.pc = "namex", !.op = c.op, !.new = c.new,
                         !.at = Start(p, c.path), !.rest = Elements(c.path)])
  /\ UNCHANGED <<disk, lock, files, saved, booting, crashes>>

\* nameiparent() for these calls, and for the new name of link().
Linking(p) == pr[p].op = "link" /\ pr[p].ip # 0
Parent(p) == pr[p].op \in {"create", "mkdir", "unlink"} \/ Linking(p)
Found(p) == IF Linking(p) THEN "dirlink" ELSE pr[p].op
Fail(p, todo) ==
  IF Linking(p) THEN Go(p, [Idle EXCEPT !.pc = "bad", !.ip = pr[p].ip,
                                        !.todo = todo])
                ELSE Finish(p, todo)

\* namex() at the end of the path.
NamexEnd(p) ==
  /\ At(p, "namex") /\ pr[p].rest = <<>>
  /\ IF Parent(p) THEN Fail(p, <<pr[p].at>>)
                  ELSE Go(p, [pr[p] EXCEPT !.pc = Found(p)])
  /\ UNCHANGED <<disk, inode, lock, files, world>>

\* One element of the path, under the lock of the directory; the reference
\* to the directory is dropped after that of the next one is taken.
NamexElement(p) ==
  LET i == pr[p].at
      t == Ilock(inode, disk, i)
      rest == pr[p].rest
      next == Dirlookup(disk, i, Head(rest))
  IN
  /\ At(p, "namex") /\ rest # <<>>
  /\ CanLock(i)
  /\ IF ~HasType(i) THEN Panic(p) /\ UNCHANGED inode
     ELSE IF t[i].type # "dir" \/ t[i].nlink = 0
       THEN inode' = t /\ Fail(p, <<i>>)
     ELSE IF Parent(p) /\ Len(rest) = 1
       THEN inode' = t /\ Go(p, [pr[p] EXCEPT !.pc = Found(p)])
     ELSE IF next = 0
       THEN inode' = t /\ Fail(p, <<i>>)
     ELSE /\ inode' = Iget(t, next)
          /\ Go(p, [pr[p] EXCEPT !.at = next, !.rest = Tail(rest),
                                 !.todo = <<i>>])
  /\ UNCHANGED <<disk, lock, files, world>>
-----------------------------------------------------------------------------
\* sys_open() without O_CREATE: lock the inode.
OpenLock(p) ==
  /\ At(p, "open") /\ CanLock(pr[p].at)
  /\ IF ~HasType(pr[p].at)
       THEN Panic(p) /\ UNCHANGED <<inode, lock>>
       ELSE /\ inode' = Ilock(inode, disk, pr[p].at)
            /\ lock' = [lock EXCEPT ![pr[p].at] = p]
            /\ Go(p, [Idle EXCEPT !.pc = "filealloc", !.at = pr[p].at])
  /\ UNCHANGED <<disk, files, world>>

\* argfd(), filealloc() and fdalloc().
IsOpen(p, fd) == ofile[p][fd] # 0
FreeFiles == {f \in Files : file[f].ref = 0}
FreeFds(p) == {d \in Fds : ~IsOpen(p, d)}

\* The end of sys_open(): filealloc() and fdalloc(); one that fails leaves
\* nothing behind.
OpenFile(p) ==
  LET F == FreeFiles
      D == FreeFds(p)
      i == pr[p].at
  IN
  /\ At(p, "filealloc")
  /\ IF F = {} \/ D = {}
       THEN Finish(p, <<i>>) /\ UNCHANGED files
       ELSE /\ file' = [file EXCEPT ![FirstOf(F)] = [ref |-> 1, ip |-> i]]
            /\ ofile' = [ofile EXCEPT ![p][FirstOf(D)] = FirstOf(F)]
            /\ Finish(p, <<>>)
            /\ UNCHANGED cwd
  /\ lock' = [lock EXCEPT ![i] = NoProc]
  /\ UNCHANGED <<disk, inode, world>>

Filedup(f) == [file EXCEPT ![f].ref = @ + 1]

\* sys_dup()
Dup(p, fd) ==
  /\ At(p, "idle") /\ IsOpen(p, fd) /\ FreeFds(p) # {}
  /\ ofile' = [ofile EXCEPT ![p][FirstOf(FreeFds(p))] = ofile[p][fd]]
  /\ file' = Filedup(ofile[p][fd])
  /\ UNCHANGED <<disk, inode, lock, cwd, pr, world>>

\* sys_close() and fileclose(), up to the end of the critical section of
\* ftable.lock.
Close(p, fd) ==
  LET f == ofile[p][fd] IN
  /\ At(p, "idle") /\ IsOpen(p, fd)
  /\ ofile' = [ofile EXCEPT ![p][fd] = 0]
  /\ IF file[f].ref > 1
       THEN file' = [file EXCEPT ![f].ref = @ - 1] /\ UNCHANGED pr
       ELSE /\ file' = [file EXCEPT ![f] = Closed]
            /\ Go(p, [pr[p] EXCEPT !.pc = "fileclose", !.at = file[f].ip])
  /\ UNCHANGED <<disk, inode, lock, cwd, world>>

\* The last reference to a file puts the inode, in a transaction.
ClosePut(p) ==
  /\ At(p, "fileclose")
  /\ BeginOp
  /\ Finish(p, <<pr[p].at>>)
  /\ UNCHANGED <<disk, inode, lock, files, saved, booting, crashes>>

\* sys_chdir(): the new directory, and iput() of the old one.
Chdir(p) ==
  LET i == pr[p].at
      t == Ilock(inode, disk, i)
  IN
  /\ At(p, "chdir") /\ CanLock(i)
  /\ IF ~HasType(i) THEN Panic(p) /\ UNCHANGED <<inode, cwd>>
     ELSE /\ inode' = t
          /\ IF t[i].type # "dir"
               THEN Finish(p, <<i>>) /\ UNCHANGED cwd
               ELSE /\ Finish(p, <<cwd[p]>>)
                    /\ cwd' = [cwd EXCEPT ![p] = i]
  /\ UNCHANGED <<disk, lock, file, ofile, world>>
-----------------------------------------------------------------------------
Type(p) == IF pr[p].op = "mkdir" THEN "dir" ELSE "file"

\* create() of a name that exists already, or in a directory that is gone.
CreateExisting(p) ==
  LET dp == pr[p].at
      t == Ilock(inode, disk, dp)
      ip == Dirlookup(disk, dp, Head(pr[p].rest))
  IN
  /\ pr[p].op \in {"create", "mkdir"} /\ At(p, pr[p].op)
  /\ CanLock(dp) /\ HasType(dp)
  /\ \/ /\ t[dp].nlink = 0
        /\ inode' = t
        /\ Finish(p, <<dp>>)
     \/ /\ t[dp].nlink # 0 /\ ip # 0
        /\ inode' = Iget(t, ip)
        /\ Go(p, [pr[p] EXCEPT !.pc = "exists", !.at = ip, !.rest = <<>>,
                               !.todo = <<dp>>])
  /\ UNCHANGED <<disk, lock, files, world>>

\* What create() does with an inode it has found.
CreateFound(p) ==
  LET i == pr[p].at
      t == Ilock(inode, disk, i)
  IN
  /\ At(p, "exists") /\ CanLock(i)
  /\ IF ~HasType(i) THEN Panic(p) /\ UNCHANGED <<inode, lock>>
     ELSE /\ inode' = t
          /\ IF Type(p) = "file" /\ t[i].type = "file"
               THEN /\ lock' = [lock EXCEPT ![i] = p]
                    /\ Go(p, [Idle EXCEPT !.pc = "filealloc", !.at = i])
               ELSE /\ Finish(p, <<i>>)
                    /\ UNCHANGED lock
  /\ UNCHANGED <<disk, files, world>>

\* create() of a new inode.  full says that there is no block for one of the
\* directory entries; then the new inode is freed again by iput().  Nobody
\* can reach it before its entry is written, so that all of it is one step.
CreateNew(p, full) ==
  LET dp == pr[p].at
      name == Head(pr[p].rest)
      t == Ilock(inode, disk, dp)
      ip == FirstOf(FreeInodes)
      links == IF full THEN 0 ELSE 1
      more == IF Type(p) = "dir" /\ ~full THEN 1 ELSE 0
      d1 == [disk EXCEPT !.type[ip] = Type(p), !.nlink[ip] = links,
                         !.dir[ip] = Empty,
                         !.up[ip] = IF Type(p) = "dir" THEN dp ELSE 0]
      d2 == [Dirlink(d1, dp, name, ip) EXCEPT !.nlink[dp] = @ + more]
  IN
  /\ pr[p].op \in {"create", "mkdir"} /\ At(p, pr[p].op)
  /\ CanLock(dp) /\ HasType(dp) /\ t[dp].nlink # 0
  /\ Dirlookup(disk, dp, name) = 0
  /\ IF FreeInodes = {}
       THEN inode' = t /\ UNCHANGED <<disk, lock>>
            /\ Finish(p, <<dp>>)
       ELSE
       /\ disk' = IF full THEN d1 ELSE d2
       /\ inode' = Ilock(Iget(TableLink(t, dp, t[dp].nlink + more), ip),
                         d1, ip)
       /\ IF ~full /\ Type(p) = "file"
            THEN /\ lock' = [lock EXCEPT ![ip] = p]
                 /\ Go(p, [Idle EXCEPT !.pc = "filealloc", !.at = ip,
                                  !.todo = <<dp>>])
            ELSE /\ UNCHANGED lock
                 /\ Finish(p, IF full THEN <<ip, dp>> ELSE <<dp, ip>>)
  /\ UNCHANGED <<files, world>>
-----------------------------------------------------------------------------
\* sys_unlink(): lock the directory and find the entry in it.
UnlinkParent(p) ==
  LET dp == pr[p].at
      t == Ilock(inode, disk, dp)
      name == Head(pr[p].rest)
      ip == Dirlookup(disk, dp, name)
  IN
  /\ At(p, "unlink") /\ CanLock(dp) /\ HasType(dp)
  /\ IF name \in {".", ".."} \/ ip = 0
       THEN /\ inode' = t
            /\ Finish(p, <<dp>>)
            /\ UNCHANGED lock
       ELSE /\ inode' = Iget(t, ip)
            /\ lock' = [lock EXCEPT ![dp] = p]
            /\ Go(p, [pr[p] EXCEPT !.pc = "unlink2", !.ip = ip])
  /\ UNCHANGED <<disk, files, world>>

\* Then lock what it names, erase the entry and take the links away.
UnlinkChild(p) ==
  LET dp == pr[p].at
      ip == pr[p].ip
      t == Ilock(inode, disk, ip)
      less == IF t[ip].type = "dir" THEN 1 ELSE 0
      d1 == [disk EXCEPT !.dir[dp][Head(pr[p].rest)] = 0,
                         !.nlink[dp] = @ - less, !.nlink[ip] = @ - 1]
  IN
  /\ At(p, "unlink2") /\ CanLock(ip)
  /\ IF ~HasType(ip) \/ t[ip].nlink < 1
       THEN Panic(p) /\ UNCHANGED <<disk, inode, lock>>
     ELSE
       /\ lock' = [lock EXCEPT ![dp] = NoProc]
       /\ IF t[ip].type = "dir" /\ ~IsDirEmpty(disk, ip)
            THEN /\ inode' = t
                 /\ Finish(p, <<ip, dp>>)
                 /\ UNCHANGED disk
            ELSE /\ disk' = d1
                 /\ inode' = TableLink(TableLink(t, dp, t[dp].nlink - less),
                                       ip, t[ip].nlink - 1)
                 /\ Finish(p, <<dp, ip>>)
  /\ UNCHANGED <<files, world>>
-----------------------------------------------------------------------------
\* Wrong on purpose: sys_link() without iupdate().
LinkOldNoUpdate(p) ==
  LET i == pr[p].at
      t == Ilock(inode, disk, i)
      new == pr[p].new
  IN
  /\ At(p, "link") /\ CanLock(i) /\ t[i].type # "dir"
  /\ inode' = Iget(TableLink(t, i, t[i].nlink + 1), Start(p, new))
  /\ Go(p, [pr[p] EXCEPT !.pc = "namex", !.new = <<>>, !.ip = i,
                         !.at = Start(p, new), !.rest = Elements(new)])
  /\ UNCHANGED <<disk, lock, files, world>>

\* sys_link(): count the new link first, then look for its directory.
LinkOld(p) ==
  LET i == pr[p].at
      t == Ilock(inode, disk, i)
      new == pr[p].new
  IN
  /\ At(p, "link") /\ CanLock(i)
  /\ IF ~HasType(i) THEN Panic(p) /\ UNCHANGED <<inode, disk>>
     ELSE IF t[i].type = "dir"
       THEN /\ inode' = t
            /\ Finish(p, <<i>>)
            /\ UNCHANGED disk
       ELSE /\ disk' = DiskLink(disk, i, t[i].nlink + 1)
            /\ inode' = Iget(TableLink(t, i, t[i].nlink + 1), Start(p, new))
            /\ Go(p, [pr[p] EXCEPT !.pc = "namex", !.new = <<>>, !.ip = i,
                                   !.at = Start(p, new),
                                   !.rest = Elements(new)])
  /\ UNCHANGED <<lock, files, world>>

\* dirlink(): fails if the name exists or there is no block for the entry.
LinkNew(p, full) ==
  LET dp == pr[p].at
      name == Head(pr[p].rest)
      t == Ilock(inode, disk, dp)
  IN
  /\ At(p, "dirlink") /\ CanLock(dp)
  /\ IF ~HasType(dp) THEN Panic(p) /\ UNCHANGED <<inode, disk>>
     ELSE /\ inode' = t
          /\ IF full \/ Dirlookup(disk, dp, name) # 0
               THEN /\ Fail(p, <<dp>>)
                    /\ UNCHANGED disk
               ELSE /\ disk' = Dirlink(disk, dp, name, pr[p].ip)
                    /\ Finish(p, <<dp, pr[p].ip>>)
  /\ UNCHANGED <<lock, files, world>>

\* Wrong on purpose: the error path forgets iput().
LinkBadNoPut(p) ==
  LET i == pr[p].ip
      t == Ilock(inode, disk, i)
  IN
  /\ At(p, "bad") /\ CanLock(i)
  /\ disk' = DiskLink(disk, i, t[i].nlink - 1)
  /\ inode' = TableLink(t, i, t[i].nlink - 1)
  /\ Finish(p, <<>>)
  /\ UNCHANGED <<lock, files, world>>

\* The error path takes the link away again.
LinkBad(p) ==
  LET i == pr[p].ip
      t == Ilock(inode, disk, i)
  IN
  /\ At(p, "bad") /\ CanLock(i)
  /\ IF ~HasType(i) THEN Panic(p) /\ UNCHANGED <<inode, disk>>
     ELSE /\ disk' = DiskLink(disk, i, t[i].nlink - 1)
          /\ inode' = TableLink(t, i, t[i].nlink - 1)
          /\ Finish(p, <<i>>)
  /\ UNCHANGED <<lock, files, world>>
-----------------------------------------------------------------------------
\* A crash: the disk holds what was committed, and the machine starts again.
Crash ==
  /\ crashes < MaxCrash
  /\ crashes' = crashes + 1
  /\ disk' = saved
  /\ inode' = Boot.inode /\ lock' = Boot.lock
  /\ file' = Boot.file /\ ofile' = Boot.ofile /\ cwd' = Boot.cwd
  /\ pr' = Boot.pr
  /\ open' = 0 /\ group' = 0 /\ booting' = TRUE
  /\ UNCHANGED saved

Orphans(d) == {i \in Inums : d.type[i] # "free" /\ d.nlink[i] = 0}

\* Wrong on purpose: ireclaim() without the ilock() that makes ip valid, so
\* that iput() does not free the inode.
ReclaimInvalid ==
  /\ booting /\ booting' = FALSE
  /\ UNCHANGED <<disk, saved, inode, lock, files, pr, open, group,
                 crashes>>

\* ireclaim() frees the inodes without links, in a transaction each, before
\* the first process runs.
Reclaim ==
  /\ booting
  /\ IF Orphans(disk) = {}
       THEN booting' = FALSE /\ UNCHANGED <<disk, saved>>
       ELSE /\ LET i == FirstOf(Orphans(disk)) IN
                 disk' = [disk EXCEPT !.type[i] = "free", !.dir[i] = Empty,
                                      !.up[i] = 0]
            /\ saved' = disk'
            /\ UNCHANGED booting
  /\ UNCHANGED <<inode, lock, files, pr, open, group,
                 crashes>>
-----------------------------------------------------------------------------
Step(p) ==
  \/ Iput(p) \/ IputTrunc(p) \/ IputDrop(p) \/ Ifree(p) \/ EndOp(p)
  \/ \E c \in Calls : Begin(p, c)
  \/ NamexEnd(p) \/ NamexElement(p)
  \/ OpenLock(p) \/ OpenFile(p) \/ Chdir(p)
  \/ \E fd \in Fds : Dup(p, fd) \/ Close(p, fd)
  \/ ClosePut(p)
  \/ CreateExisting(p) \/ CreateFound(p)
  \/ \E full \in BOOLEAN : CreateNew(p, full) \/ LinkNew(p, full)
  \/ UnlinkParent(p) \/ UnlinkChild(p)
  \/ LinkOld(p) \/ LinkBad(p)

Next == (\E p \in Procs : Step(p)) \/ Crash \/ Reclaim

Spec == Init /\ [][Next]_vars
-----------------------------------------------------------------------------
\* The names of inode i in the directories of d that have links themselves,
\* and the ".." entries that count as links of a directory.
NamesOf(d, i) ==
  {x \in Inums \X Names : d.type[x[1]] = "dir" /\ d.dir[x[1]][x[2]] = i}
Subdirs(d, i) ==
  {j \in Inums : d.type[j] = "dir" /\ d.up[j] = i /\ d.nlink[j] > 0}
Links(d, i) ==
  Cardinality(NamesOf(d, i)) + Cardinality(Subdirs(d, i))

(* No directory entry refers to a free inode or to one that would be freed *)
(* while it has a name: the link count never falls below the entries of    *)
(* the inode.  It holds of the disk at any point of the calls that overlap *)
(* and of what a crash would leave.                                        *)
NamesSound ==
  \A d \in {disk, saved} : \A i \in Inums :
    /\ d.nlink[i] >= Links(d, i)
    /\ Links(d, i) > 0 => d.type[i] # "free"

\* What may point to an inode: current directories, files, and processes in
\* the middle of a call.
Pointers == ({"cwd", "at", "ip", "todo", "todo2"} \X Procs)
              \cup ({"file"} \X Files)
Todo(r) == IF r.todo = <<>> \/ r.fr = "free" THEN 0 ELSE Head(r.todo)
Todo2(r) == IF Len(r.todo) < 2 THEN 0 ELSE r.todo[2]
Pointer ==
  [x \in Pointers |->
     CASE x[1] = "cwd"   -> cwd[x[2]]
       [] x[1] = "at"    -> pr[x[2]].at
       [] x[1] = "ip"    -> pr[x[2]].ip
       [] x[1] = "todo"  -> Todo(pr[x[2]])
       [] x[1] = "todo2" -> Todo2(pr[x[2]])
       [] x[1] = "file"  -> file[x[2]].ip]
Holders(i) == Cardinality({x \in Pointers : Pointer[x] = i})

(* The kernel never panics in ilock() or unlink(): no process meets a free *)
(* inode, or one whose links are used up; and each ref is the number of    *)
(* pointers to the inode, so that an inode in use is never freed and one   *)
(* that is not in use does not stay in the table, on every error path.     *)
RefsCounted ==
  /\ \A p \in Procs : pr[p].pc # "panic"
  /\ \A i \in Inums : inode[i].ref = Holders(i)

(* ireclaim() leaves no inode without links after a start, and iput() none *)
(* when the calls are over: what has neither name nor holder is free.      *)
NoOrphans ==
  ~booting /\ (\A p \in Procs : pr[p].pc = "idle")
    => \A i \in Inums : i \in Orphans(disk) => Holders(i) > 0

=============================================================================
