--------------------------------- MODULE Fs ---------------------------------
(***************************************************************************)
(* Inodes, directories and path names: kernel/fs.c with the system calls   *)
(* of kernel/sysfile.c that change the tree (open with and without         *)
(* O_CREATE, mkdir, link, unlink, chdir, close).                           *)
(*                                                                         *)
(* What a process does between taking an inode's sleep lock and waiting    *)
(* for the next one touches only inodes that it has locked and the         *)
(* reference counts, so it is one step.  iput runs after the lock is       *)
(* given up, and frees in steps of its own.  A path is a sequence of       *)
(* names, absolute or relative; file contents, sizes and blocks are left   *)
(* out.  The transactions around the calls are those of the Log module.    *)
(***************************************************************************)
EXTENDS Naturals, FiniteSetsExt, SequencesExt

CONSTANTS
  Procs,
  NINODES,    (* inodes on the disk; inode 1 is the root                  *)
  Names,      (* file names besides . and ..                              *)
  Calls,      (* bound: the system calls with their paths that are made   *)
  MaxLink,    (* bound: no link call when some file has this many links   *)
  None

ASSUME FsAssumption == NINODES \in Nat /\ NINODES >= 2 /\ ".." \notin Names

ROOTINO == 1
Inums == 1..NINODES
DirNames == Names \cup {".."}
Types == {"free", "dir", "file"}

VARIABLES
  itab,     (* itable: the entry of each inode; not in use when ref = 0   *)
  dinode,   (* type and nlink on the disk                                 *)
  dir,      (* directory contents: name to inode number, 0 for none       *)
  cwd, file,(* inodes that processes refer to; 0 for no open file         *)
  k         (* where each process is in its call                          *)

vars == <<itab, dinode, dir, cwd, file, k>>

EmptyDir == [n \in DirNames |-> 0]
Idle == [op |-> "none", at |-> "idle", ip |-> 0, other |-> 0, path |-> <<>>, new |-> None,
         puts |-> <<>>, freeing |-> 0]

(* The contents of a table entry that is not in use, or not yet valid. *)
NoEntry == [ref |-> 0, valid |-> FALSE, type |-> "free", nlink |-> 0, lock |-> None]

(* mkfs makes the root; the inode 2 is an empty directory in it. *)
Init ==
  LET first == CHOOSE n \in Names : TRUE IN
  /\ itab = [i \in Inums |-> [NoEntry EXCEPT !.ref = IF i = ROOTINO THEN Cardinality(Procs) ELSE 0]]
  /\ dinode = [i \in Inums |-> IF i = ROOTINO THEN [type |-> "dir", nlink |-> 2]
                               ELSE IF i = 2 THEN [type |-> "dir", nlink |-> 1]
                               ELSE [type |-> "free", nlink |-> 0]]
  /\ dir = [i \in Inums |-> IF i = ROOTINO THEN [EmptyDir EXCEPT ![first] = 2, ![".."] = ROOTINO]
                            ELSE IF i = 2 THEN [EmptyDir EXCEPT ![".."] = ROOTINO]
                            ELSE EmptyDir]
  /\ cwd = [p \in Procs |-> ROOTINO]
  /\ file = [p \in Procs |-> 0]
  /\ k = [p \in Procs |-> Idle]

-----------------------------------------------------------------------------
(* Functions on the inode table t. *)

(* iget and idup: an entry not in use is taken over and not valid. *)
Iget(t, i) == [t EXCEPT ![i].ref = @ + 1]

(* ilock reads the inode from the disk when the entry is not valid. *)
Ilock(p, i) ==
  [itab EXCEPT ![i].lock = p, ![i].valid = TRUE,
               ![i].type = IF itab[i].valid THEN @ ELSE dinode[i].type,
               ![i].nlink = IF itab[i].valid THEN @ ELSE dinode[i].nlink]

Iunlock(t, i) == [t EXCEPT ![i].lock = None]

(* Change nlink of an inode in the table by d, and iupdate. *)
AddLink(t, i, d) == [t EXCEPT ![i].nlink = @ + d]
Iupdate(t, S) == [i \in Inums |-> IF i \in S THEN [type |-> t[i].type, nlink |-> t[i].nlink] ELSE dinode[i]]

At(p, at) == k[p].at = at /\ k[p].puts = <<>>
Unlocked(i) == itab[i].lock = None

(* nameiparent rather than namei. *)
WantsParent(op) == op \in {"unlink", "create", "mkdir", "link2"}

(* The call returns, after the given iputs. *)
Return(p, puts) == k' = [k EXCEPT ![p] = [Idle EXCEPT !.puts = puts]]

-----------------------------------------------------------------------------
(* iput. *)

(* Faulty variant: freed although other references are left. *)
IputFreeShared(p) ==
  LET i == Head(k[p].puts) IN
  /\ k[p].puts # <<>> /\ k[p].freeing = 0
  /\ itab[i].valid /\ itab[i].nlink = 0 /\ Unlocked(i)
  /\ itab' = [itab EXCEPT ![i].lock = p, ![i].type = "free"]
  /\ dinode' = [dinode EXCEPT ![i] = [type |-> "free", nlink |-> 0]]
  /\ dir' = [dir EXCEPT ![i] = EmptyDir]
  /\ k' = [k EXCEPT ![p].freeing = 1]
  /\ UNCHANGED <<cwd, file>>

(* No other reference and no link: lock, itrunc, type = 0, iupdate. *)
IputFree(p) ==
  LET i == Head(k[p].puts) IN
  /\ k[p].puts # <<>> /\ k[p].freeing = 0
  /\ itab[i].ref = 1 /\ itab[i].valid /\ itab[i].nlink = 0
  /\ Unlocked(i)
  /\ itab' = [itab EXCEPT ![i].lock = p, ![i].type = "free"]
  /\ dinode' = [dinode EXCEPT ![i] = [type |-> "free", nlink |-> 0]]
  /\ dir' = [dir EXCEPT ![i] = EmptyDir]
  /\ k' = [k EXCEPT ![p].freeing = 1]
  /\ UNCHANGED <<cwd, file>>

IputUnlock(p) ==
  LET i == Head(k[p].puts) IN
  /\ k[p].freeing = 1
  /\ itab' = [itab EXCEPT ![i] = [NoEntry EXCEPT !.ref = itab[i].ref]]
  /\ k' = [k EXCEPT ![p].freeing = 2]
  /\ UNCHANGED <<dinode, dir, cwd, file>>

IputDrop(p) ==
  LET i == Head(k[p].puts) IN
  /\ k[p].puts # <<>>
  /\ \/ k[p].freeing = 2
     \/ k[p].freeing = 0 /\ ~(itab[i].ref = 1 /\ itab[i].valid /\ itab[i].nlink = 0)
  /\ itab' = [itab EXCEPT ![i] = IF @.ref = 1 THEN NoEntry ELSE [@ EXCEPT !.ref = @ - 1]]
  /\ k' = [k EXCEPT ![p].puts = Tail(@), ![p].freeing = 0]
  /\ UNCHANGED <<dinode, dir, cwd, file>>

-----------------------------------------------------------------------------
(* Calls and path lookup. *)

Start(p, path) == IF path.abs THEN ROOTINO ELSE cwd[p]

Call(p, c) ==
  /\ At(p, "idle")
  /\ WantsParent(c.op) => c.path.names # <<>>
  /\ c.op = "link" => \A i \in Inums : dinode[i].type = "file" => dinode[i].nlink < MaxLink
  /\ itab' = Iget(itab, Start(p, c.path))
  /\ k' = [k EXCEPT ![p] = [Idle EXCEPT !.op = c.op, !.ip = Start(p, c.path), !.path = c.path.names,
                                        !.new = c.new, !.at = IF c.path.names = <<>> THEN "got" ELSE "namex"]]
  /\ UNCHANGED <<dinode, dir, cwd, file>>

(* One iteration of namex, whose result is the inode ip at "got". *)
Namex(p) ==
  LET ip == k[p].ip  t == Ilock(p, ip)  next == dir[ip][Head(k[p].path)]
      last == Len(k[p].path) = 1
      fails == t[ip].type # "dir" \/ (~(WantsParent(k[p].op) /\ last) /\ next = 0) IN
  /\ At(p, "namex") /\ Unlocked(ip)
  /\ \/ /\ fails
        /\ itab' = Iunlock(t, ip)
        /\ IF k[p].op = "link2" THEN k' = [k EXCEPT ![p].at = "undo", ![p].ip = 0, ![p].puts = <<ip>>]
           ELSE Return(p, <<ip>>)
     \/ /\ ~fails /\ WantsParent(k[p].op) /\ last
        /\ itab' = Iunlock(t, ip)
        /\ k' = [k EXCEPT ![p].at = "got"]
     \/ /\ ~fails /\ ~(WantsParent(k[p].op) /\ last)
        /\ itab' = Iunlock(Iget(t, next), ip)
        /\ k' = [k EXCEPT ![p].ip = next, ![p].path = Tail(@), ![p].puts = <<ip>>,
                          ![p].at = IF last THEN "got" ELSE @]
  /\ UNCHANGED <<dinode, dir, cwd, file>>

(* open keeps its reference in a struct file; it fails for a directory     *)
(* opened for writing, or when there is no free file or descriptor.        *)
KeepOrPut(p, i, puts) ==
  \/ file[p] = 0 /\ file' = [file EXCEPT ![p] = i] /\ Return(p, puts)
  \/ Return(p, puts \o <<i>>) /\ UNCHANGED file

Open(p) ==
  LET ip == k[p].ip IN
  /\ At(p, "got") /\ k[p].op = "open" /\ Unlocked(ip)
  /\ itab' = Iunlock(Ilock(p, ip), ip)
  /\ KeepOrPut(p, ip, <<>>)
  /\ UNCHANGED <<dinode, dir, cwd>>

Close(p) ==
  /\ At(p, "idle") /\ file[p] # 0
  /\ file' = [file EXCEPT ![p] = 0]
  /\ Return(p, <<file[p]>>)
  /\ UNCHANGED <<itab, dinode, dir, cwd>>

(* Faulty variant: the old directory is not put. *)
ChdirNoPut(p) ==
  LET ip == k[p].ip  t == Ilock(p, ip) IN
  /\ At(p, "got") /\ k[p].op = "chdir" /\ Unlocked(ip)
  /\ itab' = Iunlock(t, ip)
  /\ IF t[ip].type = "dir" THEN cwd' = [cwd EXCEPT ![p] = ip] /\ Return(p, <<>>)
     ELSE UNCHANGED cwd /\ Return(p, <<ip>>)
  /\ UNCHANGED <<dinode, dir, file>>

Chdir(p) ==
  LET ip == k[p].ip  t == Ilock(p, ip) IN
  /\ At(p, "got") /\ k[p].op = "chdir" /\ Unlocked(ip)
  /\ itab' = Iunlock(t, ip)
  /\ IF t[ip].type = "dir" THEN cwd' = [cwd EXCEPT ![p] = ip] /\ Return(p, <<cwd[p]>>)
     ELSE UNCHANGED cwd /\ Return(p, <<ip>>)
  /\ UNCHANGED <<dinode, dir, file>>

-----------------------------------------------------------------------------
(* unlink. *)

(* Lock the parent and look the name up; the parent stays locked. *)
UnlinkParent(p) ==
  LET dp == k[p].ip  name == Head(k[p].path)  ip == dir[dp][name]  t == Ilock(p, dp) IN
  /\ At(p, "got") /\ k[p].op = "unlink" /\ Unlocked(dp)
  /\ IF name = ".." \/ ip = 0
     THEN /\ itab' = Iunlock(t, dp)
          /\ Return(p, <<dp>>)
     ELSE /\ itab' = Iget(t, ip)
          /\ k' = [k EXCEPT ![p].at = "child", ![p].other = ip]
  /\ UNCHANGED <<dinode, dir, cwd, file>>

Isdirempty(i) == \A n \in Names : dir[i][n] = 0

(* Faulty variant: the parent loses a link for a file too. *)
UnlinkChildDropsParent(p) ==
  LET dp == k[p].ip  ip == k[p].other  t == Ilock(p, ip)  u == AddLink(AddLink(t, dp, 0 - 1), ip, 0 - 1) IN
  /\ At(p, "child") /\ k[p].op = "unlink" /\ Unlocked(ip)
  /\ itab' = Iunlock(Iunlock(u, ip), dp)
  /\ dinode' = Iupdate(u, {dp, ip})
  /\ dir' = [dir EXCEPT ![dp][Head(k[p].path)] = 0]
  /\ Return(p, <<dp, ip>>)
  /\ UNCHANGED <<cwd, file>>

(* Faulty variant: the inode keeps its link. *)
UnlinkChildKeepsLink(p) ==
  LET dp == k[p].ip  ip == k[p].other  t == Ilock(p, ip)
      u == IF t[ip].type = "dir" THEN AddLink(t, dp, 0 - 1) ELSE t IN
  /\ At(p, "child") /\ k[p].op = "unlink" /\ Unlocked(ip)
  /\ itab' = Iunlock(Iunlock(u, ip), dp)
  /\ dinode' = Iupdate(u, {dp, ip})
  /\ dir' = [dir EXCEPT ![dp][Head(k[p].path)] = 0]
  /\ Return(p, <<dp, ip>>)
  /\ UNCHANGED <<cwd, file>>

UnlinkChild(p) ==
  LET dp == k[p].ip  ip == k[p].other  t == Ilock(p, ip)
      u == AddLink(IF t[ip].type = "dir" THEN AddLink(t, dp, 0 - 1) ELSE t, ip, 0 - 1) IN
  /\ At(p, "child") /\ k[p].op = "unlink" /\ Unlocked(ip)
  /\ IF t[ip].type = "dir" /\ ~Isdirempty(ip)
     THEN /\ itab' = Iunlock(Iunlock(t, ip), dp)
          /\ Return(p, <<ip, dp>>)
          /\ UNCHANGED <<dinode, dir>>
     ELSE /\ itab' = Iunlock(Iunlock(u, ip), dp)
          /\ dinode' = Iupdate(u, {dp, ip})
          /\ dir' = [dir EXCEPT ![dp][Head(k[p].path)] = 0]
          /\ Return(p, <<dp, ip>>)
  /\ UNCHANGED <<cwd, file>>

-----------------------------------------------------------------------------
(* create, for open with O_CREATE and for mkdir. *)

(* Lock the parent; either the name exists, or an inode is allocated on    *)
(* the disk and the parent stays locked.  The scan of ialloc can be        *)
(* overtaken by a free, so that any free inode may be taken.               *)
CreateParent(p) ==
  LET dp == k[p].ip  ip == dir[dp][Head(k[p].path)]  t == Ilock(p, dp)
      free == {i \in Inums : dinode[i].type = "free"} IN
  /\ At(p, "got") /\ k[p].op \in {"create", "mkdir"} /\ Unlocked(dp)
  /\ \/ /\ ip # 0
        /\ itab' = Iunlock(Iget(t, ip), dp)
        /\ k' = [k EXCEPT ![p].at = "exists", ![p].ip = ip, ![p].puts = <<dp>>]
        /\ UNCHANGED dinode
     \/ /\ ip = 0 /\ free = {}
        /\ itab' = Iunlock(t, dp)
        /\ Return(p, <<dp>>)
        /\ UNCHANGED dinode
     \/ /\ ip = 0
        /\ \E i \in free :
             /\ dinode' = [dinode EXCEPT ![i] = [type |-> IF k[p].op = "mkdir" THEN "dir" ELSE "file", nlink |-> 0]]
             /\ itab' = Iget(t, i)
             /\ k' = [k EXCEPT ![p].at = "child", ![p].other = i]
  /\ UNCHANGED <<dir, cwd, file>>

CreateExists(p) ==
  LET ip == k[p].ip  t == Ilock(p, ip) IN
  /\ At(p, "exists") /\ Unlocked(ip)
  /\ itab' = Iunlock(t, ip)
  /\ IF k[p].op = "create" /\ t[ip].type = "file" THEN KeepOrPut(p, ip, <<>>)
     ELSE Return(p, <<ip>>) /\ UNCHANGED file
  /\ UNCHANGED <<dinode, dir, cwd>>

(* The new inode gets its entries; when the disk is full it is given up. *)
CreateChild(p) ==
  LET dp == k[p].ip  ip == k[p].other  t == Ilock(p, ip)  mkdir == k[p].op = "mkdir"
      u == [t EXCEPT ![ip].nlink = 1] IN
  /\ At(p, "child") /\ k[p].op \in {"create", "mkdir"} /\ Unlocked(ip)
  /\ \/ LET v == IF mkdir THEN AddLink(u, dp, 1) ELSE u IN
        /\ itab' = Iunlock(Iunlock(v, ip), dp)
        /\ dinode' = Iupdate(v, {dp, ip})
        /\ dir' = [dir EXCEPT ![dp][Head(k[p].path)] = ip, ![ip][".."] = IF mkdir THEN dp ELSE @]
        /\ IF mkdir THEN Return(p, <<dp, ip>>) /\ UNCHANGED file
           ELSE KeepOrPut(p, ip, <<dp>>)
     \/ /\ itab' = Iunlock(Iunlock([u EXCEPT ![ip].nlink = 0], ip), dp)
        /\ dinode' = Iupdate([u EXCEPT ![ip].nlink = 0], {ip})
        /\ Return(p, <<ip, dp>>)
        /\ UNCHANGED <<dir, file>>
  /\ UNCHANGED cwd

-----------------------------------------------------------------------------
(* link. *)

(* Faulty variant: the link is counted only when the entry is written. *)
LinkOldUncounted(p) ==
  LET ip == k[p].ip  t == Ilock(p, ip) IN
  /\ At(p, "got") /\ k[p].op = "link" /\ Unlocked(ip)
  /\ IF t[ip].type = "dir"
     THEN /\ itab' = Iunlock(t, ip)
          /\ Return(p, <<ip>>)
     ELSE /\ itab' = Iunlock(Iget(t, Start(p, k[p].new)), ip)
          /\ k' = [k EXCEPT ![p].op = "link2", ![p].at = "namex", ![p].other = ip,
                            ![p].ip = Start(p, k[p].new), ![p].path = k[p].new.names, ![p].new = None]
  /\ UNCHANGED <<dinode, dir, cwd, file>>

(* Faulty variant: the inode stays locked during the second lookup. *)
LinkOldKeepsLock(p) ==
  LET ip == k[p].ip  t == Ilock(p, ip)  u == AddLink(t, ip, 1) IN
  /\ At(p, "got") /\ k[p].op = "link" /\ Unlocked(ip) /\ t[ip].type # "dir"
  /\ itab' = Iget(u, Start(p, k[p].new))
  /\ dinode' = Iupdate(u, {ip})
  /\ k' = [k EXCEPT ![p].op = "link2", ![p].at = "namex", ![p].other = ip,
                    ![p].ip = Start(p, k[p].new), ![p].path = k[p].new.names, ![p].new = None]
  /\ UNCHANGED <<dir, cwd, file>>

(* Count the new link first, then look for its directory. *)
LinkOld(p) ==
  LET ip == k[p].ip  t == Ilock(p, ip)  u == AddLink(t, ip, 1) IN
  /\ At(p, "got") /\ k[p].op = "link" /\ Unlocked(ip)
  /\ IF t[ip].type = "dir"
     THEN /\ itab' = Iunlock(t, ip)
          /\ Return(p, <<ip>>)
          /\ UNCHANGED dinode
     ELSE /\ itab' = Iunlock(Iget(u, Start(p, k[p].new)), ip)
          /\ dinode' = Iupdate(u, {ip})
          /\ k' = [k EXCEPT ![p].op = "link2", ![p].at = "namex", ![p].other = ip,
                            ![p].ip = Start(p, k[p].new), ![p].path = k[p].new.names, ![p].new = None]
  /\ UNCHANGED <<dir, cwd, file>>

(* dirlink fails when the name exists or the disk is full. *)
LinkNew(p) ==
  LET dp == k[p].ip  ip == k[p].other  name == Head(k[p].path) IN
  /\ At(p, "got") /\ k[p].op = "link2" /\ Unlocked(dp)
  /\ itab' = Iunlock(Ilock(p, dp), dp)
  /\ \/ /\ dir[dp][name] = 0
        /\ dir' = [dir EXCEPT ![dp][name] = ip]
        /\ Return(p, <<dp, ip>>)
     \/ /\ k' = [k EXCEPT ![p].at = "undo", ![p].ip = 0, ![p].puts = <<dp>>]
        /\ UNCHANGED dir
  /\ UNCHANGED <<dinode, cwd, file>>

LinkUndo(p) ==
  LET ip == k[p].other  u == AddLink(Ilock(p, ip), ip, 0 - 1) IN
  /\ At(p, "undo") /\ Unlocked(ip)
  /\ itab' = Iunlock(u, ip)
  /\ dinode' = Iupdate(u, {ip})
  /\ Return(p, <<ip>>)
  /\ UNCHANGED <<dir, cwd, file>>

-----------------------------------------------------------------------------
Next == \E p \in Procs :
  \/ \E c \in Calls : Call(p, c)
  \/ Namex(p) \/ Open(p) \/ Close(p) \/ Chdir(p)
  \/ UnlinkParent(p) \/ UnlinkChild(p)
  \/ CreateParent(p) \/ CreateExists(p) \/ CreateChild(p)
  \/ LinkOld(p) \/ LinkNew(p) \/ LinkUndo(p)
  \/ IputFree(p) \/ IputUnlock(p) \/ IputDrop(p)

Spec == Init /\ [][Next]_vars

-----------------------------------------------------------------------------
(* Properties. *)

(* The types of the inode table, the disk inodes, the directories and the  *)
(* system calls in progress.                                               *)
TypeOK ==
  /\ itab \in [Inums -> [ref : Nat, valid : BOOLEAN, type : Types, nlink : Nat, lock : Procs \cup {None}]]
  /\ dinode \in [Inums -> [type : Types, nlink : Nat]]
  /\ dir \in [Inums -> [DirNames -> Inums \cup {0}]]
  /\ cwd \in [Procs -> Inums] /\ file \in [Procs -> Inums \cup {0}]
  /\ \A p \in Procs :
       /\ k[p].op \in {"none", "open", "chdir", "unlink", "create", "mkdir", "link", "link2"}
       /\ k[p].at \in {"idle", "namex", "got", "child", "exists", "undo"}
       /\ k[p].ip \in Inums \cup {0} /\ k[p].other \in Inums \cup {0}
       /\ k[p].freeing \in 0..2 /\ k[p].puts \in Seq(Inums)

Occurrences(s, i) == Cardinality({j \in DOMAIN s : s[j] = i})

(* ref counts exactly the pointers to an inode: current directories, open  *)
(* files and the calls in progress.  So an entry of the table is never     *)
(* taken over under somebody who uses it, and is free when nobody does.    *)
RefsCounted ==
  \A i \in Inums :
    itab[i].ref = SumFunction([p \in Procs |-> Occurrences(<<cwd[p], file[p], k[p].ip, k[p].other>> \o k[p].puts, i)])

Named(i) == {e \in Inums \X Names : dir[e[1]][e[2]] = i}

(* Every name leads to an allocated inode, and nlink is never less than    *)
(* the number of its names: what a directory names is never freed.  The    *)
(* table agrees with the disk wherever it is valid.                        *)
LinksCovered ==
  \A i \in Inums :
    /\ Cardinality(Named(i)) <= dinode[i].nlink
    /\ Named(i) # {} => dinode[i].type # "free"
    /\ itab[i].ref > 0 /\ itab[i].valid /\ itab[i].lock = None =>
         itab[i].type = dinode[i].type /\ itab[i].nlink = dinode[i].nlink

(* The inode a process waits to lock, 0 for none. *)
Wants(p) ==
  IF k[p].puts # <<>> \/ k[p].at = "idle" THEN 0
  ELSE IF k[p].at \in {"child", "undo"} THEN k[p].other ELSE k[p].ip

(* ilock never finds an inode without a type on the disk, which it answers *)
(* with a panic: nothing leads to an inode that has been freed.            *)
IlockFindsType ==
  \A p \in Procs : Wants(p) # 0 /\ Unlocked(Wants(p)) => Ilock(p, Wants(p))[Wants(p)].type # "free"

(* As long as no path goes through "..", the panics that depend on what    *)
(* other processes do cannot happen: ilock finds a type, and unlink finds  *)
(* a link to take away.  And iput never blocks on the lock of the inode it *)
(* frees, as its comment says.  Through the ".." of a removed directory    *)
(* ilock can be led to a freed inode: see IlockFindsType.                  *)
NoPanic ==
  /\ IlockFindsType
  /\ \A p \in Procs :
       /\ At(p, "child") /\ k[p].op = "unlink" /\ Unlocked(k[p].other) =>
            Ilock(p, k[p].other)[k[p].other].nlink >= 1
       /\ k[p].puts # <<>> /\ k[p].freeing = 0 =>
            LET t == itab[Head(k[p].puts)] IN t.ref = 1 /\ t.valid /\ t.nlink = 0 => t.lock = None

WaitsFor(p) == IF Wants(p) = 0 THEN None ELSE itab[Wants(p)].lock

(* Parents are locked before their children, so the processes never wait   *)
(* for each other in a circle, and nobody waits for a lock it holds.       *)
NoWaitCycle == \A Q \in SUBSET Procs : Q # {} => \E p \in Q : WaitsFor(p) \notin Q

(* Who accounts for the links of i: names, subdirectories with their "..", *)
(* link calls that have counted but not yet named it; and the root.        *)
Owed(i) ==
  Cardinality(Named(i)) + (IF i = ROOTINO THEN 1 ELSE 0)
  + Cardinality({d \in Inums \ {ROOTINO} : dinode[d].type = "dir" /\ dinode[d].nlink > 0 /\ dir[d][".."] = i})
  + Cardinality({p \in Procs : k[p].op = "link2" /\ k[p].other = i})

Overcounted == {i \in Inums : dinode[i].nlink > Owed(i)}

(* An inode with more links than names, which can never be freed, comes    *)
(* about in one way only: a call that had looked up a directory before it  *)
(* was removed makes an entry in it, and the entry vanishes with it.       *)
OnlyRemovedDirsLose ==
  [][\/ Overcounted' \subseteq Overcounted
     \/ \E d \in Inums : dinode[d].type = "dir" /\ dinode[d].nlink = 0 /\ dir'[d] # dir[d]]_vars
=============================================================================
