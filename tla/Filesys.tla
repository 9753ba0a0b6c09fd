------------------------------ MODULE Filesys ------------------------------
(***************************************************************************)
(* The filesystem device's cache of a_inodes (src/src/filesys.c): the      *)
(* objects of a host directory tree that AmigaDOS has named, with the      *)
(* locks, file handles and directory scans that refer to them.             *)
(*                                                                         *)
(* A packet is one step: a unit has one thread, and it handles its packets *)
(* one after the other.  The variable unit is struct _unit; its heap maps  *)
(* every a_inode that has not been freed to its fields, so an a_inode      *)
(* outside DOMAIN unit.heap is freed memory.  disk is the host's tree.     *)
(*                                                                         *)
(* Left out: the contents of files, protection bits and comments, the      *)
(* fsdb database of names the host cannot hold, upper and lower case,      *)
(* notification, read-only volumes, and packets naming the volume's root   *)
(* as the object to delete or rename.                                      *)
(***************************************************************************)
EXTENDS Integers, FiniteSets, SequencesExt

CONSTANTS
    Names,       \* names of files and directories
    Workloads,   \* bound: what clients do together, records of the host's tree at
                 \* the start, the kinds of packets, the paths in them and the
                 \* number of a_inodes ever made
    MaxAinos,    \* bound: the most a_inodes of any workload
    MaxDepth,    \* bound: the deepest an object is moved
    MaxLocks,    \* bound: locks held at a time
    MaxPhantoms, \* bound: a mkdir fails only while there are fewer phantoms
    Handles,     \* bound: file handles, a set of numbers
    CacheLimit,  \* 5000 in recycle_aino
    ReapCount,   \* 50 in recycle_aino
    HashSize,    \* MAX_AINO_HASH
    EXKEYS,      \* slots for scans
    IntoItself   \* do clients rename a directory to a name inside itself?

ASSUME CacheIsLarge == CacheLimit \in Nat /\ ReapCount \in Nat \ {0} /\ ReapCount <= CacheLimit + 1

ASSUME Bounds ==
    /\ MaxAinos \in Nat /\ IsFiniteSet(Handles) /\ IsFiniteSet(Names)
    /\ \A w \in Workloads : w.ainos \in 0..MaxAinos /\ w.rels \subseteq Seq(Names)

VARIABLES
    disk,       \* the host's objects: a function from paths to "dir" or "file"
    unit,       \* struct _unit, and what it last did that C does not define
    locks,      \* the locks clients hold: how many on the object of each uniq
    recounted,  \* ghost: uniqs whose shlock counts a holder too many
    phantom,    \* ghost: a_inodes left behind though the host has no such object
    work        \* bound: this behaviour's workload

vars == <<disk, unit, locks, recounted, phantom, work>>

Root == 0
NoAino == -1
NoLock == -1
Uniqs == 0..MaxAinos
Orders == UNION {{s \in [1..n -> Names] : IsInjective(s)} : n \in 0..Cardinality(Names)}

-----------------------------------------------------------------------------
(* a_inodes and where they are.                                            *)

\* A new a_inode, as init_child_aino leaves it.
NewAino(uniq, parent, name, dir) ==
    [uniq |-> uniq, parent |-> parent, name |-> name, dir |-> dir, child |-> <<>>,
     shlock |-> 0, elock |-> FALSE, locked_children |-> 0, exnext_count |-> 0]

InUse(a) == a.shlock > 0 \/ a.elock

\* nname: update_child_names keeps it in step with the tree.
Path(u) ==
    LET p[c \in DOMAIN u.heap] ==
          IF c = Root THEN <<>> ELSE Append(p[u.heap[c].parent], u.heap[c].name)
    IN  p

\* The a_inode with this uniq, in the whole tree.
WithUniq(u, uniq) ==
    LET found == {c \in DOMAIN u.heap : u.heap[c].uniq = uniq}
    IN  IF found = {} THEN NoAino ELSE CHOOSE c \in found : TRUE

\* aino->sibling
Sibling(list, c) ==
    LET later == {i \in DOMAIN list : i > 1 /\ list[i - 1] = c}
    IN  IF later = {} THEN NoAino ELSE list[CHOOSE i \in later : TRUE]

OnDisk(u, c) == c = Root \/ Path(u)[c] \in DOMAIN disk

\* A list without the members of a set, and only with them.
Without(list, S) ==
    LET rest[n \in 0..Len(list)] ==
          IF n = 0 THEN <<>>
          ELSE IF list[n] \in S THEN rest[n - 1] ELSE Append(rest[n - 1], list[n])
    IN  rest[Len(list)]

Only(list, S) == Without(list, Range(list) \ S)

-----------------------------------------------------------------------------
(* Freeing and the list of a_inodes that may be freed.                     *)

de_recycle_aino(u, c) == [u EXCEPT !.lru = Without(@, {c})]

Unlinked(a, gone) == [a EXCEPT !.child = Without(@, gone)]
Relieved(k, gone) == [k EXCEPT !.todo = @ \ gone]

\* dispose_aino of each: unlinked from its siblings and freed; a scan no longer
\* owes it (ghost).
dispose_ainos(u, gone) ==
    [u EXCEPT
       !.heap = [d \in DOMAIN u.heap \ gone |-> Unlinked(u.heap[d], gone)],
       !.aino_hash = [h \in DOMAIN u.aino_hash |->
                        IF @[h] \in gone /\ u.heap[@[h]].uniq % HashSize = h THEN NoAino ELSE @[h]],
       !.exkeys = [i \in DOMAIN u.exkeys |-> Relieved(u.exkeys[i], gone)]]

\* The tail of the list has gone to its front, k times.
Rotate(lru, k) == SubSeq(lru, Len(lru) - k + 1, Len(lru)) \o SubSeq(lru, 1, Len(lru) - k)

\* The unused files of a directory.
Unused(u, dir) == {c \in Range(u.lru) : u.heap[c].parent = dir}

Sweep(u, gone) == dispose_ainos([u EXCEPT !.lru = Without(@, gone)], gone)

\* Mutant: the files of a directory being scanned go too.
MutReapPass(r) ==
    LET gone == Unused(r.u, r.u.heap[Last(r.u.lru)].parent)
    IN  [u |-> Sweep(r.u, gone), reaped |-> r.reaped + Cardinality(gone), stuck |-> FALSE]

\* The list is turned until its tail is in another directory than dir; the loop
\* is stuck when there is none.
TurnFrom(u, dir, reaped) ==
    LET other == {k \in 1..Len(u.lru) : u.heap[Last(Rotate(u.lru, k))].parent # dir}
    IN  [u |-> IF other = {} THEN u
               ELSE [u EXCEPT !.lru = Rotate(@, CHOOSE k \in other : \A j \in other : k <= j)],
         reaped |-> reaped,
         stuck |-> u.lru # <<>> /\ other = {}]

\* One pass of the reaping loop: all the unused files of the tail's directory
\* go, unless that directory is being scanned.
ReapPass(r) ==
    LET dir == r.u.heap[Last(r.u.lru)].parent
        gone == IF r.u.heap[dir].locked_children > 0 THEN {} ELSE Unused(r.u, dir)
    IN  IF r.u.lru = <<>> THEN [r EXCEPT !.stuck = TRUE]
        ELSE TurnFrom(Sweep(r.u, gone), dir, r.reaped + Cardinality(gone))

\* The loop is to end with ReapCount files gone.
EndReaping(r) ==
    IF r.stuck \/ r.reaped < ReapCount THEN [r.u EXCEPT !.broken = "reaping"] ELSE r.u

Reap(u) ==
    LET pass[n \in 0..MaxAinos] ==
          IF n = 0 THEN [u |-> u, reaped |-> 0, stuck |-> FALSE] ELSE
          LET prev == pass[n - 1]
          IN  IF prev.stuck \/ prev.reaped >= ReapCount THEN prev ELSE ReapPass(prev)
    IN  EndReaping(pass[MaxAinos])

\* An a_inode nobody uses goes to the front of the list, old ones are freed.
recycle_aino(u, c) ==
    LET r == IF Len(u.lru) > CacheLimit + u.total_locked_ainos THEN Reap(u) ELSE u
    IN  IF u.heap[c].dir \/ InUse(u.heap[c]) THEN u ELSE [r EXCEPT !.lru = <<c>> \o @]

\* Scans that would return the a_inode next go on to its sibling.
AdvanceScans(u, c) ==
    LET dir == u.heap[c].parent
    IN  IF u.heap[dir].exnext_count = 0 THEN u
        ELSE [u EXCEPT !.exkeys = [i \in DOMAIN @ |->
                IF @[i].aino = dir /\ @[i].curr_file = c
                THEN [@[i] EXCEPT !.curr_file = Sibling(u.heap[dir].child, c)] ELSE @[i]]]

delete_aino(u, c) == dispose_ainos(AdvanceScans(de_recycle_aino(u, c), c), {c})

-----------------------------------------------------------------------------
(* Finding an a_inode.  The results carry the unit as the search leaves it. *)

Found(u, c, err) == [u |-> u, at |-> c, err |-> err]

InFront(a, c, scanned) ==
    [a EXCEPT !.child = <<c>> \o @, !.locked_children = @ + scanned]

\* init_child_aino and recycle_aino: a new a_inode in front of its siblings.
AddChild(u, dir, name, isdir) ==
    LET c == u.a_uniq + 1
        scanned == IF u.heap[dir].exnext_count > 0 THEN 1 ELSE 0
        v == [u EXCEPT !.a_uniq = c,
                       !.total_locked_ainos = @ + scanned,
                       !.heap = [d \in DOMAIN u.heap \cup {c} |->
                          IF d = c THEN NewAino(c, dir, name, isdir)
                          ELSE IF d = dir THEN InFront(u.heap[d], c, scanned)
                          ELSE u.heap[d]]]
    IN  Found(recycle_aino(v, c), c, "ok")

\* The child with this name: cached, or read from the host now.
lookup_child_aino(u, dir, name) ==
    LET known == {c \in Range(u.heap[dir].child) : u.heap[c].name = name}
        path == Append(Path(u)[dir], name)
    IN  IF ~u.heap[dir].dir THEN Found(u, NoAino, "wrong_type")
        ELSE IF known # {}
        THEN Found(u, Head(Only(u.heap[dir].child, known)), "ok")
        ELSE IF path \in DOMAIN disk THEN AddChild(u, dir, name, disk[path] = "dir")
        ELSE Found(u, NoAino, "absent")

\* When only the last name is absent, the directory it would be in.
get_aino(u, base, rel) ==
    LET walk[i \in 0..Len(rel)] ==
          IF i = 0 THEN Found(u, base, "ok") ELSE
          LET prev == walk[i - 1]
              next == lookup_child_aino(prev.u, prev.at, rel[i])
          IN  IF prev.err # "ok" THEN [prev EXCEPT !.at = NoAino]
              ELSE IF next.err = "absent" /\ i = Len(rel) THEN [next EXCEPT !.at = prev.at]
              ELSE next
    IN  walk[Len(rel)]

\* The way's next step goes to the front of the children.
StepFirst(a, way) == [a EXCEPT !.child = Only(@, way) \o Without(@, way)]

\* The a_inodes on the way to c.
WayTo(u, c) ==
    LET path == Path(u)
    IN  {d \in DOMAIN u.heap \ {Root} : IsPrefix(path[d], path[c])}

\* Mutant: also in a directory that is being scanned.
MutMoveToFront(u, c) ==
    LET way == WayTo(u, c)
    IN  [u EXCEPT !.heap = [d \in DOMAIN u.heap |-> StepFirst(u.heap[d], way)]]

\* Every directory on the way to c has the way's next step moved to the front
\* of its children, unless it is being scanned.
MoveToFront(u, c) ==
    LET way == WayTo(u, c)
    IN  [u EXCEPT !.heap = [d \in DOMAIN u.heap |->
           IF u.heap[d].locked_children = 0 /\ \E e \in way : u.heap[e].parent = d
           THEN StepFirst(u.heap[d], way) ELSE u.heap[d]]]

\* The a_inode a lock names, through the hash table or by a search of the tree.
lookup_aino(u, uniq) ==
    LET h == uniq % HashSize
        hit == u.aino_hash[h]
        c == WithUniq(u, uniq)
    IN  IF uniq = 0 THEN Found(u, Root, "ok")
        ELSE IF hit # NoAino /\ hit \in DOMAIN u.heap /\ u.heap[hit].uniq = uniq
        THEN Found(u, hit, "ok")
        ELSE IF c = NoAino THEN Found([u EXCEPT !.aino_hash[h] = NoAino], NoAino, "absent")
        ELSE Found([MoveToFront(u, c) EXCEPT !.aino_hash[h] = c], c, "ok")

\* lookup_aino, and the root where it finds nothing.
LookupOrRoot(u, lock) ==
    IF lock = NoLock THEN Found(u, Root, "ok")
    ELSE LET f == lookup_aino(u, lock) IN IF f.at = NoAino THEN Found(f.u, Root, "ok") ELSE f

find_aino(u, lock, rel) ==
    LET base == LookupOrRoot(u, lock) IN get_aino(base.u, base.at, rel)

-----------------------------------------------------------------------------
(* Directory scans.                                                        *)

\* The ExamineKey in slot i is given up; its directory may be gone.
free_exkey(u, i) ==
    LET dir == u.exkeys[i].aino
        last == u.heap[dir].exnext_count = 1
        freed == [u EXCEPT !.exkeys = RemoveAt(@, i)]
    IN  IF dir \notin DOMAIN u.heap THEN [freed EXCEPT !.broken = "scan of a freed directory"]
        ELSE [freed EXCEPT
                !.heap[dir].exnext_count = @ - 1,
                !.total_locked_ainos = IF last THEN @ - u.heap[dir].locked_children ELSE @,
                !.heap[dir].locked_children = IF last THEN 0 ELSE @]

\* The oldest scan gives way when there are EXKEYS of them.
new_exkey(u, dir) ==
    LET v == IF Len(u.exkeys) < EXKEYS THEN u ELSE free_exkey(u, 1)
    IN  [v EXCEPT !.exkeys = Append(@, [aino |-> dir, curr_file |-> NoAino, todo |-> {}])]

\* The children known so far are locked in memory, the others of the host's
\* directory are made, in the order the host lists them.
populate_directory(u, dir, listing) ==
    IF ~OnDisk(u, dir) THEN u ELSE
    LET n == Len(u.heap[dir].child)
        v == [u EXCEPT !.heap[dir].locked_children = @ + n, !.total_locked_ainos = @ + n]
        made[i \in 0..Len(listing)] ==
          IF i = 0 THEN v ELSE lookup_child_aino(made[i - 1], dir, listing[i]).u
    IN  made[Len(listing)]

\* Returns an entry and goes on to the next, or ends the scan.
do_examine(u, i) ==
    LET k == u.exkeys[i]
    IN  IF k.curr_file = NoAino THEN free_exkey(u, i)
        ELSE IF k.curr_file \notin DOMAIN u.heap THEN [u EXCEPT !.broken = "freed entry"]
        ELSE [u EXCEPT !.exkeys[i].curr_file = Sibling(u.heap[k.aino].child, k.curr_file),
                       !.exkeys[i].todo = @ \ {k.curr_file}]

\* The first ExNext of a scan.
StartScan(u, dir, listing) ==
    LET v == new_exkey(u, dir)
        first == v.heap[dir].exnext_count = 0
        w == [v EXCEPT !.heap[dir].exnext_count = @ + 1]
        x == IF first THEN populate_directory(w, dir, listing) ELSE w
        child == x.heap[dir].child
        i == Len(x.exkeys)
    IN  IF v.broken # "no" THEN v
        ELSE do_examine([x EXCEPT !.exkeys[i].curr_file = IF child = <<>> THEN NoAino ELSE child[1],
                                  !.exkeys[i].todo = Range(child)], i)

-----------------------------------------------------------------------------
(* Packets.  A client passes a lock it holds, or none, and a path from it.  *)

Held(uniq) == locks[uniq] > 0
Bases == {NoLock} \cup {uniq \in Uniqs : Held(uniq)}
AnyFree == FoldFunction(+, 0, locks) < MaxLocks
FreeHandles == {h \in Handles : unit.keys[h].aino = NoAino}
Open == Handles \ FreeHandles

Take(uniq) == locks' = [locks EXCEPT ![uniq] = @ + 1]
Drop(uniq) == locks' = [locks EXCEPT ![uniq] = @ - 1]

\* One holder more of an object, which nobody may free now.
Hold(u, c, excl) ==
    de_recycle_aino(IF excl THEN [u EXCEPT !.heap[c].elock = TRUE]
                    ELSE [u EXCEPT !.heap[c].shlock = @ + 1], c)

\* One holder less.
Release(u, c) ==
    recycle_aino(IF u.heap[c].elock THEN [u EXCEPT !.heap[c].elock = FALSE]
                 ELSE [u EXCEPT !.heap[c].shlock = @ - 1], c)

\* The handler ends with the unit u.
Leave(u) == u.a_uniq <= work.ainos /\ unit' = u

\* The packet is refused, or changes nothing but what its lookups changed.
Refuse(u) == Leave(u) /\ UNCHANGED <<disk, locks, recounted, phantom>>

action_lock(f, excl) ==
    LET a == f.u.heap[f.at]
    IN  IF f.err # "ok" \/ a.elock \/ (excl /\ a.shlock > 0) THEN Refuse(f.u)
        ELSE /\ AnyFree
             /\ Leave(Hold(f.u, f.at, excl)) /\ Take(a.uniq)
             /\ UNCHANGED <<disk, recounted, phantom>>

action_free_lock(uniq) ==
    LET f == lookup_aino(unit, uniq)
    IN  /\ Held(uniq)
        /\ IF f.at = NoAino THEN Refuse(f.u)
           ELSE /\ Leave(Release(f.u, f.at)) /\ Drop(uniq)
                /\ UNCHANGED <<disk, recounted, phantom>>

\* A shared lock on c, unless it is locked exclusively.
Share(u, c) ==
    IF u.heap[c].elock THEN Refuse(u)
    ELSE /\ AnyFree
         /\ Leave(Hold(u, c, FALSE)) /\ Take(u.heap[c].uniq)
         /\ UNCHANGED <<disk, recounted, phantom>>

action_dup_lock(uniq) ==
    LET f == lookup_aino(unit, uniq)
    IN  Held(uniq) /\ IF f.at = NoAino THEN Refuse(f.u) ELSE Share(f.u, f.at)

action_lock_from_fh(h) ==
    LET f == lookup_aino(unit, unit.heap[unit.keys[h].aino].uniq)
    IN  h \in Open /\ IF f.at = NoAino THEN Refuse(f.u) ELSE Share(f.u, f.at)

ParentOf(uniq) ==
    LET f == lookup_aino(unit, uniq)
    IN  IF f.at \in {NoAino, Root} THEN Refuse(f.u) ELSE Share(f.u, f.u.heap[f.at].parent)

action_parent(uniq) == Held(uniq) /\ ParentOf(uniq)
action_parent_fh(h) == h \in Open /\ ParentOf(unit.heap[unit.keys[h].aino].uniq)

SetKey(u, h, c, output) == [u EXCEPT !.keys[h] = [aino |-> c, output |-> output]]
NoKey == [aino |-> NoAino, output |-> FALSE]

\* The lock's holder becomes the handle's; directories cannot be opened.
action_fh_from_lock(uniq, h) ==
    LET f == LookupOrRoot(unit, uniq)
    IN  /\ Held(uniq) /\ h \in FreeHandles
        /\ IF f.u.heap[f.at].dir \/ ~OnDisk(f.u, f.at) THEN Refuse(f.u)
           ELSE /\ Leave(de_recycle_aino(SetKey(f.u, h, f.at, FALSE), f.at)) /\ Drop(uniq)
                /\ UNCHANGED <<disk, recounted, phantom>>

\* Find input, update and output: create is 0, 1 and 2; opens says whether
\* the host opens the file.
do_find(f, name, create, h, opens) ==
    LET a == f.u.heap[f.at]
        new == AddChild(f.u, f.at, name, FALSE)
        made == f.err = "absent"
        g == IF made THEN new ELSE f
        path == Path(g.u)[g.at]
    IN  /\ h \in FreeHandles
        /\ IF \/ f.at = NoAino
              \/ made /\ create = 0
              \/ ~made /\ (a.dir \/ a.elock \/ (create = 2 /\ a.shlock > 0))
           THEN Refuse(f.u)
           ELSE IF ~opens
           THEN Refuse(IF made THEN delete_aino(g.u, g.at) ELSE g.u)
           ELSE /\ made => OnDisk(f.u, f.at)
                /\ Leave(Hold(SetKey(g.u, h, g.at, create = 2), g.at, create = 2))
                /\ disk' = (path :> "file") @@ disk
                /\ UNCHANGED <<locks, recounted, phantom>>

action_end(h) ==
    LET c == unit.keys[h].aino
    IN  /\ h \in Open
        /\ Leave([Release(unit, c) EXCEPT !.keys[h] = NoKey])
        /\ UNCHANGED <<disk, locks, recounted, phantom>>

\* A lock becomes exclusive or shared.  A handle never does: it is looked up by
\* its address, Arg2 << 2, and not by its number, and the packet is refused.
action_change_mode(uniq, excl) ==
    LET f == lookup_aino(unit, uniq)
        a == f.u.heap[f.at]
        twice == ~excl /\ ~a.elock
    IN  /\ Held(uniq)
        /\ IF f.at = NoAino \/ (excl /\ a.shlock > 1) THEN Refuse(f.u)
           ELSE /\ twice => recounted = {}
                /\ Leave(de_recycle_aino(
                      [f.u EXCEPT !.heap[f.at].elock = excl,
                                  !.heap[f.at].shlock = IF excl THEN 0 ELSE @ + 1], f.at))
                /\ recounted' = IF twice THEN recounted \cup {uniq} ELSE recounted
                /\ UNCHANGED <<disk, locks, phantom>>

\* A failing mkdir leaves the a_inode made for it.
action_create_dir(f, name, mkdir) ==
    LET g == AddChild(f.u, f.at, name, TRUE)
    IN  IF f.err # "absent" \/ f.at = NoAino THEN Refuse(f.u)
        ELSE IF mkdir
        THEN /\ AnyFree /\ OnDisk(f.u, f.at)
             /\ Leave(Hold(g.u, g.at, FALSE)) /\ Take(g.at)
             /\ disk' = (Path(g.u)[g.at] :> "dir") @@ disk
             /\ UNCHANGED <<recounted, phantom>>
        ELSE /\ Cardinality(phantom) < MaxPhantoms
             /\ Leave(g.u) /\ phantom' = phantom \cup {g.at}
             /\ UNCHANGED <<disk, locks, recounted>>

Below(path) == {p \in DOMAIN disk : IsStrictPrefix(path, p)}

\* An a_inode with children is left behind.  That a client deletes the root is
\* left out.
action_delete_object(f) ==
    LET path == Path(f.u)[f.at]
    IN  IF \/ f.err # "ok" \/ f.at = Root \/ InUse(f.u.heap[f.at])
           \/ path \notin DOMAIN disk \/ Below(path) # {}
        THEN Refuse(f.u)
        ELSE /\ disk' = [p \in DOMAIN disk \ {path} |-> disk[p]]
             /\ IF f.u.heap[f.at].child # <<>>
                THEN Leave(f.u) /\ phantom' = phantom \cup {f.at}
                ELSE Leave(delete_aino(f.u, f.at)) /\ UNCHANGED phantom
             /\ UNCHANGED <<locks, recounted>>

\* Mutant: the locks' uniq is not handed on.
MutTakePlace(u, a1, a2) ==
    LET old == u.heap[a1]
        moved == [old EXCEPT !.parent = u.heap[a2].parent, !.name = u.heap[a2].name,
                             !.uniq = u.heap[a2].uniq]
        left == [old EXCEPT !.child = <<>>, !.exnext_count = 0, !.locked_children = 0]
    IN  [u EXCEPT
           !.heap = [c \in DOMAIN @ |-> IF c = a1 THEN left ELSE IF c = a2 THEN moved
                                        ELSE IF @[c].parent = a1 THEN [@[c] EXCEPT !.parent = a2]
                                        ELSE @[c]],
           !.keys = [h \in Handles |-> IF @[h].aino = a1 THEN [@[h] EXCEPT !.aino = a2] ELSE @[h]],
           !.exkeys = [i \in DOMAIN @ |-> IF @[i].aino = a1 THEN [@[i] EXCEPT !.aino = a2] ELSE @[i]]]

\* The new a_inode takes the place of the renamed one: locks, handles, scans
\* and children go over to it.
TakePlace(u, a1, a2) ==
    LET old == u.heap[a1]
        moved == [old EXCEPT !.parent = u.heap[a2].parent, !.name = u.heap[a2].name]
        left == [old EXCEPT !.child = <<>>, !.exnext_count = 0, !.locked_children = 0]
    IN  [u EXCEPT
           !.heap = [c \in DOMAIN @ |-> IF c = a1 THEN left ELSE IF c = a2 THEN moved
                                        ELSE IF @[c].parent = a1 THEN [@[c] EXCEPT !.parent = a2]
                                        ELSE @[c]],
           !.keys = [h \in Handles |-> IF @[h].aino = a1 THEN [@[h] EXCEPT !.aino = a2] ELSE @[h]],
           !.exkeys = [i \in DOMAIN @ |-> IF @[i].aino = a1 THEN [@[i] EXCEPT !.aino = a2] ELSE @[i]]]

CloseKeys(u, lost) == [u EXCEPT !.keys = [h \in Handles |-> IF h \in lost THEN NoKey ELSE @[h]]]

\* rename(): into an existing object only where the host replaces it.
HostRenames(u, from, to) ==
    /\ from \in DOMAIN disk /\ ~IsPrefix(from, to)
    /\ Len(to) > 1 => Front(to) \in DOMAIN disk
    /\ to \in DOMAIN disk => disk[to] = disk[from] /\ Below(to) = {}

Moved(from, to) ==
    LET going == {from} \cup Below(from)
        New(p) == to \o SubSeq(p, Len(from) + 1, Len(p))
    IN  [p \in {New(q) : q \in going} |-> disk[CHOOSE q \in going : New(q) = p]]
          @@ [p \in DOMAIN disk \ going |-> disk[p]]

\* Handles that were closed for the host to rename (relock_do) and could not be
\* opened again (relock_re) are gone; the a_inode keeps counting them.
Lose(u, a1, lost) ==
    /\ lost # {} => recounted = {}
    /\ recounted' = IF lost = {} THEN recounted ELSE recounted \cup {u.heap[a1].uniq}

RenameOnHost(u, a1, a2, lost, wehavekeys) ==
    LET from == Path(u)[a1]
        to == Path(u)[a2]
        done == delete_aino(TakePlace(CloseKeys(u, lost), a1, a2), a1)
    IN  /\ HostRenames(u, from, to)
        /\ disk' = Moved(from, to)
        /\ \A p \in DOMAIN disk' : Len(p) <= MaxDepth
        /\ Lose(u, a1, lost)
        /\ Leave(IF InUse(u.heap[a1]) \/ wehavekeys THEN de_recycle_aino(done, a2) ELSE done)
        /\ UNCHANGED <<locks, phantom>>

\* Mutant: the new a_inode stays.
MutRenameFails(u, a1, a2, lost) ==
    /\ Lose(u, a1, lost)
    /\ Leave(CloseKeys(u, lost))
    /\ UNCHANGED <<disk, locks, phantom>>

RenameFails(u, a1, a2, lost) ==
    /\ Lose(u, a1, lost)
    /\ Leave(delete_aino(CloseKeys(u, lost), a2))
    /\ UNCHANGED <<disk, locks, phantom>>

\* The new a_inode is made; with the cache full that may free the old one, as
\* the search for the new name may have done.
RenameInto(f2, a1, g) ==
    LET having == {h \in Handles : g.u.keys[h].aino = a1}
    IN  IF a1 \notin DOMAIN g.u.heap
        THEN Refuse([f2.u EXCEPT !.broken = "renaming a freed file"])
        ELSE \/ RenameOnHost(g.u, a1, g.at, {}, FALSE)
             \/ \E lost \in SUBSET having :
                   \/ having # {} /\ RenameOnHost(g.u, a1, g.at, lost, TRUE)
                   \/ RenameFails(g.u, a1, g.at, lost)

RenameTo(a1, f2, name) ==
    LET same == f2.at = a1
        old == f2.u.heap[a1]
        dir == IF same THEN old.parent ELSE f2.at
    IN  IF (same /\ name = old.name) \/ (~same /\ (f2.at = NoAino \/ f2.err # "absent"))
        THEN Refuse(f2.u)
        ELSE IF a1 \notin DOMAIN f2.u.heap
        THEN Refuse([f2.u EXCEPT !.broken = "renaming a freed file"])
        ELSE /\ same => IntoItself
             /\ RenameInto(f2, a1, AddChild(f2.u, dir, name, old.dir))

action_rename_object(f1, lock2, rel2) ==
    LET writing == \E h \in Handles : unit.keys[h].aino = f1.at /\ unit.keys[h].output
    IN  IF f1.err # "ok" \/ f1.at = Root \/ writing THEN Refuse(f1.u)
        ELSE RenameTo(f1.at, find_aino(f1.u, lock2, rel2), Last(rel2))

\* The names the host lists and the cache does not hold.
Unknown(u, dir) ==
    {name \in Names : /\ Append(Path(u)[dir], name) \in DOMAIN disk
                      /\ \A c \in Range(u.heap[dir].child) : u.heap[c].name # name}

\* ACTION_EXAMINE_NEXT with a fresh FileInfoBlock, and with a scan's.
action_examine_first(lock, listing) ==
    LET f == LookupOrRoot(unit, lock)
    IN  /\ f.u.heap[f.at].dir
        /\ Range(listing) = Unknown(f.u, f.at)
        /\ Refuse(StartScan(f.u, f.at, listing))

action_examine_next(lock, i) ==
    LET f == LookupOrRoot(unit, lock)
    IN  i \in DOMAIN unit.exkeys /\ Refuse(do_examine(f.u, i))

Unit0 ==
    [heap |-> [c \in {Root} |-> NewAino(0, NoAino, "", TRUE)], lru |-> <<>>, total_locked_ainos |-> 0,
     aino_hash |-> [h \in 0..HashSize - 1 |-> NoAino], exkeys |-> <<>>,
     keys |-> [h \in Handles |-> NoKey], a_uniq |-> 0, broken |-> "no"]

Init ==
    /\ work \in Workloads
    /\ disk = work.disk
    /\ unit = Unit0
    /\ locks = [uniq \in Uniqs |-> 0]
    /\ recounted = {} /\ phantom = {}

\* Both variants of a packet, when it is sent at all.
Modes(kind) == IF kind \in work.packets THEN BOOLEAN ELSE {}

\* The packets that name an object.
NamedObject(f, lock, rel) ==
    \/ \E excl \in Modes("lock") : action_lock(f, excl)
    \/ \E create \in 0..2, h \in Handles, opens \in Modes("find") :
         do_find(f, Last(rel), create, h, opens)
    \/ rel # <<>> /\ \E mkdir \in Modes("create dir") : action_create_dir(f, Last(rel), mkdir)
    \/ "delete" \in work.packets /\ action_delete_object(f)
    \/ /\ lock = NoLock /\ "rename" \in work.packets
       /\ \E rel2 \in work.rels \ {<<>>} : action_rename_object(f, NoLock, rel2)

NamedLock(uniq) ==
    \/ action_free_lock(uniq)
    \/ "share" \in work.packets /\ (action_dup_lock(uniq) \/ action_parent(uniq))
    \/ "convert" \in work.packets /\ \E h \in Handles : action_fh_from_lock(uniq, h)
    \/ \E excl \in Modes("change mode") : action_change_mode(uniq, excl)

NamedHandle(h) ==
    \/ action_end(h)
    \/ "share" \in work.packets /\ action_parent_fh(h)
    \/ "convert" \in work.packets /\ action_lock_from_fh(h)

\* A client names an object by a path from the root, or by a lock and at most
\* one name.
Next ==
    /\ unit.broken = "no"
    /\ UNCHANGED work
    /\ \/ \E lock \in Bases, rel \in work.rels :
            /\ lock = NoLock \/ Len(rel) <= 1
            /\ NamedObject(find_aino(unit, lock, rel), lock, rel)
       \/ \E uniq \in Uniqs : NamedLock(uniq)
       \/ \E h \in Handles : NamedHandle(h)
       \/ /\ "scan" \in work.packets
          /\ \/ \E lock \in Bases, listing \in Orders :
                  /\ lock = NoLock => "scan root" \in work.packets
                  /\ action_examine_first(lock, listing)
             \/ \E lock \in Bases, i \in 1..EXKEYS : action_examine_next(lock, i)

Spec == Init /\ [][Next]_vars

-----------------------------------------------------------------------------
(* Properties.                                                             *)

Dirs == {c \in DOMAIN unit.heap : unit.heap[c].dir}
Holders(c) == locks[unit.heap[c].uniq] + Cardinality({h \in Open : unit.keys[h].aino = c})
Scans(c) == {i \in DOMAIN unit.exkeys : unit.exkeys[i].aino = c}

TypeOK ==
    /\ work \in Workloads
    /\ DOMAIN unit.heap \subseteq 0..MaxAinos
    /\ unit.total_locked_ainos \in Int
    /\ \A c \in DOMAIN unit.heap : unit.heap[c].shlock \in Nat /\ unit.heap[c].locked_children \in Nat
    /\ recounted \subseteq Uniqs

\* Exactly the unused files may be freed, each once, and the hash table names
\* no freed a_inode: what uses an a_inode takes it off the list of recycle_aino,
\* whatever finds it next, and what frees or renames it clears its slot.
UnusedMayBeFreed ==
    /\ IsInjective(unit.lru)
    /\ Range(unit.lru) = {c \in DOMAIN unit.heap \ Dirs : ~InUse(unit.heap[c])}
    /\ \A h \in DOMAIN unit.aino_hash :
         LET c == unit.aino_hash[h]
         IN  c # NoAino => c \in DOMAIN unit.heap /\ unit.heap[c].uniq % HashSize = h

\* An object's lock counts say who holds it: one exclusive holder, or as many
\* shared ones as there are locks and handles on it, over-counted only once
\* it was made shared while it was shared, or a handle was lost in a rename.
\* Every lock and handle names an object that is still there, and what may be
\* freed is what nobody holds.
LocksAreCounted ==
    /\ TypeOK /\ UnusedMayBeFreed
    /\ \A uniq \in Uniqs : Held(uniq) => WithUniq(unit, uniq) # NoAino
    /\ \A h \in Open : unit.keys[h].aino \in DOMAIN unit.heap
    /\ \A c \in DOMAIN unit.heap :
         LET a == unit.heap[c]
         IN  IF a.elock THEN a.shlock = 0 /\ Holders(c) <= 1
             ELSE IF a.uniq \in recounted THEN a.shlock > Holders(c)
             ELSE a.shlock = Holders(c)

\* The siblings from a_inode c on.
From(list, c) ==
    IF c = NoAino THEN {} ELSE {list[i] : i \in {i \in DOMAIN list : \E j \in 1..i : list[j] = c}}

\* A scan owes exactly the entries its directory had when it began, without
\* those returned, deleted or renamed since: nothing is returned twice or
\* passed over.  The counts that keep its entries in memory agree.  A directory
\* the host does not have is left out: populate_directory cannot open it, and
\* its children may go or change places under the scan.
ScansOweTheRest == unit.broken = "no" =>
    /\ \A i \in DOMAIN unit.exkeys :
         LET k == unit.exkeys[i]
         IN  k.aino \in DOMAIN unit.heap \ phantom => From(unit.heap[k.aino].child, k.curr_file) = k.todo
    /\ \A c \in Dirs :
         LET a == unit.heap[c]
         IN  /\ a.exnext_count = Cardinality(Scans(c))
             /\ IF a.exnext_count = 0 THEN a.locked_children = 0
                ELSE c \notin phantom => a.locked_children >= Len(a.child)
    /\ LET counted == FoldFunctionOnSet(+, 0, [c \in Dirs |-> unit.heap[c].locked_children], Dirs)
       IN  /\ unit.total_locked_ainos >= counted
           /\ (\A i \in DOMAIN unit.exkeys : unit.exkeys[i].aino \in Dirs)
                => unit.total_locked_ainos = counted

\* The cache is the part of the host's tree that was named: every a_inode but
\* those a failed mkdir left behind is an object of the host of the same kind,
\* and no two are the same object.
CacheIsSound ==
    LET path == Path(unit)
    IN  /\ \A c \in DOMAIN unit.heap \ {Root} :
             IF c \in phantom THEN path[c] \notin DOMAIN disk
             ELSE /\ path[c] \in DOMAIN disk
                  /\ unit.heap[c].dir <=> disk[path[c]] = "dir"
        /\ IsInjective(path)

\* No two a_inodes stand for the same host object.
NamesAreUnique == IsInjective(Path(unit))

\* Freed a_inodes are used in two ways only: by a rename whose new a_inode
\* makes the full cache free the unused file being renamed, and by a scan
\* whose directory was deleted.  The reaping loop always ends.
FreedUsedOnlySo ==
    unit.broken \in {"no", "renaming a freed file", "scan of a freed directory"}
=============================================================================
