------------------------- MODULE PreparedGeneration -------------------------
(***************************************************************************)
(* publish_prepared_generation of platform/artifacts/storage.py.           *)
(*                                                                         *)
(* A publisher freezes the directory it has prepared, takes the lock of    *)
(* its identity, and either renames the directory into place or, when the  *)
(* identity is there already, compares and reuses it; then it moves        *)
(* current.json.  For the rename the root of the directory is writable for *)
(* a moment, in which a process can die and a stray file can be dropped.   *)
(***************************************************************************)
EXTENDS Naturals

CONSTANTS
    Publishers,         \* publishing processes
    NoPublisher,        \* "nobody"
    Ids,                \* generation ids
    NoId,               \* "no pointer yet"
    Bytes,              \* what the files of a prepared directory can hold
    NoBytes,            \* "no directory"
    StrayAfterCompare,  \* whether a stray file can arrive between the compare
                        \* and the freeze of an existing generation
    MaxPublications,    \* bound on calls
    MaxDeaths,          \* bound on deaths
    MaxStrays,          \* bound on stray files
    MaxRenameErrors     \* bound on OSErrors of os.rename

ASSUME NoPublisherAssumption == NoPublisher \notin Publishers
ASSUME NoIdAssumption == NoId \notin Ids
ASSUME NoBytesAssumption == NoBytes \notin Bytes
ASSUME StrayAssumption == StrayAfterCompare \in BOOLEAN
ASSUME PublisherBoundsAssumption ==
    /\ MaxPublications \in Nat
    /\ MaxDeaths \in Nat
    /\ MaxStrays \in Nat
    /\ MaxRenameErrors \in Nat

VARIABLES
    target,         \* generations/<id>
    latest,         \* what current.json names
    lock,           \* who holds .publish_locks/<id>.lock
    place,          \* where each publisher is
    id,             \* the identity it publishes
    tree,           \* its prepared directory
    closure,        \* prepared_closure, taken before the freeze
    publications, deaths, strays, renameErrors

disk == <<target, latest>>
counters == <<publications, deaths, strays, renameErrors>>
publisherVars == <<disk, lock, place, id, tree, closure, counters>>

\* The files of a directory: what was prepared, and whether a stray is there.
Closure == [bytes: Bytes, stray: BOOLEAN]

\* writable: as prepared; frozen: 0440 and 0550 throughout; open: frozen but
\* for the root, which is 0750.
Tree == [files: Closure, mode: {"writable", "frozen", "open"}]
NoClosure == [bytes |-> NoBytes, stray |-> FALSE]
NoTree == [files |-> NoClosure, mode |-> "absent"]

Places == {"idle", "prepared", "waiting", "unseal", "rename", "reseal", "check",
           "compare", "refreeze", "point", "raised"}

PublisherTypeOK ==
    /\ target \in [Ids -> Tree \cup {NoTree}]
    /\ latest \in Ids \cup {NoId}
    /\ lock \in [Ids -> Publishers \cup {NoPublisher}]
    /\ place \in [Publishers -> Places]
    /\ id \in [Publishers -> Ids \cup {NoId}]
    /\ tree \in [Publishers -> Tree \cup {NoTree}]
    /\ closure \in [Publishers -> Closure \cup {NoClosure}]
    /\ \A g \in Ids: lock[g] # NoPublisher => id[lock[g]] = g
    /\ \A p \in Publishers:
          place[p] # "idle" => id[p] \in Ids /\ closure[p] \in Closure
    /\ publications \in 0..MaxPublications
    /\ deaths \in 0..MaxDeaths
    /\ strays \in 0..MaxStrays
    /\ renameErrors \in 0..MaxRenameErrors

PublisherInit ==
    /\ target = [g \in Ids |-> NoTree]
    /\ latest = NoId
    /\ lock = [g \in Ids |-> NoPublisher]
    /\ place = [p \in Publishers |-> "idle"]
    /\ id = [p \in Publishers |-> NoId]
    /\ tree = [p \in Publishers |-> NoTree]
    /\ closure = [p \in Publishers |-> NoClosure]
    /\ publications = 0
    /\ deaths = 0
    /\ strays = 0
    /\ renameErrors = 0

-----------------------------------------------------------------------------
MoveTo(p, label) == place' = [place EXCEPT ![p] = label]

SetTarget(p, t) == target' = [target EXCEPT ![id[p]] = t]
SetTree(p, t) == tree' = [tree EXCEPT ![p] = t]

Unlock(p) == lock' = [g \in Ids |-> IF lock[g] = p THEN NoPublisher ELSE lock[g]]

\* The call is over; its caller removes what is left of the prepared
\* directory.
Forget(p) ==
    /\ Unlock(p)
    /\ MoveTo(p, "idle")
    /\ SetTree(p, NoTree)
    /\ id' = [id EXCEPT ![p] = NoId]
    /\ closure' = [closure EXCEPT ![p] = NoClosure]

Call(p, g, b) ==
    /\ place[p] = "idle"
    /\ publications < MaxPublications
    /\ publications' = publications + 1
    /\ id' = [id EXCEPT ![p] = g]
    /\ closure' = [closure EXCEPT ![p] = [bytes |-> b, stray |-> FALSE]]
    /\ SetTree(p, [files |-> [bytes |-> b, stray |-> FALSE],
                   mode |-> "writable"])
    /\ MoveTo(p, "prepared")
    /\ UNCHANGED <<disk, lock, deaths, strays, renameErrors>>

\* The validator reads the frozen directory; nothing can change it there.
Freeze(p) ==
    /\ place[p] = "prepared"
    /\ SetTree(p, [tree[p] EXCEPT !.mode = "frozen"])
    /\ MoveTo(p, "waiting")
    /\ UNCHANGED <<disk, lock, id, closure, counters>>

\* Mutant: one does not wait for the lock.
LockNone(p) ==
    /\ place[p] = "waiting"
    /\ lock' = [lock EXCEPT ![id[p]] = p]
    /\ MoveTo(p, IF target[id[p]] = NoTree THEN "unseal" ELSE "compare")
    /\ UNCHANGED <<disk, id, tree, closure, counters>>

Lock(p) ==
    /\ place[p] = "waiting"
    /\ lock[id[p]] = NoPublisher
    /\ lock' = [lock EXCEPT ![id[p]] = p]
    /\ MoveTo(p, IF target[id[p]] = NoTree THEN "unseal" ELSE "compare")
    /\ UNCHANGED <<disk, id, tree, closure, counters>>

(***************************************************************************)
(* A new identity                                                          *)
(***************************************************************************)
Unseal(p) ==
    /\ place[p] = "unseal"
    /\ SetTree(p, [tree[p] EXCEPT !.mode = "open"])
    /\ MoveTo(p, "rename")
    /\ UNCHANGED <<disk, lock, id, closure, counters>>

Rename(p) ==
    /\ place[p] = "rename"
    /\ target[id[p]] = NoTree
    /\ SetTarget(p, tree[p])
    /\ SetTree(p, NoTree)
    /\ MoveTo(p, "reseal")
    /\ UNCHANGED <<latest, lock, id, closure, counters>>

\* os.rename raises; over an existing generation it always would.
RenameRaises(p) ==
    /\ place[p] = "rename"
    /\ target[id[p]] = NoTree => renameErrors < MaxRenameErrors
    /\ renameErrors' = renameErrors + IF target[id[p]] = NoTree THEN 1 ELSE 0
    /\ SetTree(p, [tree[p] EXCEPT !.mode = "frozen"])
    /\ MoveTo(p, "raised")
    /\ UNCHANGED <<disk, lock, id, closure, publications, deaths, strays>>

Reseal(p) ==
    /\ place[p] = "reseal"
    /\ SetTarget(p, [target[id[p]] EXCEPT !.mode = "frozen"])
    /\ MoveTo(p, "check")
    /\ UNCHANGED <<latest, lock, id, tree, closure, counters>>

\* Mutant: the closure is not taken again after the rename.
CheckNothing(p) ==
    /\ place[p] = "check"
    /\ MoveTo(p, "point")
    /\ UNCHANGED <<disk, lock, id, tree, closure, counters>>

Check(p) ==
    /\ place[p] = "check"
    /\ MoveTo(p, IF target[id[p]].files = closure[p] THEN "point" ELSE "raised")
    /\ UNCHANGED <<disk, lock, id, tree, closure, counters>>

(***************************************************************************)
(* An identity that is there already                                       *)
(***************************************************************************)
\* Mutant: the bytes of the files are not compared.
CompareShape(p) ==
    /\ place[p] = "compare"
    /\ MoveTo(p, IF target[id[p]].files.stray = tree[p].files.stray
                 THEN "refreeze" ELSE "raised")
    /\ UNCHANGED <<disk, lock, id, tree, closure, counters>>

\* _tree_mismatch
Compare(p) ==
    /\ place[p] = "compare"
    /\ MoveTo(p, IF target[id[p]].files = tree[p].files
                 THEN "refreeze" ELSE "raised")
    /\ UNCHANGED <<disk, lock, id, tree, closure, counters>>

\* The generation is frozen, validated (by its manifest) and the prepared
\* directory removed.
Refreeze(p) ==
    /\ place[p] = "refreeze"
    /\ SetTarget(p, [target[id[p]] EXCEPT !.mode = "frozen"])
    /\ SetTree(p, NoTree)
    /\ MoveTo(p, "point")
    /\ UNCHANGED <<latest, lock, id, closure, counters>>

PointAt(p) ==
    /\ place[p] = "point"
    /\ latest' = id[p]
    /\ Forget(p)
    /\ UNCHANGED <<target, counters>>

Raise(p) ==
    /\ place[p] = "raised"
    /\ Forget(p)
    /\ UNCHANGED <<disk, counters>>

(***************************************************************************)
(* The environment                                                         *)
(***************************************************************************)
Die(p) ==
    /\ place[p] # "idle"
    /\ deaths < MaxDeaths
    /\ deaths' = deaths + 1
    /\ Forget(p)
    /\ UNCHANGED <<disk, publications, strays, renameErrors>>

AddStray(t) == [t EXCEPT !.files.stray = TRUE]

\* A file is dropped into a directory whose root is writable.
StrayInPrepared(p) ==
    /\ strays < MaxStrays
    /\ tree[p].mode = "open"
    /\ SetTree(p, AddStray(tree[p]))
    /\ strays' = strays + 1
    /\ UNCHANGED <<disk, lock, place, id, closure, publications, deaths,
                   renameErrors>>

StrayInTarget(g) ==
    /\ strays < MaxStrays
    /\ target[g].mode = "open"
    /\ \/ StrayAfterCompare
       \/ \A p \in Publishers: ~(place[p] = "refreeze" /\ id[p] = g)
    /\ target' = [target EXCEPT ![g] = AddStray(@)]
    /\ strays' = strays + 1
    /\ UNCHANGED <<latest, lock, place, id, tree, closure, publications, deaths,
                   renameErrors>>

PublisherStep(p) ==
             \/ Freeze(p) \/ Lock(p)
             \/ Unseal(p) \/ Rename(p) \/ RenameRaises(p) \/ Reseal(p) \/ Check(p)
             \/ Compare(p) \/ Refreeze(p) \/ PointAt(p) \/ Raise(p)

PublisherNext ==
    \/ \E p \in Publishers, g \in Ids, b \in Bytes: Call(p, g, b)
    \/ \E p \in Publishers: PublisherStep(p) \/ Die(p) \/ StrayInPrepared(p)
    \/ \E g \in Ids: StrayInTarget(g)

PublisherSpec == PublisherInit /\ [][PublisherNext]_publisherVars

-----------------------------------------------------------------------------
(***************************************************************************)
(* Properties                                                              *)
(***************************************************************************)
\* What current.json names is complete, immutable and exactly what some
\* publisher prepared, wherever publishers died before, and whoever else
\* publishes now.  "Recovery never blesses bytes created in that narrow
\* window", says the comment where an existing generation is frozen: this
\* holds unless they come between the compare and the freeze themselves.
PointerIsExact ==
    latest # NoId =>
        /\ target[latest].mode = "frozen"
        /\ ~target[latest].files.stray

\* Concurrent and repeated publication is idempotent: a call raises only for
\* an error of the file system, a stray file, or an identity that holds other
\* bytes, never because of another publisher of the same bytes or because one
\* died.
RaisesForAReason ==
    /\ PublisherTypeOK
    /\ \A p \in Publishers: place[p] = "raised" =>
          \/ renameErrors > 0
          \/ strays > 0
          \/ target[id[p]].files.bytes \in Bytes \ {closure[p].bytes}

\* A caller that gets past the checks publishes its own bytes: never is an
\* identity reused that holds others.
PublishesOwnBytes ==
    \A p \in Publishers: place[p] = "point" =>
        target[id[p]].files.bytes = closure[p].bytes
=============================================================================
