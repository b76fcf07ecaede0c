---------------------------- MODULE FencedLease ----------------------------
(***************************************************************************)
(* What a replacement-safe lease promises to the code that runs under it,  *)
(* for one authority directory: at most one owner, a fence that grows by   *)
(* one with every grant, one root binding for ever, and no grant ever      *)
(* again once a crash has left the durable lease files of the directory    *)
(* disagreeing with each other.                                            *)
(* DurableLease (platform/governance/network/lease.py) implements it.      *)
(***************************************************************************)
EXTENDS Naturals

CONSTANTS
    Procs,      \* operating-system processes that compete for the lease
    NoProc,     \* "nobody", not one of them
    Roots,      \* root bindings a lease can be asked for
    NoRoot      \* "none yet"

VARIABLES
    owner,      \* the process the lease is granted to, or NoProc
    fence,      \* the fence of the last grant, 0 before the first
    root,       \* the root binding of every grant so far
    torn        \* the durable files disagree: fail closed for ever

vars == <<owner, fence, root, torn>>

TypeOK ==
    /\ owner \in Procs \cup {NoProc}
    /\ fence \in Nat
    /\ root \in Roots \cup {NoRoot}
    /\ torn \in BOOLEAN

Init ==
    /\ owner = NoProc
    /\ fence = 0
    /\ root = NoRoot
    /\ torn = FALSE

\* acquire() returns: a new owner and the next fence.
Grant(p, r) ==
    /\ owner = NoProc
    /\ root \in {NoRoot, r}
    /\ ~torn
    /\ owner' = p
    /\ fence' = fence + 1
    /\ root' = r
    /\ UNCHANGED torn

\* The owner released the lease, lost it, or died while merely holding it.
Drop(p) ==
    /\ owner = p
    /\ owner' = NoProc
    /\ UNCHANGED <<fence, root, torn>>

\* A process died between two of the durable writes of acquire or release.
Tear ==
    /\ ~torn
    /\ torn' = TRUE
    /\ owner' = NoProc
    /\ UNCHANGED <<fence, root>>

Next ==
    \/ Tear
    \/ \E p \in Procs: Drop(p)
    \/ \E p \in Procs, r \in Roots: Grant(p, r)

Spec == Init /\ [][Next]_vars
=============================================================================
